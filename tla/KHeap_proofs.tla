---------------------------- MODULE KHeap_proofs ----------------------------
(***************************************************************************)
(* Proofs about the kernel heap, for every size of heap, every alignment,  *)
(* every sequence of requests and every memory map a boot loader reports.  *)
(***************************************************************************)
EXTENDS Boot, NatInduct

\* align_up rounds up, never down.
LEMMA AlignUpType ==
  ASSUME NEW n \in Nat
  PROVE  AlignUp(n) \in Nat /\ n <= AlignUp(n)
<1> DEFINE q == (n + Align - 1) \div Align
           r == (n + Align - 1) % Align
<1>1. n + Align - 1 \in Nat /\ Align \in Nat /\ Align > 0
  BY AlignAssumption
<1>2. q \in Nat /\ r \in 0..Align-1 /\ n + Align - 1 = Align * q + r
  BY <1>1
<1>3. Align * q \in Nat /\ Align * q = q * Align
  BY <1>1, <1>2
<1>4. n <= q * Align
  <2> HIDE DEF q, r
  <2> QED BY <1>1, <1>2, <1>3
<1> QED BY <1>3, <1>4 DEF AlignUp

\* kheap_init's three branches: a heap of at most HEAP_MAX - HEAP_START bytes
\* or of Margin bytes, within the memory there is if that reaches the least heap.
LEMMA HeapTotalBound ==
  ASSUME NEW m \in MemSizes
  PROVE  /\ HeapTotal(m) \in Nat
         /\ HeapTotal(m) <= HEAP_MAX - HEAP_START \/ HeapTotal(m) = Margin
         /\ m >= HEAP_START + Margin => HEAP_START + HeapTotal(m) <= m
<1>1. m \in Nat /\ HEAP_START \in Nat /\ HEAP_START > 0 /\ HEAP_MAX \in Nat
      /\ Margin \in Nat /\ HEAP_START <= HEAP_MAX
  BY KHeapAssumption
<1>2. CASE m = 0 \/ m > HEAP_MAX
  <2>1. HeapTotal(m) = HEAP_MAX - HEAP_START
    BY <1>2 DEF HeapTotal
  <2> QED BY <1>1, <1>2, <2>1
<1>3. CASE ~(m = 0 \/ m > HEAP_MAX) /\ m > HEAP_START + Margin
  <2>1. HeapTotal(m) = m - HEAP_START - Margin
    BY <1>3 DEF HeapTotal
  <2> QED BY <1>1, <1>3, <2>1
<1>4. CASE ~(m = 0 \/ m > HEAP_MAX) /\ ~(m > HEAP_START + Margin)
  <2>1. HeapTotal(m) = Margin
    BY <1>4 DEF HeapTotal
  <2> QED BY <1>1, <1>4, <2>1
<1> QED BY <1>2, <1>3, <1>4

\* A block as the type invariant has it.
Block == [addr : Nat, size : Nat, asked : Nat]

\* What one block promises: it holds what was asked for, and lies in the heap
\* below "top".
Below(b, top) ==
  /\ b.asked <= b.size
  /\ HEAP_START <= b.addr
  /\ End(b) <= HEAP_START + top

\* The strengthening of Disjoint and InHeap that every step keeps: all blocks
\* lie below "used", where the next one starts, and "used" stays within "total".
HeapInv ==
  /\ TypeOK
  /\ total = HeapTotal(mem)
  /\ used <= total
  /\ \A i \in 1..Len(blocks) : Below(blocks[i], used)
  /\ Disjoint

\* A heap with no block.
LEMMA HeapInvInit == kheap_init => HeapInv
BY HeapTotalBound DEF kheap_init, HeapInv, TypeOK, Disjoint

\* The fields of a block.
LEMMA BlockType ==
  ASSUME TypeOK, NEW i \in 1..Len(blocks)
  PROVE  blocks[i] \in Block
<1>1. blocks \in Seq(Block) BY DEF TypeOK, Block
<1> QED BY <1>1

\* Both outcomes of kmalloc, and so of krealloc, keep the invariant.
LEMMA HeapInvKmalloc ==
  ASSUME HeapInv, NEW n \in Requests, kmalloc(n)
  PROVE  HeapInv'
<1> DEFINE b == [addr |-> HEAP_START + used, size |-> AlignUp(n), asked |-> n]
           m == Len(blocks)
<1>1. n \in Nat /\ HEAP_START \in Nat
  BY KHeapAssumption
<1>2. AlignUp(n) \in Nat /\ n <= AlignUp(n)
  BY <1>1, AlignUpType
<1>3. CASE ~Fits(used, total, n)
  <2>1. UNCHANGED vars
    BY <1>3 DEF kmalloc, vars
  <2> QED BY <2>1 DEF HeapInv, TypeOK, Disjoint, Below, End, vars
<1>4. CASE Fits(used, total, n)
  <2>1. /\ blocks' = Append(blocks, b)
        /\ used' = used + AlignUp(n)
        /\ mem' = mem /\ total' = total
    BY <1>4 DEF kmalloc
  <2>2. /\ TypeOK /\ blocks \in Seq(Block) /\ m \in Nat
        /\ used \in Nat /\ total \in Nat
    BY DEF HeapInv, TypeOK, Block
  <2>3. b \in Block
    BY <1>1, <1>2, <2>2 DEF Block
  <2>4. /\ blocks' \in Seq(Block)
        /\ Len(blocks') = m + 1
        /\ \A i \in 1..m : blocks'[i] = blocks[i]
        /\ blocks'[m + 1] = b
    <3> HIDE DEF b
    <3> QED BY <2>1, <2>2, <2>3
  <2>5. TypeOK' /\ total' = HeapTotal(mem)' /\ used' <= total'
    BY <2>1, <2>2, <2>4, <1>2, <1>4 DEF HeapInv, TypeOK, Block, Fits, HeapTotal
  <2>6. Below(b, used')
    BY <2>1, <2>2, <1>1, <1>2 DEF Below, End
  <2>7. ASSUME NEW i \in 1..m PROVE Below(blocks[i], used')
    <3>1. Below(blocks[i], used) /\ blocks[i] \in Block
      BY <2>2, BlockType DEF HeapInv
    <3>2. used <= used' /\ used' \in Nat
      BY <2>1, <2>2, <1>2
    <3>3. blocks[i].addr \in Nat /\ blocks[i].size \in Nat
      BY <3>1 DEF Block
    <3>4. HEAP_START \in Nat /\ used \in Nat
      BY <2>2, KHeapAssumption
    <3>5. blocks[i].addr + blocks[i].size <= HEAP_START + used'
      BY <3>1, <3>2, <3>3, <3>4 DEF Below, End
    <3> QED BY <3>1, <3>5 DEF Below, End
  <2>8. \A i \in 1..Len(blocks') : Below(blocks'[i], used')
    <3> HIDE DEF b
    <3> QED BY <2>2, <2>4, <2>6, <2>7
  <2>9. Disjoint'
    <3> SUFFICES ASSUME NEW i \in 1..m + 1, NEW j \in 1..m + 1, i < j
                 PROVE  End(blocks'[i]) <= blocks'[j].addr
      BY <2>4 DEF Disjoint, End
    <3>1. i \in 1..m /\ blocks'[i] = blocks[i]
      BY <2>2, <2>4
    <3>2. CASE j \in 1..m
      BY <3>1, <3>2, <2>4 DEF HeapInv, Disjoint
    <3>3. CASE j = m + 1
      <4>1. End(blocks[i]) <= HEAP_START + used
        BY <3>1 DEF HeapInv, Below
      <4>2. blocks'[j].addr = HEAP_START + used
        BY <3>3, <2>4
      <4> QED BY <3>1, <4>1, <4>2
    <3> QED BY <2>2, <3>2, <3>3
  <2> QED BY <2>5, <2>8, <2>9 DEF HeapInv
<1> QED BY <1>3, <1>4

\* kmalloc and kfree keep the invariant.
LEMMA HeapInvNext == HeapInv /\ [Next]_vars => HeapInv'
<1> SUFFICES ASSUME HeapInv, [Next]_vars PROVE HeapInv'
  OBVIOUS
<1>1. ASSUME NEW n \in Requests, kmalloc(n) PROVE HeapInv'
  BY <1>1, HeapInvKmalloc
<1>2. ASSUME NEW n \in Requests, NEW i \in 1..Len(blocks), krealloc(i, n) PROVE HeapInv'
  BY <1>2, HeapInvKmalloc DEF krealloc
<1>3. ASSUME UNCHANGED vars PROVE HeapInv'
  BY <1>3 DEF HeapInv, TypeOK, Disjoint, Below, End, vars
<1>4. ASSUME NEW i \in 1..Len(blocks), kfree(i) PROVE HeapInv'
  BY <1>3, <1>4 DEF kfree
<1> QED BY <1>1, <1>2, <1>3, <1>4 DEF Next

\* The inductive invariant of the heap holds in every reachable state.
THEOREM HeapInvariant == Spec => []HeapInv
<1> QED BY HeapInvInit, HeapInvNext, PTL DEF Spec

\* The variables of the allocator keep their types (kheap_init, kmalloc).
THEOREM HeapTypeCorrect == Spec => []TypeOK
<1>1. HeapInv => TypeOK BY DEF HeapInv
<1> QED BY <1>1, HeapInvariant, PTL

\* Blocks that kmalloc and krealloc hand out never share a byte.
THEOREM BlocksDisjoint == Spec => []Disjoint
<1>1. HeapInv => Disjoint BY DEF HeapInv
<1> QED BY <1>1, HeapInvariant, PTL

\* Every block kmalloc hands out holds the request and ends within the heap.
THEOREM BlocksInHeap == Spec => []InHeap
<1>1. ASSUME HeapInv PROVE InHeap
  <2> SUFFICES ASSUME NEW i \in 1..Len(blocks)
               PROVE  /\ blocks[i].asked <= blocks[i].size
                      /\ HEAP_START <= blocks[i].addr
                      /\ End(blocks[i]) <= HEAP_START + total
    BY DEF InHeap
  <2>1. Below(blocks[i], used) /\ blocks[i] \in Block
    BY <1>1, BlockType DEF HeapInv
  <2>2. used <= total /\ used \in Nat /\ total \in Nat /\ HEAP_START \in Nat
    BY <1>1, KHeapAssumption DEF HeapInv, TypeOK
  <2> QED BY <2>1, <2>2 DEF Below, End, Block
<1> QED BY <1>1, HeapInvariant, PTL

\* With memory for the least heap above HEAP_START, no block kmalloc hands
\* out lies beyond the end of memory: kheap_init sized the heap right.
THEOREM BlocksInRam == Spec => []HeapInRam
<1>1. ASSUME HeapInv PROVE HeapInRam
  <2>1. mem \in MemSizes /\ total = HeapTotal(mem)
    BY <1>1 DEF HeapInv, TypeOK
  <2>2. /\ total <= HEAP_MAX - HEAP_START \/ total = Margin
        /\ mem >= HEAP_START + Margin => HEAP_START + total <= mem
    BY <2>1, HeapTotalBound
  <2>3. ASSUME NEW i \in 1..Len(blocks), mem >= HEAP_START + Margin
        PROVE  End(blocks[i]) <= mem
    <3>1. Below(blocks[i], used) /\ blocks[i] \in Block
      BY <1>1, BlockType DEF HeapInv
    <3>2. /\ used <= total /\ used \in Nat /\ total \in Nat
          /\ HEAP_START \in Nat /\ mem \in Nat
      BY <1>1, KHeapAssumption DEF HeapInv, TypeOK
    <3> QED BY <2>2, <2>3, <3>1, <3>2 DEF Below, End, Block
  <2> QED BY <2>2, <2>3 DEF HeapInRam
<1> QED BY <1>1, HeapInvariant, PTL

\* The blocks are disjoint, inside the heap and inside the amount boot_parse left
\* in every run of the kernel (kmalloc of src/kheap.c under kmain), whatever the
\* boot loader reported: nothing changes that amount again.
THEOREM BootedHeapSafe == BootSpec => [](Disjoint /\ InHeap /\ HeapInRam)
<1>1. kmain => kheap_init
  BY DEF kmain
<1>2. [BootNext]_<<vars, info>> => [Next]_vars
  BY DEF BootNext
<1>3. BootSpec => Spec
  BY <1>1, <1>2, PTL DEF BootSpec, Spec
<1> QED BY <1>3, BlocksDisjoint, BlocksInHeap, BlocksInRam, PTL

-----------------------------------------------------------------------------
(* Where the heap lies in the machine.                                     *)

\* Numbers with a bound have a greatest one.
LEMMA Greatest ==
  ASSUME NEW S, S \subseteq Nat, S # {}, NEW b \in Nat, \A x \in S : x <= b
  PROVE  Max(S) \in S /\ \A x \in S : x <= Max(S)
<1> DEFINE T == {b - x : x \in S}
<1>1. T \subseteq Nat /\ T # {}
  <2>1. \A x \in S : b - x \in Nat
    OBVIOUS
  <2> QED BY <2>1
<1>2. PICK y \in T : \A z \in T : y <= z
  <2> HIDE DEF T
  <2> QED BY <1>1, LeastNatural
<1>3. PICK m \in S : y = b - m
  BY <1>2
<1>4. \A x \in S : x <= m
  <2> SUFFICES ASSUME NEW x \in S PROVE x <= m
    OBVIOUS
  <2>1. b - m <= b - x
    BY <1>2, <1>3
  <2> QED BY <2>1
<1>5. \E x \in S : \A z \in S : x >= z
  BY <1>4
<1>6. Max(S) \in S /\ \A z \in S : Max(S) >= z
  <2>1. Max(S) = CHOOSE x \in S : \A z \in S : x >= z
    BY DEF Max
  <2> QED BY <1>5, <2>1
<1> QED BY <1>6

\* Entries that tell of nothing above HEAP_START leave the amount as it was.
LEMMA NothingTold ==
  ASSUME NEW entries, NEW otherwise,
         \A e \in Range(entries) :
           e.type = 1 /\ e.base < Above => Top(e) \in Nat /\ Top(e) <= HEAP_START
  PROVE  MemOf(entries, otherwise) = otherwise
<1> DEFINE C == {e \in Range(entries) : e.type = 1 /\ e.base < Above}
           S == {0} \union {Top(e) : e \in C}
<1>1. HEAP_START \in Nat
  BY KHeapAssumption
<1>2. S \subseteq Nat /\ S # {} /\ \A x \in S : x <= HEAP_START
  BY <1>1
<1>3. Best(entries) = Max(S)
  BY DEF Best
<1>4. Max(S) \in S
  <2> HIDE DEF S
  <2> QED BY <1>1, <1>2, Greatest
<1> DEFINE m == Max(S)
<1>5. m \in Nat /\ m <= HEAP_START
  BY <1>2, <1>4
<1>6. ~(m > HEAP_START)
  <2> HIDE DEF m
  <2> QED BY <1>1, <1>5
<1>7. ~(Best(entries) > HEAP_START)
  <2> HIDE DEF S
  <2> QED BY <1>3, <1>6
<1> QED BY <1>7 DEF MemOf

\* The constants of the two modules, as the comparisons need them.
LEMMA Bounds ==
  /\ HEAP_START \in Nat /\ HEAP_START > 0 /\ HEAP_MAX \in Nat /\ HEAP_START <= HEAP_MAX
  /\ Margin \in Nat /\ Margin > 0 /\ Wrap \in Nat /\ Wrap > 0
  /\ Default \in Nat /\ Default > 0 /\ Default <= HEAP_MAX
  /\ TAGS \in Nat /\ E820_MAX \in Nat
BY KHeapAssumption, BootAssumption

\* What the loader reported.
LEMMA InfoParts ==
  ASSUME NEW i \in Infos
  PROVE  /\ i.loader \in {"cd", "multiboot1", "multiboot2", "unknown"}
         /\ i.map \in Seq(Entry) /\ i.basic \in BOOLEAN /\ i.mapped \in BOOLEAN
         /\ i.lower \in Nat /\ i.upper \in Nat /\ i.found \in Seq(Entry)
<1>1. i \in InfoType
  BY BootAssumption
<1> QED BY <1>1 DEF InfoType

\* The CD loader, which asks the wrong service, and Multiboot2, whose reserved
\* word is 0, leave the default; so does an unknown loader.
LEMMA OthersTellNothing ==
  ASSUME NEW i \in Infos, i.loader # "multiboot1"
  PROVE  boot_parse(i) = Default
<1>1. CASE i.loader = "cd"
  <2> DEFINE es == FirstOf(e820_loop(i.map), E820_MAX)
  <2>1. boot_parse(i) = MemOf(es, Default)
    BY <1>1 DEF boot_parse, parse_e820_cd
  <2>2. e820_loop(i.map) = <<>>
    BY DEF e820_loop, Bios
  <2>3. Range(es) = {}
    <3>1. es = SubSeq(<<>>, 1, 0)
      BY <2>2, Bounds DEF FirstOf
    <3>2. DOMAIN es = {}
      BY <3>1
    <3> HIDE DEF es
    <3> QED BY <3>2 DEF Range
  <2> HIDE DEF es
  <2>4. MemOf(es, Default) = Default
    BY <2>3, NothingTold
  <2> QED BY <2>1, <2>4
<1>2. CASE i.loader = "multiboot2"
  <2>1. i.reserved = 0
    BY <1>2, LoaderAssumption
  <2> QED BY <1>2, <2>1, Bounds DEF boot_parse, parse_mb2
<1>3. CASE i.loader = "unknown"
  BY <1>3 DEF boot_parse
<1> QED BY <1>1, <1>2, <1>3, InfoParts

\* Multiboot1 leaves what lower and upper tell, or the default, if nothing that
\* is found where the map is looked for is taken for memory.
LEMMA Mb1Tells ==
  ASSUME info \in Infos, NoneTaken, info.loader = "multiboot1"
  PROVE  boot_parse(info) = IF info.basic THEN info.lower + info.upper ELSE Default
<1> DEFINE mem0 == IF info.basic THEN info.lower + info.upper ELSE Default
<1>1. boot_parse(info) = IF info.mapped THEN MemOf(info.found, mem0) ELSE mem0
  BY DEF boot_parse, parse_mb1
<1>2. ASSUME info.mapped PROVE MemOf(info.found, mem0) = mem0
  <2>1. ASSUME NEW e \in Range(info.found), e.type = 1, e.base < Above
        PROVE  Top(e) \in Nat /\ Top(e) <= HEAP_START
    <3>1. e \in Entry
      BY <2>1, InfoParts DEF Range
    <3>2. Top(e) \in Nat
      BY <3>1, Bounds DEF Entry, Top
    <3> QED BY <1>2, <2>1, <3>2 DEF NoneTaken
  <2> HIDE DEF mem0
  <2> QED BY <2>1, NothingTold
<1> HIDE DEF mem0
<1>3. boot_parse(info) = mem0
  BY <1>1, <1>2
<1> QED BY <1>3 DEF mem0

\* The amount boot_parse leaves is memory up to the end of the region f at
\* most, or it is the default and nothing was told.
LEMMA ToldOrDefault ==
  ASSUME info \in Infos, NoneTaken, NEW f \in Range(info.map), f.type = 1,
         f.base <= HEAP_START, HEAP_START + Margin <= f.base + f.len
  PROVE  LET m == boot_parse(info)
         IN  \/ m \in Nat /\ m > 0 /\ m <= f.base + f.len
             \/ m = Default /\ ~Told
<1> DEFINE m == boot_parse(info)
<1>1. CASE Told
  <2>1. m = info.lower + info.upper
    BY <1>1, Mb1Tells DEF Told
  <2>2. PICK k \in 1..Len(info.map) : f = info.map[k]
    BY InfoParts DEF Range
  <2>3. f \in Entry
    BY <2>2, InfoParts
  <2>4. HEAP_START < f.base + f.len
    BY <2>3, Bounds DEF Entry
  <2>5. info.lower > 0 /\ info.lower + info.upper <= f.base + f.len
    BY <1>1, <2>2, <2>4, LoaderAssumption DEF Told
  <2>6. info.lower \in Nat /\ info.upper \in Nat
    BY InfoParts
  <2> HIDE DEF m
  <2>7. m \in Nat /\ m > 0 /\ m <= f.base + f.len
    BY <2>1, <2>5, <2>6
  <2> QED BY <2>7 DEF m
<1>2. CASE ~Told /\ info.loader = "multiboot1"
  BY <1>2, Mb1Tells DEF Told
<1>3. CASE info.loader # "multiboot1"
  BY <1>3, OthersTellNothing DEF Told
<1> QED BY <1>1, <1>2, <1>3

\* What the run of the kernel adds to the invariant of the heap.
BootInv == HeapInv /\ info \in Infos /\ mem = boot_parse(info)

\* No step of the heap changes what it was sized by.
LEMMA BootInvStep == BootInv /\ [BootNext]_<<vars, info>> => BootInv'
<1> SUFFICES ASSUME BootInv, [BootNext]_<<vars, info>> PROVE BootInv'
  OBVIOUS
<1>1. [Next]_vars /\ info' = info
  BY DEF BootNext
<1>2. HeapInv'
  BY <1>1, HeapInvNext DEF BootInv
<1>3. mem' = mem
  BY <1>1 DEF Next, kmalloc, krealloc, kfree, vars
<1>4. boot_parse(info)' = boot_parse(info)
  BY <1>1 DEF boot_parse, parse_e820_cd, parse_mb1, parse_mb2, MemOf, Best, Top,
              FirstOf, e820_loop, Bios
<1> QED BY <1>1, <1>2, <1>3, <1>4 DEF BootInv

\* A heap sized by an amount within a region ends in that region.
LEMMA HeapEnds ==
  ASSUME NEW m \in Nat, m > 0, NEW top \in Nat, m <= top, HEAP_START + Margin <= top
  PROVE  HEAP_START + HeapTotal(m) <= top
<1>1. CASE m > HEAP_MAX
  <2>1. HeapTotal(m) = HEAP_MAX - HEAP_START
    BY <1>1, Bounds DEF HeapTotal
  <2> QED BY <1>1, <2>1, Bounds
<1>2. CASE ~(m > HEAP_MAX) /\ m > HEAP_START + Margin
  <2>1. HeapTotal(m) = m - HEAP_START - Margin
    BY <1>2, Bounds DEF HeapTotal
  <2> QED BY <1>2, <2>1, Bounds
<1>3. CASE ~(m > HEAP_MAX) /\ ~(m > HEAP_START + Margin)
  <2>1. HeapTotal(m) = Margin
    BY <1>3, Bounds DEF HeapTotal
  <2> QED BY <2>1, Bounds
<1> QED BY <1>1, <1>2, <1>3

\* The heap lies in a region of the machine's memory, if there is one with room
\* for the least heap and Multiboot1 told the amount, or it has the default amount
\* (boot_parse of src/multiboot.c, kheap_init and kmalloc of src/kheap.c): for
\* every memory map and whatever is found where the Multiboot1 map is looked for,
\* as long as it is not taken for memory above HEAP_START.
THEOREM HeapIsMemory == BootSpec => []HeapInMachine
<1>1. BootInv => HeapInMachine
  <2> SUFFICES ASSUME BootInv, IsMemory(HEAP_START, HEAP_START + Margin), NoneTaken,
                      Told \/ IsMemory(HEAP_START, Default - Margin),
                      NEW k \in 1..Len(blocks)
               PROVE  IsMemory(blocks[k].addr, End(blocks[k]))
    BY DEF HeapInMachine
  <2>1. PICK f \in Range(info.map) : /\ f.type = 1 /\ f.base <= HEAP_START
                                     /\ HEAP_START + Margin <= f.base + f.len
    BY DEF IsMemory
  <2>2. info \in Infos /\ mem = boot_parse(info) /\ total = HeapTotal(mem)
        /\ used <= total /\ used \in Nat /\ total \in Nat
    BY DEF BootInv, HeapInv, TypeOK
  <2>3. \A e \in Range(info.map) : e \in Entry
    BY <2>2, InfoParts DEF Range
  <2>4. /\ blocks[k].addr \in Nat /\ End(blocks[k]) \in Nat
        /\ HEAP_START <= blocks[k].addr /\ End(blocks[k]) <= HEAP_START + total
    <3>1. Below(blocks[k], used) /\ blocks[k] \in Block
      BY BlockType DEF BootInv, HeapInv
    <3> QED BY <2>2, <3>1, Bounds DEF Below, End, Block
  <2>5. ASSUME NEW g \in Range(info.map), g.type = 1, g.base <= HEAP_START,
               HEAP_START + total <= g.base + g.len
        PROVE  IsMemory(blocks[k].addr, End(blocks[k]))
    <3>1. g.base \in Nat /\ g.len \in Nat
      BY <2>3 DEF Entry
    <3>2. g.base <= blocks[k].addr /\ End(blocks[k]) <= g.base + g.len
      BY <2>2, <2>4, <2>5, <3>1, Bounds
    <3> QED BY <2>5, <3>2 DEF IsMemory
  <2>6. CASE mem \in Nat /\ mem > 0 /\ mem <= f.base + f.len
    <3>1. f.base + f.len \in Nat
      BY <2>3 DEF Entry
    <3>2. HEAP_START + total <= f.base + f.len
      BY <2>1, <2>2, <2>6, <3>1, HeapEnds
    <3> QED BY <2>1, <2>5, <3>2
  <2>7. CASE mem = Default /\ ~Told
    <3>1. PICK g \in Range(info.map) : /\ g.type = 1 /\ g.base <= HEAP_START
                                       /\ Default - Margin <= g.base + g.len
      BY <2>7 DEF IsMemory
    <3>2. CASE Default > HEAP_START + Margin
      <4>1. total = Default - HEAP_START - Margin
        BY <2>2, <2>7, <3>2, Bounds DEF HeapTotal
      <4>2. HEAP_START + total = Default - Margin
        BY <3>2, <4>1, Bounds
      <4> QED BY <2>5, <3>1, <4>2
    <3>3. CASE ~(Default > HEAP_START + Margin)
      <4>1. total = Margin
        BY <2>2, <2>7, <3>3, Bounds DEF HeapTotal
      <4> QED BY <2>1, <2>5, <4>1
    <3> QED BY <3>2, <3>3
  <2>8. \/ mem \in Nat /\ mem > 0 /\ mem <= f.base + f.len
        \/ mem = Default /\ ~Told
    BY <2>1, <2>2, ToldOrDefault
  <2> QED BY <2>6, <2>7, <2>8
<1>2. kmain => BootInv
  <2>1. kmain => kheap_init /\ info \in Infos /\ mem = boot_parse(info)
    BY DEF kmain
  <2> QED BY <2>1, HeapInvInit DEF BootInv
<1> QED BY <1>1, <1>2, BootInvStep, PTL DEF BootSpec
=============================================================================
