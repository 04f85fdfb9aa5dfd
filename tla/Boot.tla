-------------------------------- MODULE Boot --------------------------------
(***************************************************************************)
(* What the boot loader tells of memory, and the heap that comes of it:    *)
(* boot_parse of src/multiboot.c, whose total_mem_kb (mem, in bytes) is    *)
(* what kheap_init goes by.  kmain calls the two one after the other.      *)
(*                                                                         *)
(* A memory map is a sequence of entries [base, len, type]; type 1 is      *)
(* memory, anything else is not.  map is the machine's; what the parsers   *)
(* walk is another matter.                                                 *)
(***************************************************************************)
EXTENDS KHeap, FiniteSetsExt

CONSTANTS
  KB,         \* 1024
  Default,    \* 32768 KB, what total_mem_kb starts as
  Above,      \* 2^32: regions from here on are left out, and total_mem_kb wraps
  Wrap,       \* 2^64: where the end of a region wraps
  E820_MAX,   \* 64: entries of the CD loader's map that are looked at
  TAGS,       \* 8: where the tags of Multiboot2 begin
  ENTRY_SIZE, \* 24: size of a Multiboot2 map entry
  Infos       \* what boot loaders may report, see InfoType

Entry == [base : Nat, len : Nat, type : Nat]

\* loader: by the magic number.  map: the machine's memory map.  basic: bit 0 of
\* the Multiboot1 flags, with lower and upper.  mapped: bit 6 of them.  found:
\* what the memory that mb[22] and mb[23] delimit reads as, entry by entry.
\* reserved: the second word of the Multiboot2 information.  version: of its map.
InfoType == [loader  : {"cd", "multiboot1", "multiboot2", "unknown"},
             map     : Seq(Entry),
             basic   : BOOLEAN, lower : Nat, upper : Nat,
             mapped  : BOOLEAN, found : Seq(Entry),
             reserved : Nat, version : Nat]

ASSUME BootAssumption ==
  /\ KB \in Nat \ {0} /\ Default \in 1..HEAP_MAX /\ Margin > 0
  /\ Above \in Nat \ {0} /\ Wrap \in Nat \ {0} /\ E820_MAX \in Nat
  /\ TAGS \in Nat /\ ENTRY_SIZE \in Nat \ {0} /\ Infos \subseteq InfoType

\* What Multiboot says of lower and upper: upper memory ends no later than the
\* first hole above 1 MB, so not above any region that holds HEAP_START.  And
\* what Multiboot2 says of the reserved word: it is 0.
ASSUME LoaderAssumption ==
  \A i \in Infos :
    /\ i.loader = "multiboot1" /\ i.basic =>
         /\ i.lower > 0
         /\ \A k \in 1..Len(i.map) :
              LET e == i.map[k]
              IN  e.type = 1 /\ e.base <= HEAP_START /\ HEAP_START < e.base + e.len
                    => i.lower + i.upper <= e.base + e.len
    /\ i.loader = "multiboot2" => i.reserved = 0

VARIABLE info

-----------------------------------------------------------------------------
(* The CD loader's query.                                                  *)

\* The BIOS: interrupt 0x15 hands the memory map out, entry by entry.  The disk
\* service, 0x13, has no function 0xE8 and sets the carry flag.
Bios(int, map) == IF int = 21 THEN map ELSE <<>>

\* The loop of cdboot.S calls the disk service and ends at its first carry: it
\* leaves the count 0 at 0x5000.
e820_loop(map) == Bios(19, map)

-----------------------------------------------------------------------------
(* boot_parse.                                                             *)

\* The end of a region as the code computes it.
Top(e) == (e.base + e.len) % Wrap

\* A mistaken Best, which nothing uses: a region that is not memory counts.
Best_anytype(entries) == Max({0} \union
  {Top(e) : e \in {e \in Range(entries) : e.base < Above}})

\* The highest end of a region of memory that begins below 2^32.
Best(entries) == Max({0} \union
  {Top(e) : e \in {e \in Range(entries) : e.type = 1 /\ e.base < Above}})

\* It counts, in whole kilobytes, if it is above 16 MB.
MemOf(entries, otherwise) ==
  IF Best(entries) > HEAP_START
  THEN ((Best(entries) \div KB) % Above) * KB
  ELSE otherwise

FirstOf(entries, n) == SubSeq(entries, 1, IF Len(entries) < n THEN Len(entries) ELSE n)

parse_e820_cd(i) == MemOf(FirstOf(e820_loop(i.map), E820_MAX), Default)

\* The length and the address of the map are taken from mb[22] and mb[23],
\* which are other fields (its own are mb[11] and mb[12]): whatever lies there
\* is walked.
parse_mb1(i) ==
  LET mem0 == IF i.basic THEN i.lower + i.upper ELSE Default
  IN  IF i.mapped THEN MemOf(i.found, mem0) ELSE mem0

\* The reserved word is taken for the size of the information, so that no tag
\* is looked at; of a map, the version would be taken for the length.
parse_mb2(i) ==
  IF i.reserved > TAGS THEN MemOf(FirstOf(i.map, i.version \div ENTRY_SIZE), Default)
                       ELSE Default

boot_parse(i) == CASE i.loader = "cd"         -> parse_e820_cd(i)
                   [] i.loader = "multiboot1" -> parse_mb1(i)
                   [] i.loader = "multiboot2" -> parse_mb2(i)
                   [] i.loader = "unknown"    -> Default

\* kmain: boot_parse, then kheap_init.
kmain ==
  /\ info \in Infos
  /\ mem = boot_parse(info)
  /\ kheap_init

BootNext == Next /\ UNCHANGED info

BootSpec == kmain /\ [][BootNext]_<<vars, info>>

-----------------------------------------------------------------------------
(* Properties.                                                             *)

\* Some region of the machine's memory reaches from "from" to "to".
IsMemory(from, to) ==
  \E e \in Range(info.map) : e.type = 1 /\ e.base <= from /\ to <= e.base + e.len

\* The amount is one the loader told, and not the 32 MB of the default: only
\* the two words of Multiboot1 are understood.
Told == info.loader = "multiboot1" /\ info.basic

\* Nothing in the memory that is walked for a Multiboot1 map happens to look
\* like a region of memory that ends above 16 MB.
NoneTaken ==
  info.loader = "multiboot1" /\ info.mapped =>
    \A e \in Range(info.found) :
      e.type = 1 /\ e.base < Above => Top(e) <= HEAP_START

\* Every block lies in memory of the machine, although no loader's map is
\* understood, if the machine has the least heap: where the amount was told,
\* and otherwise where the machine has the 32 MB less the margin.
HeapInMachine ==
  /\ IsMemory(HEAP_START, HEAP_START + Margin)
  /\ NoneTaken
  /\ Told \/ IsMemory(HEAP_START, Default - Margin)
  => \A k \in 1..Len(blocks) : IsMemory(blocks[k].addr, End(blocks[k]))
=============================================================================
