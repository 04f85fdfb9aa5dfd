\* 16-byte alignment scaled to 4, 16 MB to 16, the 1 MB margin to 4, a
\* kilobyte to 2, 2^32 to 64, 2^64 to 256.
CONSTANTS
  Align = 4
  HEAP_START = 16
  HEAP_MAX = 32
  Margin = 4
  MemSizes <- MCMemSizes
  Requests = {1, 4, 5, 9}
  KB = 2
  Default = 32
  Above = 64
  Wrap = 256
  E820_MAX = 4
  TAGS = 8
  ENTRY_SIZE = 24
  Infos <- MCInfos
SPECIFICATION BootSpec
INVARIANTS
  TypeOK
  Disjoint
  InHeap
  HeapInRam
  HeapInMachine
