------------------------------- MODULE MCBoot -------------------------------
(* Machines whose memory ends on either side of every comparison of          *)
(* kheap_init and boot_parse, with and without a hole, each as the four      *)
(* kinds of loader report it.  Low memory is 0..2 and the BIOS keeps 3.      *)
EXTENDS Boot

Region(base, end, type) == [base |-> base, len |-> end - base, type |-> type]
Low == << Region(0, 3, 1), Region(3, 4, 2) >>
Reserved(top) == Region(top, top + 3, 2)
High == Region(64, 80, 1)   \* memory above 2^32

Tops == {12, 16, 19, 20, 21, 27, 31, 33, 40}
Maps == { Low \o << Region(4, top, 1), Reserved(top) >> : top \in Tops }
        \union { Low \o << Region(4, top, 1), High >> : top \in Tops }
        \union { << Region(0, 15, 1), Region(15, 16, 2), Region(16, top, 1),
                    Reserved(top), High >> : top \in {20, 27, 33} }
        \union { Low \o << Region(4, 24, 1), Reserved(24), Region(27, 40, 1) >> }

\* What may lie where a Multiboot1 map is looked for: nothing, words that are no
\* region or none that counts (not memory, above 2^32, too low, wrapped), and
\* words that look like memory there is or is not.
Found == { <<>>, << Region(3, 40, 2), Region(0, 16, 1) >>, << High >>,
           << [base |-> 60, len |-> 210, type |-> 1] >>,
           << Region(5, 24, 1), Region(63, 250, 1) >> }

\* What the BIOS calls upper memory ends at the first hole.
Info(loader, map, basic, mapped, found) ==
  [loader |-> loader, map |-> map, basic |-> basic, mapped |-> mapped,
   lower |-> 3, upper |-> IF map[1].len = 3 THEN map[3].len ELSE map[1].len - 4,
   found |-> found, reserved |-> 0, version |-> 0]

MCInfos ==
  { Info(l, m, TRUE, TRUE, <<>>) :
      l \in {"cd", "multiboot2", "unknown"}, m \in Maps }
  \union { Info("multiboot1", m, b, p, f) :
             m \in Maps, b \in BOOLEAN, p \in BOOLEAN, f \in Found }
MCMemSizes == { boot_parse(i) : i \in MCInfos }
=============================================================================
