------------------------------ MODULE KHeapOps ------------------------------
(***************************************************************************)
(* The arithmetic of the kernel heap (src/kheap.c): rounding of requests   *)
(* and the test that decides whether one fits.  KHeap runs the allocator   *)
(* by itself; Vfs charges every vnode, child array and file buffer to it.  *)
(***************************************************************************)
EXTENDS Naturals

CONSTANT Align          \* 16 in the code

ASSUME AlignAssumption == Align \in Nat \ {0}

\* A mistaken AlignUp, which no definition uses: rounds down.
AlignUp_down(x) == (x \div Align) * Align

\* align_up: the next multiple of Align.
AlignUp(x) == ((x + Align - 1) \div Align) * Align

\* The test of kmalloc, "used + n > total" negated, on the rounded request.
Fits(used, total, n) == used + AlignUp(n) <= total
=============================================================================
