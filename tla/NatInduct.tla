------------------------------ MODULE NatInduct ------------------------------
(***************************************************************************)
(* Induction on the natural numbers in a form that needs no operator as a  *)
(* parameter, and what follows from it about functions defined by          *)
(* recursion.  The proofs about the file system use these.                 *)
(***************************************************************************)
EXTENDS FiniteSetTheorems, WellFoundedInduction, TLAPS

\* Every set of natural numbers that is not empty has a least element.
LEMMA LeastNatural ==
  ASSUME NEW T, T \subseteq Nat, T # {}
  PROVE  \E x \in T : \A y \in T : x <= y
<1> DEFINE R == StrictSubsetOrdering(Nat)
           U == {0..n : n \in T}
<1>1. IsWellFoundedOn(R, FiniteSubsetsOf(Nat))
  BY FS_StrictSubsetOrderingWellFounded
<1>2. U \subseteq FiniteSubsetsOf(Nat) /\ U # {}
  <2>1. ASSUME NEW n \in T PROVE 0..n \in FiniteSubsetsOf(Nat)
    <3>1. n \in Nat /\ 0 \in Int /\ n \in Int /\ 0..n \subseteq Nat
      OBVIOUS
    <3> QED BY <3>1, FS_Interval DEF FiniteSubsetsOf
  <2> QED BY <2>1
<1>3. \A x, y \in Nat : x < y => <<0..x, 0..y>> \in R
  <2> SUFFICES ASSUME NEW x \in Nat, NEW y \in Nat, x < y
               PROVE  <<0..x, 0..y>> \in R
    OBVIOUS
  <2>1. /\ 0..x \subseteq 0..y /\ y \in 0..y /\ y \notin 0..x
        /\ 0..x \subseteq Nat /\ 0..y \subseteq Nat
    OBVIOUS
  <2> QED BY <2>1 DEF StrictSubsetOrdering
<1>4. PICK I \in U : \A J \in U : ~(<<J, I>> \in R)
  <2> HIDE DEF R, U
  <2> QED BY <1>1, <1>2, WFMin
<1>5. PICK x \in T : I = 0..x
  OBVIOUS
<1>6. \A y \in T : x <= y
  <2> SUFFICES ASSUME NEW y \in T PROVE x <= y
    OBVIOUS
  <2>1. 0..y \in U /\ x \in Nat /\ y \in Nat
    OBVIOUS
  <2>2. ~(<<0..y, 0..x>> \in R)
    BY <1>4, <1>5, <2>1
  <2> HIDE DEF R, U
  <2> QED BY <1>3, <2>1, <2>2
<1> QED BY <1>6

\* A set that holds 0 and the successor of every number it holds, holds them all.
LEMMA Induct ==
  ASSUME NEW S, 0 \in S, \A n \in Nat : n \in S => n + 1 \in S
  PROVE  Nat \subseteq S
<1> DEFINE T == Nat \ S
<1> SUFFICES ASSUME T # {} PROVE FALSE
  OBVIOUS
<1>1. PICK x \in T : \A y \in T : x <= y
  BY LeastNatural
<1>2. x # 0 /\ x \in Nat
  BY <1>1
<1>3. x - 1 \in Nat /\ x - 1 \notin T
  BY <1>1, <1>2
<1>4. (x - 1) + 1 \in S
  BY <1>3
<1> QED BY <1>1, <1>2, <1>4

\* The same up to a bound.
LEMMA InductTo ==
  ASSUME NEW m \in Nat, NEW S, 0 \in S,
         \A n \in 1..m : n - 1 \in S => n \in S
  PROVE  0..m \subseteq S
<1> DEFINE T == {n \in Nat : n <= m => n \in S}
<1>1. 0 \in T
  OBVIOUS
<1>2. ASSUME NEW n \in Nat, n \in T PROVE n + 1 \in T
  <2> SUFFICES ASSUME n + 1 <= m PROVE n + 1 \in S
    OBVIOUS
  <2>1. n \in S /\ n + 1 \in 1..m /\ (n + 1) - 1 = n
    BY <1>2
  <2> QED BY <2>1
<1>3. Nat \subseteq T
  <2> HIDE DEF T
  <2> QED BY <1>1, <1>2, Induct
<1> QED BY <1>3

\* The functions on 0..m that start at a and follow the step st.
Walks(D, a, m, st) ==
  {g \in [0..m -> D] : g[0] = a /\ \A i \in 1..m : g[i] = st[<<g[i-1], i>>]}

\* A function defined from its value at n - 1 exists, for a step st, on the
\* numbers up to m, and its values are where the step's are.
LEMMA Iterate ==
  ASSUME NEW D, NEW a \in D, NEW m \in Nat, NEW st \in [D \X (1..m) -> D]
  PROVE  Walks(D, a, m, st) # {}
<1> DEFINE Good(k) == \E g \in [0..k -> D] :
                        /\ g[0] = a
                        /\ \A i \in 1..k : g[i] = st[<<g[i-1], i>>]
           T == {k \in 0..m : Good(k)}
<1>1. 0 \in T
  <2> DEFINE g == [i \in 0..0 |-> a]
  <2>1. g \in [0..0 -> D] /\ g[0] = a /\ 1..0 = {}
    OBVIOUS
  <2>2. \A i \in 1..0 : g[i] = st[<<g[i-1], i>>]
    BY <2>1
  <2>3. Good(0)
    <3> HIDE DEF g
    <3> QED BY <2>1, <2>2
  <2> HIDE DEF Good
  <2> QED BY <2>3
<1>2. ASSUME NEW k \in 1..m, k - 1 \in T PROVE k \in T
  <2>1. PICK g \in [0..k-1 -> D] : /\ g[0] = a
                                   /\ \A i \in 1..k-1 : g[i] = st[<<g[i-1], i>>]
    BY <1>2
  <2> DEFINE h == [i \in 0..k |-> IF i < k THEN g[i] ELSE st[<<g[k-1], k>>]]
  <2>2. st[<<g[k-1], k>>] \in D
    <3>1. g[k-1] \in D
      OBVIOUS
    <3> QED BY <3>1
  <2>3. h \in [0..k -> D] /\ h[0] = a
    BY <2>1, <2>2
  <2>4. ASSUME NEW i \in 1..k PROVE h[i] = st[<<h[i-1], i>>]
    <3>1. h[i-1] = g[i-1]
      OBVIOUS
    <3>2. CASE i < k
      <4>1. h[i] = g[i] /\ i \in 1..k-1
        BY <3>2
      <4> QED BY <2>1, <3>1, <4>1
    <3>3. CASE i = k
      <4>1. h[k] = st[<<g[k-1], k>>] /\ h[k-1] = g[k-1]
        OBVIOUS
      <4> QED BY <3>3, <4>1
    <3> QED BY <3>2, <3>3
  <2> HIDE DEF h
  <2> QED BY <2>3, <2>4
<1>3. m \in T
  <2> HIDE DEF T
  <2>1. 0..m \subseteq T
    BY <1>1, <1>2, InductTo
  <2> QED BY <2>1
<1> QED BY <1>3 DEF Walks
=============================================================================
