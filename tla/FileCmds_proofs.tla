-------------------------- MODULE FileCmds_proofs --------------------------
(***************************************************************************)
(* What the operations of Vfs and the commands of FileCmds preserve and    *)
(* change, for every set of paths and contents, every heap, size of node   *)
(* and first capacity.  The inductive invariant is the types, the tree and *)
(* the bounds of every array together, FsOK, with the working directory    *)
(* and its path: a child array is walked only because the tree is one, the *)
(* working directory stays a directory only because nodes keep their type  *)
(* and are never freed, and the prompt stays true only because they keep   *)
(* their names and parents too.                                            *)
(*                                                                         *)
(* Part 1: every operation of the file system turns a well-formed file     *)
(* system into a well-formed one, and edits lists and contents only where  *)
(* it says.  Part 2: so do the commands, which gives the invariant and the *)
(* theorems on states.  Part 3: every command is one edit (StepIs): it     *)
(* takes nothing, a node or a subtree out of the lists and writes one file *)
(* at most, which gives the theorems on steps.                             *)
(***************************************************************************)
EXTENDS FileCmds, NatInduct, SequenceTheorems, TLAPS

-----------------------------------------------------------------------------
(* Part 1: the operations of Vfs.                                          *)

\* The type of a file system.
FsType(f) == f \in [node : Seq(VNode), used : Nat]

\* A well-formed file system: typed, a tree, and no array overrun.
FsOK(f) == FsType(f) /\ TreeOK(f) /\ BuffersOK(f)

\* g is well formed and has all nodes of f, each of the type, with the name and
\* the parent it had.
Keeps(f, g) ==
  /\ FsOK(g)
  /\ Len(f.node) <= Len(g.node)
  /\ \A n \in Nodes(f) : /\ g.node[n].type = f.node[n].type
                         /\ g.node[n].name = f.node[n].name
                         /\ g.node[n].parent = f.node[n].parent

-----------------------------------------------------------------------------
(* Types.                                                                  *)

\* align_up never rounds down.
LEMMA AlignUpType ==
  ASSUME NEW n \in Nat
  PROVE  AlignUp(n) \in Nat /\ n <= AlignUp(n)
<1> DEFINE q == (n + Align - 1) \div Align
           r == (n + Align - 1) % Align
<1>1. n + Align - 1 \in Nat /\ Align \in Nat /\ Align > 0
  BY AlignAssumption
<1>2. q \in Nat /\ r \in 0..Align-1 /\ n + Align - 1 = Align * q + r
  BY <1>1
<1>3. Align * q \in Nat /\ Align * q = q * Align
  BY <1>1, <1>2
<1>4. n <= q * Align
  <2> HIDE DEF q, r
  <2> QED BY <1>1, <1>2, <1>3
<1> QED BY <1>3, <1>4 DEF AlignUp

\* What the type of a file system says of its parts.
LEMMA FsFacts ==
  ASSUME NEW f, FsType(f)
  PROVE  /\ f = [node |-> f.node, used |-> f.used]
         /\ f.node \in Seq(VNode) /\ f.used \in Nat
         /\ Len(f.node) \in Nat
         /\ \A n \in Nodes(f) : f.node[n] \in VNode
<1>1. f.node \in Seq(VNode) /\ f.used \in Nat /\ f = [node |-> f.node, used |-> f.used]
  BY DEF FsType
<1> QED BY <1>1, ElementOfSeq DEF Nodes

\* Taking n bytes that fit keeps within the heap.
LEMMA ChargeFits ==
  ASSUME NEW f, FsType(f), NEW n \in Nat, Room(f, n)
  PROVE  /\ Charge(f, n) = [node |-> f.node, used |-> f.used + AlignUp(n)]
         /\ f.used + AlignUp(n) \in Nat
         /\ f.used + AlignUp(n) <= HeapSize
<1>1. AlignUp(n) \in Nat
  BY AlignUpType
<1>2. f.used \in Nat /\ f = [node |-> f.node, used |-> f.used]
  BY FsFacts
<1>3. Charge(f, n) = [node |-> f.node, used |-> f.used + AlignUp(n)]
  BY <1>2 DEF Charge
<1> QED BY <1>1, <1>2, <1>3 DEF Room, Fits

\* How an update of one node is written, and what it is.
LEMMA UpdateNode ==
  ASSUME NEW s, NEW u, NEW n, NEW r
  PROVE  [[node |-> s, used |-> u] EXCEPT !.node[n] = r]
           = [node |-> [s EXCEPT ![n] = r], used |-> u]
OBVIOUS

\* What one node replaced in f.node leaves.
LEMMA Replace ==
  ASSUME NEW f, FsType(f), NEW n \in Nodes(f), NEW r \in VNode, NEW u \in Nat,
         NEW g, g = [node |-> [f.node EXCEPT ![n] = r], used |-> u]
  PROVE  /\ FsType(g)
         /\ Nodes(g) = Nodes(f) /\ Len(g.node) = Len(f.node)
         /\ g.used = u
         /\ \A m \in Nodes(f) : g.node[m] = IF m = n THEN r ELSE f.node[m]
<1>1. f.node \in Seq(VNode)
  BY FsFacts
<1>2. g.node = [f.node EXCEPT ![n] = r] /\ g.used = u
  OBVIOUS
<1>3. /\ g.node \in Seq(VNode) /\ Len(g.node) = Len(f.node)
      /\ \A m \in 1..Len(f.node) : g.node[m] = IF m = n THEN r ELSE f.node[m]
  BY <1>1, <1>2, ExceptSeq DEF Nodes
<1> QED BY <1>2, <1>3 DEF FsType, Nodes

\* The tree is made of the types, names, parents and children of the nodes.
LEMMA SameTree ==
  ASSUME NEW f, NEW g, TreeOK(f), Nodes(g) = Nodes(f),
         \A n \in Nodes(f) : /\ g.node[n].type = f.node[n].type
                             /\ g.node[n].name = f.node[n].name
                             /\ g.node[n].parent = f.node[n].parent
                             /\ g.node[n].children = f.node[n].children
  PROVE  TreeOK(g)
<1>1. \A n \in Nodes(f) : IsDir(g, f.node[n].parent)
  BY DEF TreeOK, ParentsOK, IsDir
<1>2. IsDir(g, vfs_root) /\ ParentsOK(g)
  BY <1>1 DEF TreeOK, ParentsOK, IsDir
<1>3. ChildrenOK(g)
  BY SMTT(30) DEF TreeOK, ChildrenOK
<1>4. NamesOK(g)
  <2> SUFFICES ASSUME NEW d \in Nodes(f),
                      NEW i \in 1..Len(f.node[d].children),
                      NEW j \in 1..Len(f.node[d].children), i # j
               PROVE  g.node[f.node[d].children[i]].name
                        # g.node[f.node[d].children[j]].name
    <3>1. \A d \in Nodes(f) : g.node[d].children = f.node[d].children
      OBVIOUS
    <3> QED BY <3>1, SMTT(30) DEF NamesOK
  <2>1. f.node[d].children[i] \in Nodes(f) /\ f.node[d].children[j] \in Nodes(f)
    BY DEF TreeOK, ChildrenOK
  <2>2. f.node[f.node[d].children[i]].name # f.node[f.node[d].children[j]].name
    BY DEF TreeOK, NamesOK
  <2> QED BY <2>1, <2>2
<1> QED BY <1>2, <1>3, <1>4 DEF TreeOK

-----------------------------------------------------------------------------
(* File buffers.                                                           *)

\* The doubling loops end with a capacity that holds what is needed.
LEMMA GrowLargeEnough ==
  ASSUME NEW cap \in Nat, NEW need \in Nat
  PROVE  Grow(cap, need) \in Nat /\ need <= Grow(cap, need)
<1> DEFINE D == Nat \ {0}
           start == IF cap = 0 THEN FileCap0 ELSE cap
           st == [x \in D \X (1..need) |-> IF x[1] < need THEN 2 * x[1] ELSE x[1]]
           newcap == CHOOSE g : g = [turn \in 0..need |->
                       IF turn = 0 THEN IF cap = 0 THEN FileCap0 ELSE cap
                       ELSE IF g[turn-1] < need THEN 2 * g[turn-1] ELSE g[turn-1]]
<1>1. start \in D
  BY VfsAssumption
<1>2. st \in [D \X (1..need) -> D]
  OBVIOUS
<1>3. PICK g \in [0..need -> D] :
        g[0] = start /\ \A i \in 1..need : g[i] = st[<<g[i-1], i>>]
  <2> HIDE DEF D, start, st
  <2>1. Walks(D, start, need, st) # {}
    BY <1>1, <1>2, Iterate
  <2> QED BY <2>1 DEF Walks
<1>4. \A i \in 1..need : st[<<g[i-1], i>>] = IF g[i-1] < need THEN 2 * g[i-1] ELSE g[i-1]
  <2> TAKE i \in 1..need
  <2>1. <<g[i-1], i>> \in D \X (1..need)
    OBVIOUS
  <2> QED BY <2>1
<1>5. g = [turn \in 0..need |->
             IF turn = 0 THEN IF cap = 0 THEN FileCap0 ELSE cap
             ELSE IF g[turn-1] < need THEN 2 * g[turn-1] ELSE g[turn-1]]
  <2> HIDE DEF st
  <2>1. \A i \in 1..need : g[i] = IF g[i-1] < need THEN 2 * g[i-1] ELSE g[i-1]
    BY <1>3, <1>4
  <2> QED BY <1>3, <2>1
<1>6. newcap = [turn \in 0..need |->
                  IF turn = 0 THEN IF cap = 0 THEN FileCap0 ELSE cap
                  ELSE IF newcap[turn-1] < need THEN 2 * newcap[turn-1] ELSE newcap[turn-1]]
  BY <1>5
<1>7. Grow(cap, need) = newcap[need]
  BY DEF Grow
<1> DEFINE T == {i \in 0..need :
                   newcap[i] \in D /\ (newcap[i] >= need \/ newcap[i] >= i + 1)}
<1> HIDE DEF newcap, st
<1>8. 0 \in T
  BY <1>1, <1>6
<1>9. ASSUME NEW i \in 1..need, i - 1 \in T PROVE i \in T
  <2> DEFINE cur == newcap[i]
             was == newcap[i-1]
  <2>1. i \in 0..need /\ i # 0
    OBVIOUS
  <2>2. cur = IF was < need THEN 2 * was ELSE was
    BY <1>6, <2>1
  <2>3. was \in Nat /\ was > 0 /\ (was >= need \/ was >= (i - 1) + 1)
    BY <1>9
  <2> HIDE DEF cur, was
  <2>4. CASE was < need
    <3>1. cur = 2 * was
      BY <2>2, <2>4
    <3>2. cur \in Nat /\ cur > 0 /\ cur >= i + 1
      BY <2>1, <2>3, <2>4, <3>1
    <3> QED BY <2>1, <3>2 DEF cur
  <2>5. CASE ~(was < need)
    <3>1. cur = was
      BY <2>2, <2>5
    <3>2. cur \in Nat /\ cur > 0 /\ cur >= need
      BY <2>3, <2>5, <3>1
    <3> QED BY <2>1, <3>2 DEF cur
  <2> QED BY <2>4, <2>5
<1>10. need \in T
  <2> HIDE DEF T
  <2>1. 0..need \subseteq T
    BY <1>8, <1>9, InductTo
  <2> QED BY <2>1
<1> QED BY <1>7, <1>10

\* Every file system keeps its own.
LEMMA KeepsItself ==
  ASSUME NEW f, FsOK(f)
  PROVE  Keeps(f, f)
BY FsFacts DEF Keeps, FsOK

\* Keeping composes.
LEMMA KeepsTrans ==
  ASSUME NEW f, NEW g, NEW h, FsOK(f), Keeps(f, g), Keeps(g, h)
  PROVE  Keeps(f, h)
<1>1. Len(f.node) \in Nat /\ Len(g.node) \in Nat /\ Len(h.node) \in Nat
  BY FsFacts DEF Keeps, FsOK
<1> QED BY <1>1 DEF Keeps, Nodes

\* A directory stays a directory.
LEMMA KeepsDir ==
  ASSUME NEW f, NEW g, FsOK(f), Keeps(f, g), NEW d, IsDir(f, d)
  PROVE  IsDir(g, d)
<1>1. Len(f.node) \in Nat /\ Len(g.node) \in Nat
  BY FsFacts DEF Keeps, FsOK
<1> QED BY <1>1 DEF Keeps, IsDir, Nodes

\* A node stays a node.
LEMMA KeepsNodes ==
  ASSUME NEW f, NEW g, FsOK(f), Keeps(f, g)
  PROVE  FsOK(g) /\ Nodes(f) \subseteq Nodes(g)
<1>1. Len(f.node) \in Nat /\ Len(g.node) \in Nat
  BY FsFacts DEF Keeps, FsOK
<1> QED BY <1>1 DEF Keeps, Nodes

\* g is f with another content of n, and maybe more of the heap taken.
Rewritten(f, g, n) ==
  /\ Keeps(f, g) /\ Len(g.node) = Len(f.node)
  /\ \A m \in Nodes(f) : g.node[m].children = f.node[m].children
  /\ \A m \in Nodes(f) : m # n => g.node[m].data = f.node[m].data

\* Nothing written is a case of one file written.
LEMMA RewrittenItself ==
  ASSUME NEW f, FsOK(f), NEW n
  PROVE  Rewritten(f, f, n)
BY KeepsItself DEF Rewritten

\* Two writes to one file are a write to it.
LEMMA RewrittenTrans ==
  ASSUME NEW f, NEW g, NEW h, NEW n, FsOK(f), Rewritten(f, g, n), Rewritten(g, h, n)
  PROVE  Rewritten(f, h, n)
<1>1. Keeps(f, h)
  BY KeepsTrans DEF Rewritten
<1>2. Nodes(g) = Nodes(f)
  BY DEF Rewritten, Nodes
<1> QED BY <1>1, <1>2 DEF Rewritten

\* What vfs_write_file, vfs_append_file and vfs_truncate do to one node: its
\* data and buffer change, and the buffer holds the data and the NUL.
WithBuffer(f, n, data, cap, u) ==
  [node |-> [f.node EXCEPT ![n] = [f.node[n] EXCEPT !.data = data, !.cap = cap]],
   used |-> u]

\* A file with new content in a buffer that holds it.
LEMMA NewBuffer ==
  ASSUME NEW f, FsOK(f), NEW n \in Nodes(f), NEW data \in Seq(Nat), NEW cap \in Nat,
         Len(data) < cap \/ (cap = 0 /\ data = <<>>),
         NEW u \in Nat, u <= HeapSize
  PROVE  /\ Rewritten(f, WithBuffer(f, n, data, cap, u), n)
         /\ WithBuffer(f, n, data, cap, u).node[n].data = data
<1> DEFINE r == [f.node[n] EXCEPT !.data = data, !.cap = cap]
           g == WithBuffer(f, n, data, cap, u)
<1>1. FsType(f) /\ f.node[n] \in VNode
  BY FsFacts DEF FsOK
<1>2. /\ r \in VNode /\ r.data = data /\ r.cap = cap
      /\ r.type = f.node[n].type /\ r.name = f.node[n].name
      /\ r.parent = f.node[n].parent /\ r.children = f.node[n].children
      /\ r.child_cap = f.node[n].child_cap
  BY <1>1 DEF VNode
<1>3. /\ FsType(g) /\ Nodes(g) = Nodes(f) /\ Len(g.node) = Len(f.node) /\ g.used = u
      /\ \A m \in Nodes(f) : g.node[m] = IF m = n THEN r ELSE f.node[m]
  <2> HIDE DEF r
  <2>1. r \in VNode /\ g = [node |-> [f.node EXCEPT ![n] = r], used |-> u]
    BY <1>2 DEF r, WithBuffer
  <2> HIDE DEF g
  <2> QED BY <1>1, <2>1, Replace
<1>a. SUFFICES Rewritten(f, g, n) /\ g.node[n].data = data
  OBVIOUS
<1> HIDE DEF r, g
<1>4. TreeOK(g)
  <2>1. \A m \in Nodes(f) : /\ g.node[m].type = f.node[m].type
                            /\ g.node[m].name = f.node[m].name
                            /\ g.node[m].parent = f.node[m].parent
                            /\ g.node[m].children = f.node[m].children
    BY <1>2, <1>3
  <2>2. TreeOK(f)
    BY DEF FsOK
  <2>3. Nodes(g) = Nodes(f)
    BY <1>3
  <2> HIDE DEF TreeOK
  <2> QED BY <2>1, <2>2, <2>3, SameTree
<1>5. BuffersOK(g)
  <2> SUFFICES ASSUME NEW m \in Nodes(f)
               PROVE  /\ Len(g.node[m].children) <= g.node[m].child_cap
                      /\ IF g.node[m].cap = 0 THEN g.node[m].data = <<>>
                                              ELSE Len(g.node[m].data) < g.node[m].cap
    BY <1>3 DEF BuffersOK
  <2>1. /\ Len(f.node[m].children) <= f.node[m].child_cap
        /\ IF f.node[m].cap = 0 THEN f.node[m].data = <<>>
                                ELSE Len(f.node[m].data) < f.node[m].cap
    BY DEF FsOK, BuffersOK
  <2>2. CASE m # n
    BY <1>3, <2>1, <2>2
  <2>3. CASE m = n
    <3>1. IF cap = 0 THEN data = <<>> ELSE Len(data) < cap
      OBVIOUS
    <3> QED BY <1>2, <1>3, <2>1, <2>3, <3>1
  <2> QED BY <2>2, <2>3
<1>6. \A m \in Nodes(f) : /\ g.node[m].type = f.node[m].type
                          /\ g.node[m].name = f.node[m].name
                          /\ g.node[m].parent = f.node[m].parent
  BY <1>2, <1>3
<1>7. Keeps(f, g)
  BY <1>1, <1>3, <1>4, <1>5, <1>6, FsFacts DEF Keeps, FsOK
<1>8. /\ \A m \in Nodes(f) : g.node[m].children = f.node[m].children
      /\ \A m \in Nodes(f) : m # n => g.node[m].data = f.node[m].data
      /\ g.node[n].data = data
  BY <1>2, <1>3
<1> QED BY <1>3, <1>7, <1>8 DEF Rewritten

\* The content is there, or the heap has no room for it.
LEMMA PutKeeps ==
  ASSUME NEW f, FsOK(f), NEW n, IsFile(f, n), NEW data \in Seq(Nat)
  PROVE  LET r == Put(f, n, data)
         IN  /\ Rewritten(f, r.fs, n) /\ r.rc \in {0, 1}
             /\ \/ r.fs.node[n].data = data
                \/ r.fs = f /\ ~Room(f, Grow(f.node[n].cap, Len(data) + 1))
<1> DEFINE file   == f.node[n]
           need   == Len(data) + 1
           newcap == Grow(file.cap, need)
           grows  == need > file.cap
<1>1. /\ FsType(f) /\ n \in Nodes(f) /\ file \in VNode
      /\ file.cap \in Nat /\ Len(data) \in Nat /\ f.used \in Nat /\ f.used <= HeapSize
  BY FsFacts DEF FsOK, BuffersOK, IsFile, VNode
<1>2. newcap \in Nat /\ newcap > Len(data)
  <2>1. need \in Nat
    BY <1>1
  <2> HIDE DEF need
  <2>2. newcap \in Nat /\ newcap >= need
    BY <1>1, <2>1, GrowLargeEnough
  <2> QED BY <1>1, <2>2 DEF need
<1> HIDE DEF newcap
<1>3. CASE grows /\ ~Room(f, newcap)
  <2>1. Put(f, n, data) = [fs |-> f, rc |-> 0]
    BY <1>3 DEF Put, newcap
  <2> QED BY <1>3, <2>1, RewrittenItself DEF newcap
<1>4. CASE grows /\ Room(f, newcap)
  <2> DEFINE r == [file EXCEPT !.data = data, !.cap = newcap]
             u == f.used + AlignUp(newcap)
             g == WithBuffer(f, n, data, newcap, u)
  <2>1. /\ Charge(f, newcap) = [node |-> f.node, used |-> u]
        /\ u \in Nat /\ u <= HeapSize
    BY <1>1, <1>2, <1>4, ChargeFits
  <2>2. Put(f, n, data) = [fs |-> [Charge(f, newcap) EXCEPT !.node[n] = r], rc |-> 1]
    BY <1>4 DEF Put, newcap
  <2>3. [Charge(f, newcap) EXCEPT !.node[n] = r] = g
    <3>1. g = [node |-> [f.node EXCEPT ![n] = r], used |-> u]
      BY DEF WithBuffer
    <3> HIDE DEF r, u, g
    <3> QED BY <2>1, <3>1, UpdateNode
  <2>4. Rewritten(f, g, n) /\ g.node[n].data = data
    <3>1. Len(data) < newcap
      BY <1>1, <1>2
    <3> HIDE DEF u
    <3> QED BY <1>1, <1>2, <2>1, <3>1, NewBuffer
  <2>5. Put(f, n, data) = [fs |-> g, rc |-> 1]
    <3> HIDE DEF r, g
    <3> QED BY <2>2, <2>3
  <2> HIDE DEF r, g
  <2> QED BY <2>4, <2>5
<1>5. CASE ~grows
  <2> DEFINE r == [file EXCEPT !.data = data, !.cap = file.cap]
             g == WithBuffer(f, n, data, file.cap, f.used)
  <2>1. f = [node |-> f.node, used |-> f.used]
    BY <1>1, FsFacts
  <2>2. Put(f, n, data) = [fs |-> [f EXCEPT !.node[n] = r], rc |-> 1]
    BY <1>5 DEF Put
  <2>3. [f EXCEPT !.node[n] = r] = g
    <3>1. g = [node |-> [f.node EXCEPT ![n] = r], used |-> f.used]
      BY DEF WithBuffer
    <3> HIDE DEF r, g
    <3> QED BY <2>1, <3>1, UpdateNode, SMTT(30)
  <2>4. Len(data) < file.cap
    BY <1>1, <1>5
  <2>5. Rewritten(f, g, n) /\ g.node[n].data = data
    BY <1>1, <2>4, NewBuffer
  <2>6. Put(f, n, data) = [fs |-> g, rc |-> 1]
    <3> HIDE DEF r, g
    <3> QED BY <2>2, <2>3
  <2> HIDE DEF r, g
  <2> QED BY <2>5, <2>6
<1> QED BY <1>3, <1>4, <1>5

\* vfs_write_file changes one file, or nothing.
LEMMA WriteKeeps ==
  ASSUME NEW f, FsOK(f), NEW n, NEW data \in Seq(Nat)
  PROVE  /\ Rewritten(f, vfs_write_file(f, n, data).fs, n)
         /\ vfs_write_file(f, n, data).rc \in {0, 1}
<1>1. CASE IsFile(f, n)
  BY <1>1, PutKeeps DEF vfs_write_file
<1>2. CASE ~IsFile(f, n)
  BY <1>2, RewrittenItself DEF vfs_write_file
<1> QED BY <1>1, <1>2

\* vfs_append_file changes one file, or nothing.
LEMMA AppendKeeps ==
  ASSUME NEW f, FsOK(f), NEW n, NEW data \in Seq(Nat)
  PROVE  /\ Rewritten(f, vfs_append_file(f, n, data).fs, n)
         /\ vfs_append_file(f, n, data).rc \in {0, 1}
<1>1. CASE IsFile(f, n)
  <2>1. f.node[n].data \o data \in Seq(Nat)
    <3>1. f.node[n] \in VNode
      BY <1>1, FsFacts DEF FsOK, IsFile
    <3>2. f.node[n].data \in Seq(Nat)
      BY <3>1 DEF VNode
    <3> QED BY <3>2
  <2> QED BY <1>1, <2>1, PutKeeps DEF vfs_append_file
<1>2. CASE ~IsFile(f, n)
  BY <1>2, RewrittenItself DEF vfs_append_file
<1> QED BY <1>1, <1>2

\* vfs_truncate changes one file, or nothing.
LEMMA TruncateKeeps ==
  ASSUME NEW f, FsOK(f), NEW n
  PROVE  Rewritten(f, vfs_truncate(f, n), n)
<1>1. CASE IsFile(f, n)
  <2> DEFINE cap == f.node[n].cap
             data == <<>>
             r == [f.node[n] EXCEPT !.data = data, !.cap = cap]
  <2>1. f = [node |-> f.node, used |-> f.used] /\ n \in Nodes(f) /\ f.node[n] \in VNode
    BY <1>1, FsFacts DEF FsOK, IsFile
  <2>2. [f.node[n] EXCEPT !.data = <<>>] = r
    BY <2>1 DEF VNode
  <2>3. vfs_truncate(f, n) = [f EXCEPT !.node[n] = r]
    BY <1>1, <2>2 DEF vfs_truncate
  <2>4. [f EXCEPT !.node[n] = r] = [node |-> [f.node EXCEPT ![n] = r], used |-> f.used]
    <3> HIDE DEF r
    <3> QED BY <2>1, UpdateNode
  <2>5. /\ data \in Seq(Nat) /\ cap \in Nat
        /\ f.used \in Nat /\ f.used <= HeapSize
        /\ Len(data) < cap \/ (cap = 0 /\ data = <<>>)
    BY <2>1, FsFacts DEF FsOK, BuffersOK, VNode
  <2>6. Rewritten(f, [node |-> [f.node EXCEPT ![n] = r], used |-> f.used], n)
    <3> HIDE DEF data, cap
    <3>1. Rewritten(f, WithBuffer(f, n, data, cap, f.used), n)
      BY <2>1, <2>5, NewBuffer
    <3> QED BY <3>1 DEF WithBuffer
  <2> QED BY <2>3, <2>4, <2>6
<1>2. CASE ~IsFile(f, n)
  BY <1>2, RewrittenItself DEF vfs_truncate
<1> QED BY <1>1, <1>2

-----------------------------------------------------------------------------
(* Child arrays.                                                           *)

\* What a child array of directory d may list.
Lists(f, d, s) ==
  /\ s \in Seq(Nat)
  /\ \A i \in 1..Len(s) : s[i] \in Nodes(f) \ {vfs_root} /\ f.node[s[i]].parent = d
  /\ \A i, j \in 1..Len(s) : i # j => f.node[s[i]].name # f.node[s[j]].name

\* In a well-formed file system every child array lists what it may.
LEMMA ListsAreOK ==
  ASSUME NEW f, FsOK(f), NEW d \in Nodes(f)
  PROVE  Lists(f, d, f.node[d].children)
<1>1. f.node[d] \in VNode
  BY FsFacts DEF FsOK
<1>2. f.node[d].children \in Seq(Nat)
  BY <1>1 DEF VNode
<1> QED BY <1>2 DEF Lists, FsOK, TreeOK, ChildrenOK, NamesOK

\* What the removal of the k-th element leaves, place by place.
LEMMA RemoveAtIs ==
  ASSUME NEW s \in Seq(Nat), NEW k \in 1..Len(s)
  PROVE  /\ RemoveAt(s, k) \in Seq(Nat)
         /\ Len(RemoveAt(s, k)) = Len(s) - 1
         /\ \A i \in 1..Len(s)-1 : RemoveAt(s, k)[i] = s[IF i < k THEN i ELSE i + 1]
<1> DEFINE t == RemoveAt(s, k)
           a == SubSeq(s, 1, k - 1)
           b == SubSeq(s, k + 1, Len(s))
<1>1. Len(s) \in Nat /\ k \in Nat /\ 1 <= k /\ k <= Len(s)
  OBVIOUS
<1>a. /\ a \in Seq(Nat) /\ Len(a) = k - 1
      /\ \A i \in 1..k-1 : a[i] = s[i]
  BY <1>1
<1>b. /\ b \in Seq(Nat) /\ Len(b) = Len(s) - k
      /\ \A i \in 1..Len(s)-k : b[i] = s[k+i]
  <2>1. \A i \in k+1..Len(s) : s[i] \in Nat
    BY <1>1
  <2> QED BY <1>1, <2>1
<1>c. t = a \o b
  BY DEF RemoveAt
<1> HIDE DEF a, b, t
<1>2. t \in Seq(Nat) /\ Len(t) = Len(s) - 1
  <2>1. t \in Seq(Nat) /\ Len(t) = Len(a) + Len(b)
    BY <1>a, <1>b, <1>c, ConcatProperties
  <2> QED BY <1>1, <1>a, <1>b, <2>1
<1>d. \A i \in 1..Len(t) : t[i] = IF i <= k - 1 THEN a[i] ELSE b[i - (k - 1)]
  <2>1. \A i \in 1..Len(a) + Len(b) :
          (a \o b)[i] = IF i <= Len(a) THEN a[i] ELSE b[i - Len(a)]
    BY <1>a, <1>b, ConcatProperties
  <2>2. Len(t) = Len(a) + Len(b)
    BY <1>1, <1>2, <1>a, <1>b
  <2> QED BY <1>a, <1>c, <2>1, <2>2
<1>3. ASSUME NEW i \in 1..Len(s)-1
      PROVE  t[i] = s[IF i < k THEN i ELSE i + 1]
  <2>1. CASE i < k
    <3>1. i \in 1..k-1 /\ i \in 1..Len(t)
      BY <1>1, <1>2, <2>1
    <3>2. t[i] = a[i] /\ a[i] = s[i]
      BY <1>a, <1>d, <3>1
    <3> QED BY <2>1, <3>2
  <2>2. CASE i >= k
    <3>1. i - (k - 1) \in 1..Len(s)-k /\ i \in 1..Len(t) /\ ~(i <= k - 1)
      BY <1>1, <1>2, <2>2
    <3>2. t[i] = b[i - (k - 1)] /\ b[i - (k - 1)] = s[k + (i - (k - 1))]
      BY <1>b, <1>d, <3>1
    <3>3. k + (i - (k - 1)) = i + 1 /\ ~(i < k)
      BY <1>1, <2>2
    <3> QED BY <3>2, <3>3
  <2> QED BY <1>1, <2>1, <2>2
<1> QED BY <1>2, <1>3 DEF t

\* What is left of a child array when the k-th child goes.
LEMMA ListsRemoveAt ==
  ASSUME NEW f, NEW d, NEW s, Lists(f, d, s), NEW k \in 1..Len(s)
  PROVE  /\ Lists(f, d, RemoveAt(s, k))
         /\ Len(RemoveAt(s, k)) = Len(s) - 1
<1> DEFINE t == RemoveAt(s, k)
           h(i) == IF i < k THEN i ELSE i + 1
<1>1. s \in Seq(Nat) /\ Len(s) \in Nat
  BY DEF Lists
<1>2. /\ t \in Seq(Nat) /\ Len(t) = Len(s) - 1
      /\ \A i \in 1..Len(s)-1 : t[i] = s[h(i)]
  BY <1>1, RemoveAtIs
<1> HIDE DEF t
<1>3. \A i \in 1..Len(t) : h(i) \in 1..Len(s) /\ t[i] = s[h(i)]
  BY <1>1, <1>2
<1>4. \A i, j \in 1..Len(t) : i # j => h(i) # h(j)
  BY <1>2
<1> HIDE DEF h
<1>5. \A i \in 1..Len(t) : t[i] \in Nodes(f) \ {vfs_root} /\ f.node[t[i]].parent = d
  BY <1>3 DEF Lists
<1>6. ASSUME NEW i \in 1..Len(t), NEW j \in 1..Len(t), i # j
      PROVE  f.node[t[i]].name # f.node[t[j]].name
  <2>1. /\ h(i) \in 1..Len(s) /\ h(j) \in 1..Len(s) /\ h(i) # h(j)
        /\ t[i] = s[h(i)] /\ t[j] = s[h(j)]
    BY <1>3, <1>4, <1>6
  <2>2. f.node[s[h(i)]].name # f.node[s[h(j)]].name
    BY <2>1 DEF Lists
  <2> QED BY <2>1, <2>2
<1>7. Lists(f, d, t)
  BY <1>2, <1>5, <1>6 DEF Lists
<1> QED BY <1>2, <1>7 DEF t

\* A node whose name is new to the directory may be listed last.
LEMMA ListsAppend ==
  ASSUME NEW f, NEW d, NEW s, Lists(f, d, s),
         NEW c \in Nodes(f) \ {vfs_root}, f.node[c].parent = d,
         \A i \in 1..Len(s) : f.node[s[i]].name # f.node[c].name
  PROVE  Lists(f, d, Append(s, c))
<1> DEFINE t == Append(s, c)
<1>1. s \in Seq(Nat) /\ Len(s) \in Nat /\ c \in Nat
  BY DEF Lists, Nodes
<1>2. /\ t \in Seq(Nat) /\ Len(t) = Len(s) + 1 /\ t[Len(t)] = c
      /\ \A i \in 1..Len(s) : t[i] = s[i]
  BY <1>1
<1> HIDE DEF t
<1>3. \A i \in 1..Len(t) : i \in 1..Len(s) \/ i = Len(t)
  BY <1>1, <1>2
<1>4. \A i \in 1..Len(t) : t[i] \in Nodes(f) \ {vfs_root} /\ f.node[t[i]].parent = d
  <2> TAKE i \in 1..Len(t)
  <2>1. CASE i \in 1..Len(s)
    BY <1>2, <2>1, SMTT(30) DEF Lists
  <2>2. CASE i = Len(t)
    BY <1>2, <2>2
  <2> QED BY <1>3, <2>1, <2>2
<1>5. ASSUME NEW i \in 1..Len(t), NEW j \in 1..Len(t), i # j
      PROVE  f.node[t[i]].name # f.node[t[j]].name
  <2>1. CASE i \in 1..Len(s) /\ j \in 1..Len(s)
    <3>1. t[i] = s[i] /\ t[j] = s[j]
      BY <1>2, <2>1
    <3> QED BY <1>5, <2>1, <3>1 DEF Lists
  <2>2. CASE i \in 1..Len(s) /\ j = Len(t)
    BY <1>2, <2>2
  <2>3. CASE i = Len(t) /\ j \in 1..Len(s)
    <3>1. t[i] = c /\ t[j] = s[j] /\ f.node[s[j]].name # f.node[c].name
      BY <1>2, <2>3
    <3> QED BY <3>1
  <2> QED BY <1>3, <1>5, <2>1, <2>2, <2>3
<1>6. Lists(f, d, t)
  BY <1>2, <1>4, <1>5 DEF Lists
<1> QED BY <1>6 DEF t

\* g is f with other lists of children, and maybe more of the heap taken.
Relisted(f, g) ==
  /\ Keeps(f, g) /\ Len(g.node) = Len(f.node)
  /\ \A m \in Nodes(f) : /\ g.node[m].data = f.node[m].data
                         /\ g.node[m].cap = f.node[m].cap

\* Child arrays may change to any that list what they may.
LEMMA Rearranged ==
  ASSUME NEW f, FsOK(f), NEW g, FsType(g), Nodes(g) = Nodes(f),
         Len(g.node) = Len(f.node), g.used <= HeapSize,
         \A m \in Nodes(f) : /\ g.node[m].type = f.node[m].type
                             /\ g.node[m].name = f.node[m].name
                             /\ g.node[m].parent = f.node[m].parent
                             /\ g.node[m].data = f.node[m].data
                             /\ g.node[m].cap = f.node[m].cap,
         \A m \in Nodes(f) : Lists(f, m, g.node[m].children),
         \A m \in Nodes(f) : Len(g.node[m].children) <= g.node[m].child_cap
  PROVE  Relisted(f, g)
<1>1. IsDir(g, vfs_root) /\ ParentsOK(g)
  <2>1. \A n \in Nodes(f) : IsDir(g, f.node[n].parent)
    BY DEF FsOK, TreeOK, ParentsOK, IsDir
  <2> QED BY <2>1 DEF FsOK, TreeOK, ParentsOK, IsDir
<1>2. ChildrenOK(g)
  <2> SUFFICES ASSUME NEW d \in Nodes(f), NEW i \in 1..Len(g.node[d].children)
               PROVE  /\ g.node[d].children[i] \in Nodes(f) \ {vfs_root}
                      /\ g.node[g.node[d].children[i]].parent = d
    BY DEF ChildrenOK
  <2> DEFINE c == g.node[d].children[i]
  <2>1. Lists(f, d, g.node[d].children)
    OBVIOUS
  <2>2. c \in Nodes(f) \ {vfs_root} /\ f.node[c].parent = d
    BY <2>1 DEF Lists
  <2> HIDE DEF c
  <2>3. c \in Nodes(f) \ {vfs_root} /\ g.node[c].parent = d
    BY <2>2
  <2> QED BY <2>3 DEF c
<1>3. NamesOK(g)
  <2> SUFFICES ASSUME NEW d \in Nodes(f),
                      NEW i \in 1..Len(g.node[d].children),
                      NEW j \in 1..Len(g.node[d].children), i # j
               PROVE  g.node[g.node[d].children[i]].name
                        # g.node[g.node[d].children[j]].name
    BY DEF NamesOK
  <2>1. Lists(f, d, g.node[d].children)
    OBVIOUS
  <2>2. /\ g.node[d].children[i] \in Nodes(f) /\ g.node[d].children[j] \in Nodes(f)
        /\ f.node[g.node[d].children[i]].name # f.node[g.node[d].children[j]].name
    BY <2>1 DEF Lists
  <2> QED BY <2>2
<1>4. BuffersOK(g)
  BY DEF FsOK, BuffersOK
<1>5. Len(f.node) <= Len(g.node)
  BY FsFacts DEF FsOK
<1>6. Keeps(f, g)
  BY <1>1, <1>2, <1>3, <1>4, <1>5 DEF Keeps, FsOK, TreeOK
<1> QED BY <1>6 DEF Relisted

-----------------------------------------------------------------------------
(* Looking up and unlinking.                                               *)

\* Two uses of SelectInSeq, which finds the first place that satisfies a test.
LEMMA RemoveFirstIs ==
  ASSUME NEW s \in Seq(Nat), NEW e, Contains(s, e)
  PROVE  \E k \in 1..Len(s) : s[k] = e /\ RemoveFirst(s, e) = RemoveAt(s, k)
<1> DEFINE I == {i \in 1..Len(s) : s[i] = e}
<1>1. I \subseteq Nat /\ I # {}
  BY DEF Contains
<1>2. \E k \in I : \A y \in I : k <= y
  <2> HIDE DEF I
  <2> QED BY <1>1, LeastNatural
<1>3. Min(I) \in I
  <2> HIDE DEF I
  <2> QED BY <1>2 DEF Min
<1>4. SelectInSeq(s, LAMBDA v : v = e) = Min(I)
  BY <1>1 DEF SelectInSeq
<1>5. RemoveFirst(s, e) = RemoveAt(s, Min(I))
  BY <1>4 DEF RemoveFirst, Contains
<1> HIDE DEF I
<1>6. Min(I) \in 1..Len(s) /\ s[Min(I)] = e
  BY <1>3 DEF I
<1> QED BY <1>5, <1>6

\* child_of finds a child of that name, and says NULL only if none has it.
LEMMA ChildOf ==
  ASSUME NEW f, FsOK(f), NEW d \in Nodes(f) \union {NULL}, NEW name
  PROVE  /\ child_of(f, d, name) \in Nodes(f) \union {NULL}
         /\ child_of(f, d, name) # NULL =>
              /\ IsDir(f, d) /\ child_of(f, d, name) \in Children(f, d)
              /\ f.node[child_of(f, d, name)].name = name
         /\ IsDir(f, d) /\ child_of(f, d, name) = NULL =>
              \A i \in 1..Len(f.node[d].children) :
                f.node[f.node[d].children[i]].name # name
<1>1. CASE ~IsDir(f, d)
  BY <1>1 DEF child_of
<1>2. CASE IsDir(f, d)
  <2> DEFINE s == f.node[d].children
             I == {i \in 1..Len(s) : f.node[s[i]].name = name}
             k == SelectInSeq(s, LAMBDA m : f.node[m].name = name)
  <2>1. d \in Nodes(f) /\ Lists(f, d, s)
    BY <1>2, ListsAreOK DEF IsDir
  <2>2. /\ s \in Seq(Nat) /\ Len(s) \in Nat
        /\ \A i \in 1..Len(s) : s[i] \in Nodes(f) \ {vfs_root}
    BY <2>1 DEF Lists
  <2>3. k = IF I # {} THEN Min(I) ELSE 0
    BY DEF SelectInSeq
  <2>4. child_of(f, d, name) = IF k = 0 THEN NULL ELSE s[k]
    BY <1>2 DEF child_of
  <2>5. CASE I = {}
    BY <2>3, <2>4, <2>5 DEF NULL
  <2>6. CASE I # {}
    <3>1. I \subseteq Nat
      BY <2>2
    <3>2. \E x \in I : \A y \in I : x <= y
      <4> HIDE DEF I
      <4> QED BY <2>6, <3>1, LeastNatural
    <3>3. Min(I) \in I
      <4> HIDE DEF I
      <4> QED BY <3>2 DEF Min
    <3>4. k \in 1..Len(s) /\ f.node[s[k]].name = name
      <4>1. k = Min(I)
        BY <2>3, <2>6
      <4> HIDE DEF k
      <4> QED BY <3>3, <4>1
    <3> HIDE DEF k, I
    <3>5. child_of(f, d, name) = s[k] /\ s[k] \in Nodes(f) /\ s[k] \in ToSet(s)
      <4> HIDE DEF s
      <4> QED BY <2>2, <2>4, <3>4 DEF ToSet
    <3>6. s[k] # NULL
      BY <3>5 DEF Nodes, NULL
    <3> QED BY <1>2, <3>4, <3>5, <3>6 DEF Children
  <2> QED BY <2>5, <2>6
<1> QED BY <1>1, <1>2

\* A listed node is the one child_of finds under its name.
LEMMA ChildOfListed ==
  ASSUME NEW f, FsOK(f), NEW d, IsDir(f, d), NEW n \in Children(f, d)
  PROVE  child_of(f, d, f.node[n].name) = n
<1> DEFINE s    == f.node[d].children
           name == f.node[n].name
           m    == child_of(f, d, name)
<1>1. d \in Nodes(f) /\ Lists(f, d, s)
  BY ListsAreOK DEF IsDir
<1>2. s \in Seq(Nat)
  BY <1>1 DEF Lists
<1>3. PICK i \in 1..Len(s) : s[i] = n
  <2> HIDE DEF s
  <2> QED BY <1>2 DEF Children, ToSet, s
<1>4. m # NULL
  BY <1>1, <1>3, ChildOf
<1>5. m \in Children(f, d) /\ f.node[m].name = name
  BY <1>1, <1>4, ChildOf
<1> HIDE DEF m
<1>6. PICK j \in 1..Len(s) : s[j] = m
  <2> HIDE DEF s
  <2> QED BY <1>2, <1>5 DEF Children, ToSet, s
<1>7. i = j
  <2> HIDE DEF s
  <2> QED BY <1>1, <1>3, <1>5, <1>6 DEF Lists
<1> QED BY <1>3, <1>6, <1>7 DEF m

\* f with another list of children for d.
WithChildren(f, d, s, cap, u) ==
  [node |-> [f.node EXCEPT ![d] = [f.node[d] EXCEPT !.children = s, !.child_cap = cap]],
   used |-> u]

\* Another list in the array of one directory.
LEMMA ReplaceChildren ==
  ASSUME NEW f, FsOK(f), NEW d \in Nodes(f), NEW s, Lists(f, d, s),
         NEW cap \in Nat, Len(s) <= cap, NEW u \in Nat, u <= HeapSize
  PROVE  /\ Relisted(f, WithChildren(f, d, s, cap, u))
         /\ WithChildren(f, d, s, cap, u).used = u
         /\ WithChildren(f, d, s, cap, u).node[d].children = s
         /\ \A m \in Nodes(f) : m # d =>
              WithChildren(f, d, s, cap, u).node[m].children = f.node[m].children
<1> DEFINE r == [f.node[d] EXCEPT !.children = s, !.child_cap = cap]
           g == WithChildren(f, d, s, cap, u)
<1>1. FsType(f) /\ f.node[d] \in VNode
  BY FsFacts DEF FsOK
<1>2. s \in Seq(Nat)
  BY DEF Lists
<1>3. /\ r \in VNode /\ r.children = s /\ r.child_cap = cap
      /\ r.type = f.node[d].type /\ r.name = f.node[d].name
      /\ r.parent = f.node[d].parent /\ r.data = f.node[d].data /\ r.cap = f.node[d].cap
  BY <1>1, <1>2 DEF VNode
<1>4. /\ FsType(g) /\ Nodes(g) = Nodes(f) /\ Len(g.node) = Len(f.node) /\ g.used = u
      /\ \A m \in Nodes(f) : g.node[m] = IF m = d THEN r ELSE f.node[m]
  <2> HIDE DEF r
  <2>1. r \in VNode /\ g = [node |-> [f.node EXCEPT ![d] = r], used |-> u]
    BY <1>3 DEF r, WithChildren
  <2> HIDE DEF g
  <2> QED BY <1>1, <2>1, Replace
<1>5. SUFFICES /\ Relisted(f, g) /\ g.used = u /\ g.node[d].children = s
               /\ \A m \in Nodes(f) : m # d => g.node[m].children = f.node[m].children
  OBVIOUS
<1> HIDE DEF r, g
<1>6. \A m \in Nodes(f) : Lists(f, m, g.node[m].children)
  BY <1>3, <1>4, ListsAreOK
<1>7. \A m \in Nodes(f) : Len(g.node[m].children) <= g.node[m].child_cap
  BY <1>3, <1>4 DEF FsOK, BuffersOK
<1>8. \A m \in Nodes(f) : /\ g.node[m].type = f.node[m].type
                          /\ g.node[m].name = f.node[m].name
                          /\ g.node[m].parent = f.node[m].parent
                          /\ g.node[m].data = f.node[m].data
                          /\ g.node[m].cap = f.node[m].cap
  BY <1>3, <1>4
<1>9. /\ g.node[d].children = s
      /\ \A m \in Nodes(f) : m # d => g.node[m].children = f.node[m].children
  BY <1>3, <1>4
<1> QED BY <1>4, <1>6, <1>7, <1>8, <1>9, Rearranged

\* g is f with n taken out of the list of its parent.
Unlinked(f, g, n) ==
  /\ n \in Nodes(f) \ {vfs_root}
  /\ Relisted(f, g) /\ g.used = f.used
  /\ \E k \in 1..Len(f.node[f.node[n].parent].children) :
       /\ f.node[f.node[n].parent].children[k] = n
       /\ g.node[f.node[n].parent].children
            = RemoveAt(f.node[f.node[n].parent].children, k)
  /\ \A m \in Nodes(f) :
       m # f.node[n].parent => g.node[m].children = f.node[m].children

\* vfs_unlink_node fails for the root, for no node at all and for a node that
\* is not listed, and takes every other node out of its directory.
LEMMA UnlinkIs ==
  ASSUME NEW f, FsOK(f), NEW n \in Nodes(f) \union {NULL}
  PROVE  \/ /\ vfs_unlink_node(f, n) = [fs |-> f, rc |-> 0]
            /\ n \in {NULL, vfs_root} \/ n \notin Children(f, f.node[n].parent)
         \/ \E g : /\ vfs_unlink_node(f, n) = [fs |-> g, rc |-> 1]
                   /\ Unlinked(f, g, n)
<1> DEFINE p == f.node[n].parent
           c == f.node[p].children
<1>1. CASE n = NULL \/ n = vfs_root \/ ~Contains(c, n)
  <2>1. vfs_unlink_node(f, n) = [fs |-> f, rc |-> 0]
    BY <1>1 DEF vfs_unlink_node
  <2>2. CASE n = NULL \/ n = vfs_root
    BY <2>1, <2>2
  <2>3. CASE n # NULL /\ n # vfs_root
    <3>1. n \in Nodes(f) /\ p \in Nodes(f)
      BY <2>3 DEF FsOK, TreeOK, ParentsOK, IsDir
    <3>2. c \in Seq(Nat)
      BY <3>1, ListsAreOK DEF Lists
    <3>3. n \notin ToSet(c)
      <4> HIDE DEF c, p
      <4> QED BY <1>1, <2>3, <3>2 DEF Contains, ToSet
    <3> QED BY <2>1, <3>3 DEF Children
  <2> QED BY <2>2, <2>3
<1>2. CASE n # NULL /\ n # vfs_root /\ Contains(c, n)
  <2>1. n \in Nodes(f) /\ p \in Nodes(f)
    BY <1>2 DEF FsOK, TreeOK, ParentsOK, IsDir
  <2>2. FsType(f) /\ f.node[p] \in VNode
    BY <2>1, FsFacts DEF FsOK
  <2>3. f.node[p].child_cap \in Nat /\ Lists(f, p, c) /\ Len(c) <= f.node[p].child_cap
    BY <2>1, <2>2, ListsAreOK DEF VNode, FsOK, BuffersOK
  <2>4. c \in Seq(Nat)
    BY <2>3 DEF Lists
  <2>5. PICK k \in 1..Len(c) : c[k] = n /\ RemoveFirst(c, n) = RemoveAt(c, k)
    <3> HIDE DEF c
    <3> QED BY <1>2, <2>4, RemoveFirstIs
  <2> DEFINE s == RemoveFirst(c, n)
             cap == f.node[p].child_cap
             r == [f.node[p] EXCEPT !.children = s, !.child_cap = cap]
             g == WithChildren(f, p, s, cap, f.used)
  <2>6. Lists(f, p, s) /\ Len(s) = Len(c) - 1
    <3> HIDE DEF c, p
    <3> QED BY <2>3, <2>5, ListsRemoveAt
  <2>7. Len(s) <= cap /\ cap \in Nat
    <3> HIDE DEF s, c
    <3> QED BY <2>3, <2>4, <2>6
  <2>8. f.used \in Nat /\ f.used <= HeapSize /\ f = [node |-> f.node, used |-> f.used]
    BY <2>2, FsFacts DEF FsOK, BuffersOK
  <2>9. /\ Relisted(f, g) /\ g.used = f.used /\ g.node[p].children = s
        /\ \A m \in Nodes(f) : m # p => g.node[m].children = f.node[m].children
    <3> HIDE DEF s, cap, p
    <3> QED BY <2>1, <2>6, <2>7, <2>8, ReplaceChildren
  <2>10. [f.node[p] EXCEPT !.children = s] = r
    <3> HIDE DEF s, p
    <3> QED BY <2>2 DEF VNode
  <2>11. vfs_unlink_node(f, n) = [fs |-> [f EXCEPT !.node[p] = [f.node[p] EXCEPT !.children = s]],
                                  rc |-> 1]
    BY <1>2 DEF vfs_unlink_node
  <2>12. [f EXCEPT !.node[p] = r] = g
    <3>1. g = [node |-> [f.node EXCEPT ![p] = r], used |-> f.used]
      BY DEF WithChildren
    <3> HIDE DEF r, p, g
    <3> QED BY <2>8, <3>1, UpdateNode
  <2> HIDE DEF r, g
  <2>13. vfs_unlink_node(f, n) = [fs |-> g, rc |-> 1]
    <3> HIDE DEF s, p
    <3> QED BY <2>10, <2>11, <2>12
  <2>14. Unlinked(f, g, n)
    BY <1>2, <2>1, <2>5, <2>9 DEF Unlinked
  <2> HIDE DEF p, c, s
  <2> QED BY <2>13, <2>14
<1> QED BY <1>1, <1>2

\* vfs_unlink_node changes lists only.
LEMMA UnlinkKeeps ==
  ASSUME NEW f, FsOK(f), NEW n \in Nodes(f) \union {NULL}
  PROVE  \E g, code : /\ vfs_unlink_node(f, n) = [fs |-> g, rc |-> code]
                      /\ code \in {0, 1} /\ Relisted(f, g)
<1>1. CASE vfs_unlink_node(f, n) = [fs |-> f, rc |-> 0]
  <2>1. Relisted(f, f) /\ 0 \in {0, 1}
    BY KeepsItself DEF Relisted
  <2> QED BY <1>1, <2>1, Zenon
<1>2. CASE vfs_unlink_node(f, n) # [fs |-> f, rc |-> 0]
  <2>1. PICK g : vfs_unlink_node(f, n) = [fs |-> g, rc |-> 1] /\ Unlinked(f, g, n)
    BY <1>2, UnlinkIs
  <2>2. Relisted(f, g) /\ 1 \in {0, 1}
    BY <2>1 DEF Unlinked
  <2> QED BY <2>1, <2>2, Zenon
<1> QED BY <1>1, <1>2

-----------------------------------------------------------------------------
(* Paths.                                                                  *)

\* One component of a path leads to a node or nowhere.
LEMMA StepIntoType ==
  ASSUME NEW f, FsOK(f), NEW cur \in Nodes(f) \union {NULL}, NEW name
  PROVE  StepInto(f, cur, name) \in Nodes(f) \union {NULL}
<1>1. child_of(f, cur, name) \in Nodes(f) \union {NULL}
  BY ChildOf
<1>2. vfs_root \in Nodes(f)
  BY DEF FsOK, TreeOK, IsDir
<1>3. child_of(f, vfs_root, "root") \in Nodes(f) \union {NULL}
  BY <1>2, ChildOf
<1>4. cur # NULL => f.node[cur].parent \in Nodes(f)
  BY DEF FsOK, TreeOK, ParentsOK, IsDir
<1>5. CASE cur = NULL
  BY <1>5 DEF StepInto
<1>6. CASE cur # NULL /\ name = "."
  BY <1>6 DEF StepInto
<1>7. CASE cur # NULL /\ name = ".."
  BY <1>4, <1>7 DEF StepInto
<1>8. CASE cur # NULL /\ name = "~"
  BY <1>3, <1>8 DEF StepInto
<1>9. CASE cur # NULL /\ name \notin {".", "..", "~"}
  BY <1>1, <1>9 DEF StepInto
<1> QED BY <1>5, <1>6, <1>7, <1>8, <1>9

\* The nodes a path leads through.
Walk(f, dir, p, w) ==
  /\ w \in [0..Len(p.comps) -> Nodes(f) \union {NULL}]
  /\ w[0] = IF p.abs THEN vfs_root ELSE dir
  /\ \A i \in 1..Len(p.comps) : w[i] = StepInto(f, w[i-1], p.comps[i])

\* vfs_resolve walks the components, one node for each.
LEMMA ResolveWalks ==
  ASSUME NEW f, FsOK(f), NEW dir \in Nodes(f), NEW p \in Path
  PROVE  \E w : Walk(f, dir, p, w) /\ vfs_resolve(f, dir, p) = w[Len(p.comps)]
<1> DEFINE D == Nodes(f) \union {NULL}
           L == Len(p.comps)
           from == IF p.abs THEN vfs_root ELSE dir
           st == [x \in D \X (1..L) |-> StepInto(f, x[1], p.comps[x[2]])]
           walk == CHOOSE g : g = [i \in 0..L |->
                     IF i = 0 THEN IF p.abs THEN vfs_root ELSE dir
                              ELSE StepInto(f, g[i-1], p.comps[i])]
<1>1. L \in Nat
  BY DEF Path
<1>2. from \in D
  BY DEF FsOK, TreeOK, IsDir
<1>3. st \in [D \X (1..L) -> D]
  <2>1. \A x \in D \X (1..L) : StepInto(f, x[1], p.comps[x[2]]) \in D
    <3> SUFFICES ASSUME NEW x \in D \X (1..L)
                 PROVE  StepInto(f, x[1], p.comps[x[2]]) \in D
      OBVIOUS
    <3>1. x[1] \in D
      OBVIOUS
    <3> QED BY <3>1, StepIntoType
  <2> HIDE DEF D, L
  <2> QED BY <2>1
<1>4. PICK g \in [0..L -> D] :
        g[0] = from /\ \A i \in 1..L : g[i] = st[<<g[i-1], i>>]
  <2> HIDE DEF D, L, from, st
  <2>1. Walks(D, from, L, st) # {}
    BY <1>1, <1>2, <1>3, Iterate
  <2> QED BY <2>1 DEF Walks
<1>5. \A i \in 1..L : g[i] = StepInto(f, g[i-1], p.comps[i])
  <2> SUFFICES ASSUME NEW i \in 1..L PROVE g[i] = StepInto(f, g[i-1], p.comps[i])
    OBVIOUS
  <2> HIDE DEF D, L
  <2>1. i - 1 \in 0..L
    BY <1>1
  <2>2. <<g[i-1], i>> \in D \X (1..L)
    BY <2>1
  <2> QED BY <1>4, <2>2
<1>6. g = [i \in 0..L |-> IF i = 0 THEN IF p.abs THEN vfs_root ELSE dir
                                   ELSE StepInto(f, g[i-1], p.comps[i])]
  <2> HIDE DEF st, D, L
  <2>1. \A i \in 0..L : i # 0 => i \in 1..L
    BY <1>1
  <2>2. \A i \in 0..L : g[i] = IF i = 0 THEN IF p.abs THEN vfs_root ELSE dir
                                        ELSE StepInto(f, g[i-1], p.comps[i])
    BY <1>4, <1>5, <2>1
  <2> QED BY <2>2
<1>7. walk = [i \in 0..L |-> IF i = 0 THEN IF p.abs THEN vfs_root ELSE dir
                                      ELSE StepInto(f, walk[i-1], p.comps[i])]
  BY <1>6
<1>8. vfs_resolve(f, dir, p) = walk[L]
  BY DEF vfs_resolve
<1> DEFINE T == {i \in 0..L : walk[i] \in D}
<1> HIDE DEF walk, st
<1>9. 0 \in T
  BY <1>1, <1>2, <1>7
<1>a. ASSUME NEW i \in 1..L
      PROVE  walk[i] = StepInto(f, walk[i-1], p.comps[i])
  <2>1. i \in 0..L /\ i # 0
    BY <1>1
  <2> HIDE DEF L
  <2> QED BY <1>7, <2>1
<1>10. ASSUME NEW i \in 1..L, i - 1 \in T PROVE i \in T
  <2>1. i \in 0..L /\ walk[i-1] \in D
    BY <1>1, <1>10
  <2>2. walk[i] \in D
    <3>1. StepInto(f, walk[i-1], p.comps[i]) \in D
      <4> HIDE DEF L
      <4> QED BY <2>1, StepIntoType
    <3> HIDE DEF D, L
    <3> QED BY <1>a, <3>1
  <2> QED BY <2>1, <2>2
<1>11. 0..L \subseteq T
  <2> HIDE DEF T, L
  <2> QED BY <1>1, <1>9, <1>10, InductTo
<1>12. walk \in [0..L -> D]
  <2> DEFINE start == IF p.abs THEN vfs_root ELSE dir
             val(i) == IF i = 0 THEN start ELSE StepInto(f, walk[i-1], p.comps[i])
  <2>1. walk = [i \in 0..L |-> val(i)]
    BY <1>7
  <2>2. \A i \in 0..L : walk[i] \in D
    BY <1>11
  <2> HIDE DEF val, D, L
  <2> QED BY <2>1, <2>2
<1>13. walk[0] = from
  BY <1>1, <1>7
<1>14. Walk(f, dir, p, walk)
  BY <1>12, <1>13, <1>a DEF Walk
<1> QED BY <1>8, <1>14

\* A path leads to a node or nowhere.
LEMMA ResolveType ==
  ASSUME NEW f, FsOK(f), NEW dir \in Nodes(f), NEW p \in Path
  PROVE  vfs_resolve(f, dir, p) \in Nodes(f) \union {NULL}
<1>1. PICK w : Walk(f, dir, p, w) /\ vfs_resolve(f, dir, p) = w[Len(p.comps)]
  BY ResolveWalks
<1>2. Len(p.comps) \in 0..Len(p.comps)
  BY DEF Path
<1> QED BY <1>1, <1>2 DEF Walk

\* A path without components leads to where it starts.
LEMMA ResolveEmpty ==
  ASSUME NEW f, FsOK(f), NEW dir \in Nodes(f), NEW p \in Path, p.comps = <<>>
  PROVE  vfs_resolve(f, dir, p) = IF p.abs THEN vfs_root ELSE dir
<1>1. PICK w : Walk(f, dir, p, w) /\ vfs_resolve(f, dir, p) = w[Len(p.comps)]
  BY ResolveWalks
<1>2. Len(p.comps) = 0
  OBVIOUS
<1> QED BY <1>1, <1>2 DEF Walk

\* The last component is one step from where the ones before it lead.
LEMMA ResolveLast ==
  ASSUME NEW f, FsOK(f), NEW dir \in Nodes(f), NEW q \in Path, NEW p \in Path,
         NEW name, p.comps = Append(q.comps, name), p.abs = q.abs
  PROVE  vfs_resolve(f, dir, p) = StepInto(f, vfs_resolve(f, dir, q), name)
<1> DEFINE L == Len(q.comps)
<1>1. /\ L \in Nat /\ Len(p.comps) = L + 1 /\ p.comps[L + 1] = name
      /\ \A i \in 1..L : p.comps[i] = q.comps[i]
  BY DEF Path
<1>2. PICK v : Walk(f, dir, q, v) /\ vfs_resolve(f, dir, q) = v[L]
  BY ResolveWalks
<1>3. PICK w : Walk(f, dir, p, w) /\ vfs_resolve(f, dir, p) = w[L + 1]
  BY <1>1, ResolveWalks
<1> HIDE DEF L
<1> DEFINE T == {i \in 0..L : w[i] = v[i]}
<1>4. 0 \in T
  BY <1>1, <1>2, <1>3 DEF Walk
<1>5. ASSUME NEW i \in 1..L, i - 1 \in T PROVE i \in T
  <2>1. i \in 1..Len(p.comps) /\ i \in 1..Len(q.comps) /\ i \in 0..L
    BY <1>1 DEF L
  <2>2. w[i] = StepInto(f, w[i-1], p.comps[i]) /\ v[i] = StepInto(f, v[i-1], q.comps[i])
    BY <1>2, <1>3, <2>1 DEF Walk
  <2> QED BY <1>1, <1>5, <2>1, <2>2
<1>6. 0..L \subseteq T
  <2> HIDE DEF T
  <2> QED BY <1>1, <1>4, <1>5, InductTo
<1>7. w[L] = v[L]
  BY <1>1, <1>6
<1>8. w[L + 1] = StepInto(f, w[L], name)
  <2>1. L + 1 \in 1..Len(p.comps) /\ (L + 1) - 1 = L
    BY <1>1
  <2> QED BY <1>1, <1>3, <2>1 DEF Walk
<1> QED BY <1>2, <1>3, <1>7, <1>8

-----------------------------------------------------------------------------
(* Making nodes.                                                           *)

\* f with one more node, which its parent does not list yet.
Grown(f, type, name, parent) ==
  [node |-> Append(f.node, NewNode(type, name, parent)),
   used |-> f.used + AlignUp(NodeSize)]

\* A node as make_node fills it in.
LEMMA NewNodeIs ==
  ASSUME NEW type \in {"file", "dir"}, NEW name \in STRING, NEW parent \in Nat
  PROVE  LET e == NewNode(type, name, parent)
         IN  /\ e \in VNode /\ e.type = type /\ e.name = name /\ e.parent = parent
             /\ Len(e.children) = 0 /\ e.child_cap = 0 /\ e.data = <<>> /\ e.cap = 0
<1>1. ASSUME NEW ks \in Seq(Nat), NEW ds \in Seq(Nat)
      PROVE  LET e == [type |-> type, name |-> name, parent |-> parent,
                       children |-> ks, child_cap |-> 0, data |-> ds, cap |-> 0]
             IN  /\ e \in VNode /\ e.type = type /\ e.name = name
                 /\ e.parent = parent /\ e.children = ks /\ e.child_cap = 0
                 /\ e.data = ds /\ e.cap = 0
  BY DEF VNode
<1>2. <<>> \in Seq(Nat) /\ Len(<<>>) = 0
  OBVIOUS
<1> QED BY <1>1, <1>2 DEF NewNode

\* The file system with one node more, and its parts.
LEMMA GrownIs ==
  ASSUME NEW f, FsType(f), NEW type \in {"file", "dir"}, NEW name \in STRING,
         NEW parent \in Nat, NEW g, g = Grown(f, type, name, parent)
  PROVE  /\ FsType(g)
         /\ Len(g.node) = Len(f.node) + 1
         /\ Nodes(g) = Nodes(f) \union {Len(f.node) + 1}
         /\ \A n \in Nodes(f) : g.node[n] = f.node[n]
         /\ g.node[Len(f.node) + 1] = NewNode(type, name, parent)
         /\ g.used = f.used + AlignUp(NodeSize)
<1> DEFINE e == NewNode(type, name, parent)
           s == Append(f.node, e)
           u == f.used + AlignUp(NodeSize)
<1>1. f.node \in Seq(VNode) /\ f.used \in Nat /\ Len(f.node) \in Nat
  BY FsFacts
<1>2. e \in VNode
  BY NewNodeIs
<1>3. u \in Nat
  <2>1. NodeSize \in Nat
    BY VfsAssumption
  <2>2. AlignUp(NodeSize) \in Nat
    BY <2>1, AlignUpType
  <2> QED BY <1>1, <2>2
<1> HIDE DEF e, u
<1>4. /\ s \in Seq(VNode) /\ Len(s) = Len(f.node) + 1
      /\ \A n \in 1..Len(f.node) : s[n] = f.node[n]
      /\ s[Len(f.node) + 1] = e
  BY <1>1, <1>2
<1>5. 1..(Len(f.node) + 1) = (1..Len(f.node)) \union {Len(f.node) + 1}
  BY <1>1
<1> HIDE DEF s
<1>6. g = [node |-> s, used |-> u]
  BY DEF Grown, s, e, u
<1>7. FsType([node |-> s, used |-> u])
  BY <1>3, <1>4 DEF FsType
<1> QED BY <1>4, <1>5, <1>6, <1>7 DEF Nodes, e, u

\* A node in no list keeps the file system well formed.
LEMMA GrownKeeps ==
  ASSUME NEW f, FsOK(f), NEW type \in {"file", "dir"}, NEW name \in STRING,
         NEW parent, IsDir(f, parent), Room(f, NodeSize)
  PROVE  Keeps(f, Grown(f, type, name, parent))
<1> DEFINE g == Grown(f, type, name, parent)
           new == Len(f.node) + 1
<1>1. /\ FsType(f) /\ Len(f.node) \in Nat /\ parent \in Nodes(f) /\ parent \in Nat
      /\ Nodes(f) = 1..Len(f.node)
  BY FsFacts DEF FsOK, IsDir, Nodes
<1>2. /\ FsType(g) /\ Len(g.node) = new /\ Nodes(g) = Nodes(f) \union {new}
      /\ \A n \in Nodes(f) : g.node[n] = f.node[n]
      /\ g.node[new] = NewNode(type, name, parent)
      /\ g.used = f.used + AlignUp(NodeSize)
  <2>1. g = Grown(f, type, name, parent)
    OBVIOUS
  <2> HIDE DEF g
  <2> QED BY <1>1, <2>1, GrownIs
<1>3. /\ g.node[new].type = type /\ g.node[new].parent = parent
      /\ Len(g.node[new].children) = 0 /\ g.node[new].child_cap = 0
      /\ g.node[new].data = <<>> /\ g.node[new].cap = 0
  <2> DEFINE e == NewNode(type, name, parent)
  <2>1. e.type = type /\ e.parent = parent /\ Len(e.children) = 0 /\ e.child_cap = 0
        /\ e.data = <<>> /\ e.cap = 0
    BY <1>1, NewNodeIs
  <2> HIDE DEF e, g
  <2>2. g.node[new] = e
    BY <1>2 DEF e
  <2> QED BY <2>1, <2>2
<1>4. g.used <= HeapSize
  BY <1>1, <1>2, ChargeFits, VfsAssumption
<1> HIDE DEF g
<1>5. new \notin Nodes(f) /\ vfs_root \in Nodes(f) /\ parent < new
  BY <1>1 DEF FsOK, TreeOK, IsDir
<1>6. \A n \in Nodes(g) : n \in Nodes(f) \/ n = new
  BY <1>2
<1>7. \A n \in Nodes(f) : n \in Nodes(g)
  BY <1>2
<1>8. \A n : IsDir(f, n) => IsDir(g, n)
  BY <1>2, <1>7 DEF IsDir
<1>9. ParentsOK(g)
  <2> SUFFICES ASSUME NEW n \in Nodes(g)
               PROVE  /\ IsDir(g, g.node[n].parent)
                      /\ IF n = vfs_root THEN g.node[n].parent = vfs_root
                                         ELSE g.node[n].parent < n
    BY DEF ParentsOK
  <2>1. CASE n \in Nodes(f)
    <3>1. /\ IsDir(f, f.node[n].parent)
          /\ IF n = vfs_root THEN f.node[n].parent = vfs_root
                             ELSE f.node[n].parent < n
      BY <2>1 DEF FsOK, TreeOK, ParentsOK
    <3> QED BY <1>2, <1>8, <2>1, <3>1
  <2>2. CASE n = new
    <3>1. n # vfs_root
      BY <1>5, <2>2
    <3> QED BY <1>3, <1>5, <1>8, <2>2, <3>1
  <2> QED BY <1>6, <2>1, <2>2
<1>10. \A d \in Nodes(f) : Lists(f, d, f.node[d].children)
  BY ListsAreOK
<1>11. ChildrenOK(g)
  <2> SUFFICES ASSUME NEW d \in Nodes(g), NEW i \in 1..Len(g.node[d].children)
               PROVE  /\ g.node[d].children[i] \in Nodes(g) \ {vfs_root}
                      /\ g.node[g.node[d].children[i]].parent = d
    BY DEF ChildrenOK
  <2>1. d \in Nodes(f)
    BY <1>3, <1>6
  <2>2. g.node[d].children = f.node[d].children
    BY <1>2, <2>1
  <2>3. /\ f.node[d].children[i] \in Nodes(f) \ {vfs_root}
        /\ f.node[f.node[d].children[i]].parent = d
    BY <1>10, <2>1, <2>2 DEF Lists
  <2> QED BY <1>2, <1>7, <2>2, <2>3
<1>12. NamesOK(g)
  <2> SUFFICES ASSUME NEW d \in Nodes(g), NEW i \in 1..Len(g.node[d].children),
                      NEW j \in 1..Len(g.node[d].children), i # j
               PROVE  g.node[g.node[d].children[i]].name
                        # g.node[g.node[d].children[j]].name
    BY DEF NamesOK
  <2>1. d \in Nodes(f)
    BY <1>3, <1>6
  <2>2. g.node[d].children = f.node[d].children
    BY <1>2, <2>1
  <2>3. /\ f.node[d].children[i] \in Nodes(f) /\ f.node[d].children[j] \in Nodes(f)
        /\ f.node[f.node[d].children[i]].name # f.node[f.node[d].children[j]].name
    BY <1>10, <2>1, <2>2 DEF Lists
  <2> QED BY <1>2, <2>2, <2>3
<1>13. TreeOK(g)
  BY <1>8, <1>9, <1>11, <1>12 DEF TreeOK, FsOK
<1>14. BuffersOK(g)
  <2> SUFFICES ASSUME NEW n \in Nodes(g)
               PROVE  /\ Len(g.node[n].children) <= g.node[n].child_cap
                      /\ IF g.node[n].cap = 0 THEN g.node[n].data = <<>>
                                              ELSE Len(g.node[n].data) < g.node[n].cap
    BY <1>4 DEF BuffersOK
  <2>1. CASE n \in Nodes(f)
    BY <1>2, <2>1 DEF FsOK, BuffersOK
  <2>2. CASE n = new
    BY <1>3, <2>2
  <2> QED BY <1>6, <2>1, <2>2
<1>15. FsOK(g)
  BY <1>2, <1>13, <1>14 DEF FsOK
<1>16. Len(f.node) <= Len(g.node)
  BY <1>1, <1>2
<1>17. \A n \in Nodes(f) : /\ g.node[n].type = f.node[n].type
                           /\ g.node[n].name = f.node[n].name
                           /\ g.node[n].parent = f.node[n].parent
  BY <1>2
<1>18. Keeps(f, g)
  BY <1>15, <1>16, <1>17 DEF Keeps
<1> QED BY <1>18 DEF g

\* make_node makes a node where the heap has room for one.
LEMMA MakeNode ==
  ASSUME NEW f, FsOK(f), NEW type \in {"file", "dir"}, NEW name \in STRING,
         NEW parent, IsDir(f, parent)
  PROVE  make_node(f, type, name, parent) =
           IF Room(f, NodeSize)
           THEN [fs |-> Grown(f, type, name, parent), rc |-> Len(f.node) + 1]
           ELSE [fs |-> f, rc |-> NULL]
<1> DEFINE e == NewNode(type, name, parent)
           u == f.used + AlignUp(NodeSize)
<1>1. CASE Room(f, NodeSize)
  <2>1. Charge(f, NodeSize) = [node |-> f.node, used |-> u]
    BY <1>1, ChargeFits, VfsAssumption DEF FsOK
  <2>2. make_node(f, type, name, parent) =
          [fs |-> [Charge(f, NodeSize) EXCEPT !.node = Append(@, e)],
           rc |-> Len(f.node) + 1]
    BY <1>1 DEF make_node
  <2> HIDE DEF e, u
  <2>3. [Charge(f, NodeSize) EXCEPT !.node = Append(@, e)]
          = [node |-> Append(f.node, e), used |-> u]
    <3>1. ASSUME NEW c, NEW s, c = [node |-> s, used |-> u]
          PROVE  [c EXCEPT !.node = Append(@, e)] = [node |-> Append(s, e), used |-> u]
      BY <3>1
    <3> QED BY <2>1, <3>1
  <2>4. Grown(f, type, name, parent) = [node |-> Append(f.node, e), used |-> u]
    BY DEF Grown, e, u
  <2> QED BY <1>1, <2>2, <2>3, <2>4
<1>2. CASE ~Room(f, NodeSize)
  BY <1>2 DEF make_node
<1> QED BY <1>1, <1>2

\* A node that its parent does not list, under a name it does not list,
\* finds a place there or leaves the file system as it was.
LEMMA AddChildKeeps ==
  ASSUME NEW f, FsOK(f), NEW d \in Nodes(f),
         NEW c \in Nodes(f) \ {vfs_root}, f.node[c].parent = d,
         \A i \in 1..Len(f.node[d].children) :
           f.node[f.node[d].children[i]].name # f.node[c].name
  PROVE  \E g, code :
           /\ add_child(f, d, c) = [fs |-> g, rc |-> code]
           /\ code \in {0, 1}
           /\ Relisted(f, g)
           /\ \A n \in Nodes(f) \ {d} : g.node[n].children = f.node[n].children
           /\ g.node[d].children = IF code = 0 THEN f.node[d].children
                                               ELSE Append(f.node[d].children, c)
<1> DEFINE dir    == f.node[d]
           full   == Len(dir.children) >= dir.child_cap
           newcap == IF dir.child_cap = 0 THEN ChildCap0 ELSE dir.child_cap * 2
           cap    == IF full THEN newcap ELSE dir.child_cap
           s      == Append(dir.children, c)
           r      == [dir EXCEPT !.children = s, !.child_cap = cap]
           u      == IF full THEN f.used + AlignUp(newcap * PtrSize) ELSE f.used
           g      == WithChildren(f, d, s, cap, u)
<1>1. /\ FsType(f) /\ dir \in VNode /\ f.used \in Nat /\ f.used <= HeapSize
      /\ f = [node |-> f.node, used |-> f.used]
  BY FsFacts DEF FsOK, BuffersOK
<1>2. /\ dir.children \in Seq(Nat) /\ dir.child_cap \in Nat
      /\ Len(dir.children) <= dir.child_cap /\ Len(dir.children) \in Nat
  BY <1>1 DEF VNode, FsOK, BuffersOK
<1>3. newcap \in Nat /\ newcap > dir.child_cap
  BY <1>2, VfsAssumption
<1>4. newcap * PtrSize \in Nat
  <2> HIDE DEF newcap
  <2> QED BY <1>3, VfsAssumption
<1>5. Lists(f, d, s)
  <2>1. Lists(f, d, dir.children)
    BY ListsAreOK
  <2> QED BY <2>1, ListsAppend
<1>6. Len(s) = Len(dir.children) + 1 /\ s \in Seq(Nat)
  BY <1>2, <1>5 DEF Lists
<1>7. CASE full /\ ~Room(f, newcap * PtrSize)
  <2>1. add_child(f, d, c) = [fs |-> f, rc |-> 0]
    BY <1>7 DEF add_child
  <2>2. Relisted(f, f)
    BY KeepsItself DEF Relisted
  <2>3. /\ add_child(f, d, c) = [fs |-> f, rc |-> 0]
        /\ 0 \in {0, 1}
        /\ Relisted(f, f)
        /\ \A n \in Nodes(f) \ {d} : f.node[n].children = f.node[n].children
        /\ f.node[d].children = IF 0 = 0 THEN f.node[d].children
                                         ELSE Append(f.node[d].children, c)
    BY <2>1, <2>2
  <2> HIDE DEF dir, full, newcap, s
  <2> QED BY <2>3, Zenon
<1>8. CASE ~(full /\ ~Room(f, newcap * PtrSize))
  <2>1. u \in Nat /\ u <= HeapSize
    <3>1. CASE full
      <4>1. Room(f, newcap * PtrSize)
        BY <1>8, <3>1
      <4> HIDE DEF newcap, full
      <4>2. /\ f.used + AlignUp(newcap * PtrSize) \in Nat
            /\ f.used + AlignUp(newcap * PtrSize) <= HeapSize
        BY <1>1, <1>4, <4>1, ChargeFits
      <4> QED BY <3>1, <4>2
    <3>2. CASE ~full
      BY <1>1, <3>2
    <3> QED BY <3>1, <3>2
  <2>2. cap \in Nat /\ Len(s) <= cap
    <3> HIDE DEF newcap, s
    <3> QED BY <1>2, <1>3, <1>6
  <2>3. /\ Relisted(f, g) /\ g.node[d].children = s
        /\ \A m \in Nodes(f) : m # d => g.node[m].children = f.node[m].children
    <3> HIDE DEF s, cap, u, full, newcap
    <3> QED BY <1>5, <2>1, <2>2, ReplaceChildren
  <2>6. [dir EXCEPT !.children = s, !.child_cap = IF full THEN newcap ELSE @] = r
    <3>1. CASE full
      BY <3>1
    <3>2. CASE ~full
      BY <3>2
    <3> QED BY <3>1, <3>2
  <2>7. [(IF full THEN Charge(f, newcap * PtrSize) ELSE f) EXCEPT !.node[d] = r] = g
    <3>1. (IF full THEN Charge(f, newcap * PtrSize) ELSE f) = [node |-> f.node, used |-> u]
      <4>1. CASE full
        <5>1. Room(f, newcap * PtrSize)
          BY <1>8, <4>1
        <5> HIDE DEF newcap, full
        <5>2. Charge(f, newcap * PtrSize)
                = [node |-> f.node, used |-> f.used + AlignUp(newcap * PtrSize)]
          BY <1>1, <1>4, <5>1, ChargeFits
        <5> QED BY <4>1, <5>2
      <4>2. CASE ~full
        BY <1>1, <4>2
      <4> QED BY <4>1, <4>2
    <3>2. g = [node |-> [f.node EXCEPT ![d] = r], used |-> u]
      BY DEF WithChildren
    <3> HIDE DEF r, u, full, newcap, g
    <3> QED BY <3>1, <3>2, UpdateNode
  <2>8. add_child(f, d, c) =
          [fs |-> [(IF full THEN Charge(f, newcap * PtrSize) ELSE f) EXCEPT !.node[d] = r],
           rc |-> 1]
    <3>1. add_child(f, d, c) =
            [fs |-> [(IF full THEN Charge(f, newcap * PtrSize) ELSE f)
                       EXCEPT !.node[d] = [dir EXCEPT !.children = s,
                                             !.child_cap = IF full THEN newcap ELSE @]],
             rc |-> 1]
      BY <1>8 DEF add_child
    <3> HIDE DEF r, s, full, newcap, dir
    <3> QED BY <2>6, <3>1
  <2>9. /\ add_child(f, d, c) = [fs |-> g, rc |-> 1]
        /\ 1 \in {0, 1}
        /\ Relisted(f, g)
        /\ \A n \in Nodes(f) \ {d} : g.node[n].children = f.node[n].children
        /\ g.node[d].children = IF 1 = 0 THEN f.node[d].children ELSE s
    <3>1. add_child(f, d, c) = [fs |-> g, rc |-> 1]
      <4> HIDE DEF r, u, full, newcap, g
      <4> QED BY <2>7, <2>8
    <3> HIDE DEF g, s
    <3> QED BY <2>3, <3>1
  <2> HIDE DEF g
  <2>10. \E h, code :
           /\ add_child(f, d, c) = [fs |-> h, rc |-> code]
           /\ code \in {0, 1}
           /\ Relisted(f, h)
           /\ \A n \in Nodes(f) \ {d} : h.node[n].children = f.node[n].children
           /\ h.node[d].children = IF code = 0 THEN f.node[d].children ELSE s
    <3> HIDE DEF dir, full, newcap, s
    <3> QED BY <2>9, Zenon
  <2> QED BY <2>10
<1> QED BY <1>7, <1>8

\* A directory without a child of some name.
Fresh(f, d, name) ==
  \A i \in 1..Len(f.node[d].children) : f.node[f.node[d].children[i]].name # name

\* g is f and a node of that name, and the directory lists it or not.
Placed(f, type, name, d, g) ==
  /\ Keeps(f, g) /\ Len(g.node) = Len(f.node) + 1
  /\ \A n \in Nodes(f) : g.node[n].data = f.node[n].data
  /\ \A n \in Nodes(f) \ {d} : g.node[n].children = f.node[n].children
  /\ g.node[d].children \in
       {f.node[d].children, Append(f.node[d].children, Len(f.node) + 1)}
  /\ g.node[Len(f.node) + 1].type = type
  /\ g.node[Len(f.node) + 1].name = name
  /\ g.node[Len(f.node) + 1].parent = d
  /\ Len(g.node[Len(f.node) + 1].children) = 0

\* make_node, when there is room, and add_child after it.
LEMMA Place ==
  ASSUME NEW f, FsOK(f), NEW type \in {"file", "dir"}, NEW name \in STRING,
         NEW d, IsDir(f, d), Fresh(f, d, name), Room(f, NodeSize)
  PROVE  LET r == add_child(Grown(f, type, name, d), d, Len(f.node) + 1)
         IN  /\ r.rc \in {0, 1} /\ Placed(f, type, name, d, r.fs)
             /\ r.rc = 0 => r.fs.node[d].children = f.node[d].children
<1> DEFINE h == Grown(f, type, name, d)
           new == Len(f.node) + 1
<1>1. /\ FsType(f) /\ Len(f.node) \in Nat /\ d \in Nodes(f) /\ d \in Nat
      /\ Nodes(f) = 1..Len(f.node) /\ vfs_root \in Nodes(f)
  BY FsFacts DEF FsOK, IsDir, Nodes, TreeOK
<1>2. /\ Len(h.node) = new /\ Nodes(h) = Nodes(f) \union {new}
      /\ \A n \in Nodes(f) : h.node[n] = f.node[n]
      /\ h.node[new] = NewNode(type, name, d)
  <2>1. FsType(f) /\ d \in Nat
    BY <1>1
  <2>2. /\ Len(h.node) = Len(f.node) + 1
        /\ Nodes(h) = Nodes(f) \union {Len(f.node) + 1}
        /\ \A n \in Nodes(f) : h.node[n] = f.node[n]
        /\ h.node[Len(f.node) + 1] = NewNode(type, name, d)
    <3>1. h = Grown(f, type, name, d)
      OBVIOUS
    <3> HIDE DEF h
    <3> QED BY <2>1, <3>1, GrownIs
  <2> HIDE DEF h
  <2> QED BY <2>2
<1>3. /\ h.node[new].parent = d /\ h.node[new].name = name /\ h.node[new].type = type
      /\ Len(h.node[new].children) = 0
  <2> DEFINE e == NewNode(type, name, d)
  <2>1. e.parent = d /\ e.name = name /\ e.type = type /\ Len(e.children) = 0
    BY <1>1, NewNodeIs
  <2> HIDE DEF e, h
  <2>2. h.node[new] = e
    BY <1>2 DEF e
  <2> QED BY <2>1, <2>2
<1>4. Keeps(f, h) /\ FsOK(h)
  BY GrownKeeps DEF Keeps
<1> HIDE DEF h
<1>5. d \in Nodes(h) /\ new \in Nodes(h) \ {vfs_root} /\ new # d
  BY <1>1, <1>2
<1>6. \A i \in 1..Len(h.node[d].children) :
        h.node[h.node[d].children[i]].name # h.node[new].name
  <2>1. h.node[d].children = f.node[d].children
    BY <1>1, <1>2
  <2>2. Lists(f, d, f.node[d].children)
    BY <1>1, ListsAreOK
  <2>3. \A i \in 1..Len(f.node[d].children) : f.node[d].children[i] \in Nodes(f)
    BY <2>2 DEF Lists
  <2> SUFFICES ASSUME NEW i \in 1..Len(h.node[d].children)
               PROVE  h.node[h.node[d].children[i]].name # h.node[new].name
    OBVIOUS
  <2> DEFINE m == f.node[d].children[i]
  <2>4. i \in 1..Len(f.node[d].children) /\ h.node[d].children[i] = m /\ m \in Nodes(f)
    BY <2>1, <2>3
  <2>5. f.node[m].name # name
    BY <2>4 DEF Fresh
  <2> HIDE DEF m
  <2> QED BY <1>2, <1>3, <2>4, <2>5
<1>7. PICK g, code :
        /\ add_child(h, d, new) = [fs |-> g, rc |-> code]
        /\ code \in {0, 1}
        /\ Relisted(h, g)
        /\ \A n \in Nodes(h) \ {d} : g.node[n].children = h.node[n].children
        /\ g.node[d].children = IF code = 0 THEN h.node[d].children
                                            ELSE Append(h.node[d].children, new)
  <2> HIDE DEF new
  <2> QED BY <1>3, <1>4, <1>5, <1>6, AddChildKeeps
<1>8. Keeps(f, g)
  BY <1>4, <1>7, KeepsTrans DEF Relisted
<1>9. /\ \A n \in Nodes(f) : g.node[n].data = f.node[n].data
      /\ \A n \in Nodes(f) \ {d} : g.node[n].children = f.node[n].children
      /\ g.node[d].children \in
           {f.node[d].children, Append(f.node[d].children, new)}
      /\ Len(g.node[new].children) = 0
      /\ code = 0 => g.node[d].children = f.node[d].children
  <2>1. \A n \in Nodes(h) : g.node[n].data = h.node[n].data
    BY <1>7 DEF Relisted
  <2> QED BY <1>1, <1>2, <1>3, <1>5, <1>7, <2>1
<1>11. /\ g.node[new].type = type /\ g.node[new].name = name
       /\ g.node[new].parent = d
  BY <1>3, <1>5, <1>7 DEF Relisted, Keeps
<1>10. Len(g.node) = new
  BY <1>2, <1>7 DEF Relisted
<1>12. Placed(f, type, name, d, g)
  BY <1>8, <1>9, <1>10, <1>11 DEF Placed
<1> DEFINE r == add_child(Grown(f, type, name, d), d, Len(f.node) + 1)
<1>13. r = [fs |-> g, rc |-> code]
  BY <1>7, Zenon DEF h
<1>14. r.rc = code /\ r.fs = g
  <2> HIDE DEF r
  <2> QED BY <1>13
<1> HIDE DEF new
<1>15. /\ r.rc \in {0, 1} /\ Placed(f, type, name, d, r.fs)
       /\ r.rc = 0 => r.fs.node[d].children = f.node[d].children
  <2> HIDE DEF r
  <2> QED BY <1>7, <1>9, <1>12, <1>14
<1> QED BY <1>15, Zenon

\* The last component of a path is a name.
LEMMA NameOfType ==
  ASSUME NEW p \in Path
  PROVE  NameOf(p) \in STRING
<1>1. p.comps \in Seq(STRING)
  BY DEF Path
<1>2. CASE p.slash
  <2>1. NameOf(p) = "/"
    BY <1>2, Zenon DEF NameOf
  <2> QED BY <2>1, NamesAssumption
<1>3. CASE ~p.slash /\ p.comps = <<>>
  <2>1. NameOf(p) = ""
    BY <1>3, Zenon DEF NameOf
  <2> QED BY <2>1, NamesAssumption
<1>4. CASE ~p.slash /\ p.comps # <<>>
  <2>1. Last(p.comps) \in STRING
    BY <1>1, <1>4 DEF Last
  <2> QED BY <1>4, <2>1 DEF NameOf
<1> QED BY <1>2, <1>3, <1>4

\* A path without its last component is a path.
LEMMA FrontPath ==
  ASSUME NEW p \in Path, p.comps # <<>>
  PROVE  [p EXCEPT !.comps = Front(@)] \in Path
<1>1. p.comps \in Seq(STRING)
  BY DEF Path
<1>2. Len(p.comps) \in Nat /\ Len(p.comps) # 0
  BY <1>1
<1>3. Front(p.comps) \in Seq(STRING)
  BY <1>1, <1>2 DEF Front
<1> QED BY <1>3 DEF Path

\* vfs_resolve_parent leads to a node or nowhere.
LEMMA ResolveParentType ==
  ASSUME NEW f, FsOK(f), NEW dir \in Nodes(f), NEW p \in Path
  PROVE  vfs_resolve_parent(f, dir, p) \in Nodes(f) \union {NULL}
<1> DEFINE q == IF p.slash \/ p.comps = <<>> THEN p ELSE [p EXCEPT !.comps = Front(@)]
<1>1. q \in Path
  <2>1. CASE p.comps = <<>>
    BY <2>1
  <2>2. CASE p.comps # <<>>
    <3>1. [p EXCEPT !.comps = Front(@)] \in Path
      BY <2>2, FrontPath
    <3> QED BY <2>2, <3>1, Zenon
  <2> QED BY <2>1, <2>2
<1>2. vfs_resolve_parent(f, dir, p) = vfs_resolve(f, dir, q)
  BY DEF vfs_resolve_parent
<1> HIDE DEF q
<1> QED BY <1>1, <1>2, ResolveType

\* vfs_mkfile and vfs_mkdir: nothing happens, or a node of that name is made in a
\* directory that had none, and listed there unless the operation fails.
LEMMA CreateIs ==
  ASSUME NEW f, FsOK(f), NEW dir \in Nodes(f), NEW p \in Path,
         NEW type \in {"file", "dir"}
  PROVE  LET d == vfs_resolve_parent(f, dir, p)
             r == Create(f, dir, p, type)
         IN  \/ r = [fs |-> f, rc |-> 0]
             \/ /\ IsDir(f, d) /\ child_of(f, d, NameOf(p)) = NULL
                /\ r.rc \in {0, 1} /\ Placed(f, type, NameOf(p), d, r.fs)
                /\ r.rc = 0 => r.fs.node[d].children = f.node[d].children
<1> DEFINE d    == vfs_resolve_parent(f, dir, p)
           name == NameOf(p)
           made == make_node(f, type, name, d)
<1>1. d \in Nodes(f) \union {NULL} /\ name \in STRING
  BY NameOfType, ResolveParentType
<1> DEFINE stop == \/ ~IsDir(f, d) \/ name = "" \/ child_of(f, d, name) # NULL
                   \/ made.rc = NULL
<1>2. CASE stop
  <2>1. Create(f, dir, p, type) = [fs |-> f, rc |-> 0]
    BY <1>2 DEF Create
  <2> QED BY <2>1
<1>3. CASE ~stop
  <2>1. Create(f, dir, p, type) = add_child(made.fs, d, made.rc)
    BY <1>3 DEF Create
  <2>2. IsDir(f, d) /\ child_of(f, d, name) = NULL /\ made.rc # NULL
    BY <1>3
  <2> HIDE DEF d, name
  <2>3. Fresh(f, d, name)
    BY <1>1, <2>2, ChildOf DEF Fresh
  <2>4. made = IF Room(f, NodeSize)
               THEN [fs |-> Grown(f, type, name, d), rc |-> Len(f.node) + 1]
               ELSE [fs |-> f, rc |-> NULL]
    BY <1>1, <2>2, MakeNode
  <2> HIDE DEF made
  <2>5. Room(f, NodeSize)
    BY <2>2, <2>4
  <2>6. made.fs = Grown(f, type, name, d) /\ made.rc = Len(f.node) + 1
    BY <2>4, <2>5
  <2> DEFINE r == add_child(Grown(f, type, name, d), d, Len(f.node) + 1)
  <2>7. /\ r.rc \in {0, 1} /\ Placed(f, type, name, d, r.fs)
        /\ r.rc = 0 => r.fs.node[d].children = f.node[d].children
    BY <1>1, <2>2, <2>3, <2>5, Place
  <2>8. Create(f, dir, p, type) = r
    BY <2>1, <2>6
  <2> HIDE DEF r
  <2> QED BY <2>2, <2>7, <2>8 DEF d, name
<1> QED BY <1>2, <1>3

\* vfs_mkdir and vfs_mkfile keep the file system well formed.
LEMMA CreateKeeps ==
  ASSUME NEW f, FsOK(f), NEW dir \in Nodes(f), NEW p \in Path,
         NEW type \in {"file", "dir"}
  PROVE  Keeps(f, Create(f, dir, p, type).fs) /\ Create(f, dir, p, type).rc \in {0, 1}
<1> DEFINE r == Create(f, dir, p, type)
<1>1. CASE r = [fs |-> f, rc |-> 0]
  BY <1>1, KeepsItself
<1>2. CASE r # [fs |-> f, rc |-> 0]
  BY <1>2, CreateIs DEF Placed
<1> QED BY <1>1, <1>2

\* What mkdir_simple and mkfile_simple need of the directory, and leave.
LEMMA MakeInKeeps ==
  ASSUME NEW f, FsOK(f), NEW type \in {"file", "dir"}, NEW name \in STRING,
         NEW d, IsDir(f, d), Fresh(f, d, name)
  PROVE  LET made == MakeIn(f, type, name, d)
         IN  /\ Room(f, NodeSize) => /\ made.rc = Len(f.node) + 1
                                     /\ Placed(f, type, name, d, made.fs)
             /\ ~Room(f, NodeSize) => made = [fs |-> f, rc |-> NULL]
<1> DEFINE made == make_node(f, type, name, d)
<1>1. CASE ~Room(f, NodeSize)
  <2>1. made = [fs |-> f, rc |-> NULL]
    BY <1>1, MakeNode
  <2>2. MakeIn(f, type, name, d) = [fs |-> f, rc |-> NULL]
    BY <2>1 DEF MakeIn
  <2> QED BY <1>1, <2>2
<1>2. CASE Room(f, NodeSize)
  <2> DEFINE r == add_child(Grown(f, type, name, d), d, Len(f.node) + 1)
  <2>1. made = [fs |-> Grown(f, type, name, d), rc |-> Len(f.node) + 1]
    BY <1>2, MakeNode
  <2>2. Len(f.node) + 1 # NULL
    BY FsFacts DEF FsOK, NULL
  <2>3. Placed(f, type, name, d, r.fs)
    BY <1>2, Place
  <2>4. MakeIn(f, type, name, d) = [fs |-> r.fs, rc |-> Len(f.node) + 1]
    BY <2>1, <2>2 DEF MakeIn
  <2> HIDE DEF r
  <2> QED BY <1>2, <2>3, <2>4
<1> QED BY <1>1, <1>2

\* vfs_rm keeps the file system well formed.
LEMMA RmKeeps ==
  ASSUME NEW f, FsOK(f), NEW dir \in Nodes(f), NEW p \in Path
  PROVE  Keeps(f, vfs_rm(f, dir, p).fs) /\ vfs_rm(f, dir, p).rc \in {0, 1}
<1> DEFINE n == vfs_resolve(f, dir, p)
<1>1. n \in Nodes(f) \union {NULL}
  BY ResolveType
<1>2. vfs_rm(f, dir, p) = [fs |-> f, rc |-> 0] \/ vfs_rm(f, dir, p) = vfs_unlink_node(f, n)
  BY DEF vfs_rm
<1> HIDE DEF n
<1>3. /\ Keeps(f, vfs_unlink_node(f, n).fs)
      /\ vfs_unlink_node(f, n).rc \in {0, 1}
  <2>1. PICK g, code : code \in {0, 1} /\ vfs_unlink_node(f, n) = [fs |-> g, rc |-> code]
    BY <1>1, UnlinkKeeps
  <2> QED BY <1>1, <2>1, UnlinkKeeps DEF Relisted
<1> QED BY <1>2, <1>3, KeepsItself

-----------------------------------------------------------------------------
(* Going up.                                                               *)

\* The functions on nodes that are a at the root and follow the step st down.
Downs(f, D, a, st) ==
  {g \in [Nodes(f) -> D] :
     /\ g[vfs_root] = a
     /\ \A n \in Nodes(f) \ {vfs_root} : g[n] = st[<<g[f.node[n].parent], n>>]}

\* There is one: parents are older.
LEMMA Upwards ==
  ASSUME NEW f, FsOK(f), NEW D, NEW a \in D, NEW st \in [D \X Nodes(f) -> D]
  PROVE  Downs(f, D, a, st) # {}
<1> DEFINE L == Len(f.node)
           Right(g, n) == g[n] = IF n = vfs_root THEN a
                                 ELSE st[<<g[f.node[n].parent], n>>]
           T == {k \in 0..L : \E g \in [Nodes(f) -> D] : \A n \in 1..k : Right(g, n)}
<1>1. L \in Nat /\ Nodes(f) = 1..L
  BY FsFacts DEF FsOK, Nodes
<1>2. \A n \in Nodes(f) : /\ f.node[n].parent \in Nodes(f)
                          /\ n # vfs_root => f.node[n].parent < n
  BY DEF FsOK, TreeOK, ParentsOK, IsDir
<1>3. \A x \in D, n \in Nodes(f) : st[<<x, n>>] \in D
  OBVIOUS
<1>4. 0 \in T
  <2> DEFINE g == [n \in Nodes(f) |-> a]
  <2>1. g \in [Nodes(f) -> D] /\ 0 \in 0..L
    BY <1>1
  <2>2. \A n \in 1..0 : Right(g, n)
    OBVIOUS
  <2> HIDE DEF Right, g
  <2> QED BY <2>1, <2>2
<1>5. ASSUME NEW k \in 1..L, k - 1 \in T PROVE k \in T
  <2>1. PICK g \in [Nodes(f) -> D] : \A n \in 1..(k-1) : Right(g, n)
    BY <1>5
  <2> DEFINE new == IF k = vfs_root THEN a ELSE st[<<g[f.node[k].parent], k>>]
             h == [g EXCEPT ![k] = new]
  <2>2. k \in Nodes(f)
    BY <1>1
  <2>3. new \in D
    BY <1>2, <1>3, <2>2
  <2> HIDE DEF new
  <2>4. /\ h \in [Nodes(f) -> D] /\ h[k] = new
        /\ \A n \in Nodes(f) : n # k => h[n] = g[n]
    BY <2>2, <2>3
  <2> HIDE DEF h
  <2>5. ASSUME NEW n \in 1..k PROVE Right(h, n)
    <3>1. n \in Nodes(f) /\ n \in Nat /\ k \in Nat
      BY <1>1
    <3>2. n # vfs_root => h[f.node[n].parent] = g[f.node[n].parent]
      BY <1>1, <1>2, <2>4, <3>1
    <3>3. CASE n = k
      BY <2>4, <3>2, <3>3 DEF new
    <3>4. CASE n # k
      <4>1. n \in 1..(k-1)
        BY <3>1, <3>4
      <4>2. Right(g, n) /\ h[n] = g[n]
        BY <2>1, <2>4, <3>1, <3>4, <4>1
      <4> QED BY <3>2, <4>2
    <3> QED BY <3>3, <3>4
  <2>6. k \in 0..L
    BY <1>1
  <2> HIDE DEF Right
  <2> QED BY <2>4, <2>5, <2>6
<1>6. L \in T
  <2> HIDE DEF T, L
  <2>1. 0..L \subseteq T
    BY <1>1, <1>4, <1>5, InductTo
  <2> QED BY <1>1, <2>1
<1>7. PICK g \in [Nodes(f) -> D] : \A n \in Nodes(f) : Right(g, n)
  BY <1>1, <1>6
<1>8. vfs_root \in Nodes(f)
  BY DEF FsOK, TreeOK, IsDir
<1> QED BY <1>7, <1>8 DEF Downs

\* What holds of the root, and of every other node if it holds of the parent,
\* holds of all nodes.
LEMMA UpInduct ==
  ASSUME NEW f, FsOK(f), NEW S, vfs_root \in S,
         \A n \in Nodes(f) \ {vfs_root} : f.node[n].parent \in S => n \in S
  PROVE  Nodes(f) \subseteq S
<1> DEFINE L == Len(f.node)
           T == {k \in 0..L : \A n \in 1..k : n \in S}
<1>1. L \in Nat /\ Nodes(f) = 1..L
  BY FsFacts DEF FsOK, Nodes
<1>2. \A n \in Nodes(f) : /\ f.node[n].parent \in Nodes(f)
                          /\ n # vfs_root => f.node[n].parent < n
  BY DEF FsOK, TreeOK, ParentsOK, IsDir
<1>3. 0 \in T
  BY <1>1
<1>4. ASSUME NEW k \in 1..L, k - 1 \in T PROVE k \in T
  <2>1. k \in Nodes(f) /\ k \in 0..L
    BY <1>1
  <2>2. \A n \in 1..(k-1) : n \in S
    BY <1>4
  <2>3. k \in S
    <3>1. CASE k = vfs_root
      BY <3>1
    <3>2. CASE k # vfs_root
      <4>1. f.node[k].parent \in 1..(k-1)
        BY <1>1, <1>2, <2>1, <3>2
      <4> QED BY <2>1, <2>2, <3>2, <4>1
    <3> QED BY <3>1, <3>2
  <2>4. \A n \in 1..k : n \in 1..(k-1) \/ n = k
    BY <1>1
  <2> QED BY <2>1, <2>2, <2>3, <2>4
<1>5. L \in T
  <2> HIDE DEF T, L
  <2>1. 0..L \subseteq T
    BY <1>1, <1>3, <1>4, InductTo
  <2> QED BY <1>1, <2>1
<1> QED BY <1>1, <1>5

\* vfs_update_pwd goes up by the parent pointers and comes to an end: the path
\* of a node is that of its parent and its name.
LEMMA PwdOfIs ==
  ASSUME NEW f, FsOK(f)
  PROVE  /\ PwdOf(f, vfs_root) = <<>>
         /\ \A n \in Nodes(f) : PwdOf(f, n) \in Seq(STRING)
         /\ \A n \in Nodes(f) \ {vfs_root} :
              PwdOf(f, n) = Append(PwdOf(f, f.node[n].parent), f.node[n].name)
<1> DEFINE Names == Seq(STRING)
           up == CHOOSE g : g = [n \in Nodes(f) |->
                   IF n = vfs_root THEN <<>>
                                   ELSE Append(g[f.node[n].parent], f.node[n].name)]
           st == [x \in Names \X Nodes(f) |-> Append(x[1], f.node[x[2]].name)]
<1>1. \A n \in Nodes(f) : /\ f.node[n].name \in STRING
                          /\ f.node[n].parent \in Nodes(f)
  <2>1. \A n \in Nodes(f) : f.node[n] \in VNode
    BY FsFacts DEF FsOK
  <2> QED BY <2>1 DEF FsOK, TreeOK, ParentsOK, IsDir, VNode
<1>2. vfs_root \in Nodes(f)
  BY DEF FsOK, TreeOK, IsDir
<1>3. <<>> \in Names /\ \A s \in Names, x \in STRING : Append(s, x) \in Names
  <2>1. ASSUME NEW S, NEW s \in Seq(S), NEW x \in S PROVE Append(s, x) \in Seq(S)
    OBVIOUS
  <2>2. \A s \in Seq(STRING), x \in STRING : Append(s, x) \in Seq(STRING)
    BY <2>1
  <2>3. <<>> \in Seq(STRING)
    OBVIOUS
  <2> QED BY <2>2, <2>3
<1> HIDE DEF Names
<1>4. st \in [Names \X Nodes(f) -> Names]
  BY <1>1, <1>3
<1>5. PICK g \in [Nodes(f) -> Names] :
        /\ g[vfs_root] = <<>>
        /\ \A n \in Nodes(f) \ {vfs_root} : g[n] = st[<<g[f.node[n].parent], n>>]
  <2> DEFINE a == <<>>
  <2>1. a \in Names
    BY <1>3
  <2> HIDE DEF st, a
  <2>2. Downs(f, Names, a, st) # {}
    BY <1>4, <2>1, Upwards
  <2> QED BY <2>2 DEF Downs, a
<1>6. \A n \in Nodes(f) \ {vfs_root} :
        g[n] = Append(g[f.node[n].parent], f.node[n].name)
  <2> SUFFICES ASSUME NEW n \in Nodes(f) \ {vfs_root}
               PROVE  g[n] = Append(g[f.node[n].parent], f.node[n].name)
    OBVIOUS
  <2>1. <<g[f.node[n].parent], n>> \in Names \X Nodes(f)
    BY <1>1
  <2> QED BY <1>5, <2>1
<1>7. g = [n \in Nodes(f) |->
             IF n = vfs_root THEN <<>>
                             ELSE Append(g[f.node[n].parent], f.node[n].name)]
  BY <1>5, <1>6
<1>8. up = [n \in Nodes(f) |->
              IF n = vfs_root THEN <<>>
                              ELSE Append(up[f.node[n].parent], f.node[n].name)]
  BY <1>7
<1> HIDE DEF up, st
<1>9. /\ up[vfs_root] = <<>>
      /\ \A n \in Nodes(f) \ {vfs_root} :
           up[n] = Append(up[f.node[n].parent], f.node[n].name)
  BY <1>2, <1>8
<1>10. \A n : PwdOf(f, n) = up[n]
  BY DEF PwdOf, up
<1> DEFINE S == {n \in Nodes(f) : up[n] \in Names}
<1>11. Nodes(f) \subseteq S
  <2>1. vfs_root \in S
    BY <1>2, <1>3, <1>9
  <2>2. \A n \in Nodes(f) \ {vfs_root} : f.node[n].parent \in S => n \in S
    BY <1>1, <1>3, <1>9
  <2> HIDE DEF S
  <2> QED BY <2>1, <2>2, UpInduct
<1> QED BY <1>9, <1>10, <1>11 DEF Names

\* What is below a node.
LEMMA SubtreeIs ==
  ASSUME NEW f, FsOK(f), NEW n \in Nodes(f)
  PROVE  /\ Subtree(f, n) \subseteq Nodes(f)
         /\ \A m \in Nodes(f) :
              m \in Subtree(f, n) <=>
                \/ m = n
                \/ /\ m > n /\ m \in Children(f, f.node[m].parent)
                   /\ f.node[m].parent \in Subtree(f, n)
<1> DEFINE In(m, b) == m = n \/ (m > n /\ m \in Children(f, f.node[m].parent) /\ b)
           under == CHOOSE u : u = [m \in Nodes(f) |->
                      m = n \/ LET p == f.node[m].parent
                               IN  m > n /\ m \in Children(f, p) /\ u[p]]
           st == [x \in BOOLEAN \X Nodes(f) |-> In(x[2], x[1])]
<1>1. vfs_root \in Nodes(f) /\ \A m \in Nodes(f) : f.node[m].parent \in Nodes(f)
  BY DEF FsOK, TreeOK, ParentsOK, IsDir
<1>2. vfs_root \notin Children(f, f.node[vfs_root].parent)
  <2> DEFINE d == f.node[vfs_root].parent
             s == f.node[d].children
  <2>1. Lists(f, d, s)
    BY <1>1, ListsAreOK
  <2> HIDE DEF s, d
  <2>2. vfs_root \notin ToSet(s)
    BY <2>1 DEF Lists, ToSet
  <2> QED BY <2>2 DEF Children, s, d
<1> HIDE DEF In
<1>3. \A m, b : In(m, b) \in BOOLEAN
  BY DEF In
<1>4. st \in [BOOLEAN \X Nodes(f) -> BOOLEAN]
  BY <1>3
<1>5. PICK g \in [Nodes(f) -> BOOLEAN] :
        /\ g[vfs_root] = In(vfs_root, FALSE)
        /\ \A m \in Nodes(f) \ {vfs_root} : g[m] = st[<<g[f.node[m].parent], m>>]
  <2> DEFINE a == In(vfs_root, FALSE)
  <2>1. a \in BOOLEAN
    BY <1>3
  <2> HIDE DEF st, under, a
  <2>2. Downs(f, BOOLEAN, a, st) # {}
    BY <1>4, <2>1, Upwards
  <2> QED BY <2>2, Zenon DEF Downs, a
<1>6. \A m \in Nodes(f) : g[m] = In(m, g[f.node[m].parent])
  <2> SUFFICES ASSUME NEW m \in Nodes(f) PROVE g[m] = In(m, g[f.node[m].parent])
    OBVIOUS
  <2>1. CASE m = vfs_root
    BY <1>2, <1>5, <2>1, Zenon DEF In
  <2>2. CASE m # vfs_root
    <3>1. <<g[f.node[m].parent], m>> \in BOOLEAN \X Nodes(f)
      BY <1>1
    <3> QED BY <1>5, <2>2, <3>1
  <2> QED BY <2>1, <2>2
<1>7. g = [m \in Nodes(f) |-> In(m, g[f.node[m].parent])]
  BY <1>6
<1>8. under = [m \in Nodes(f) |-> In(m, under[f.node[m].parent])]
  BY <1>7 DEF In
<1>9. Subtree(f, n) = {m \in Nodes(f) : under[m]}
  BY DEF Subtree
<1> HIDE DEF under, st
<1>10. \A m \in Nodes(f) : m \in Subtree(f, n) <=> In(m, under[f.node[m].parent])
  BY <1>8, <1>9, Zenon
<1>11. \A m \in Nodes(f) :
         In(m, under[f.node[m].parent]) <=> In(m, f.node[m].parent \in Subtree(f, n))
  BY <1>1, <1>9, Zenon DEF In
<1> QED BY <1>9, <1>10, <1>11, Zenon DEF In

\* A node is in the tree if its parent lists it and is in the tree.
LEMMA LinkedIs ==
  ASSUME NEW f, FsOK(f)
  PROVE  /\ Linked(f) \subseteq Nodes(f) /\ vfs_root \in Linked(f)
         /\ \A m \in Nodes(f) \ {vfs_root} :
              m \in Linked(f) <=> /\ m \in Children(f, f.node[m].parent)
                                  /\ f.node[m].parent \in Linked(f)
<1>1. vfs_root \in Nodes(f)
  BY DEF FsOK, TreeOK, IsDir
<1>2. \A m \in Nodes(f) \ {vfs_root} : m > vfs_root
  BY DEF Nodes, vfs_root
<1> QED BY <1>1, <1>2, SubtreeIs DEF Linked

-----------------------------------------------------------------------------
(* Names on the way up.                                                    *)

\* What vfs_resolve takes for something other than the name of a child.
Special == {".", "..", "~"}

\* No name on the way up from n is one of these.
Plain(f, n) == Special \cap ToSet(PwdOf(f, n)) = {}

\* Appending adds one element.
LEMMA ToSetAppend ==
  ASSUME NEW S, NEW s \in Seq(S), NEW x \in S
  PROVE  ToSet(Append(s, x)) = ToSet(s) \union {x}
<1> DEFINE t == Append(s, x)
<1>1. /\ Len(s) \in Nat /\ t \in Seq(S) /\ Len(t) = Len(s) + 1 /\ t[Len(s) + 1] = x
      /\ \A i \in 1..Len(s) : t[i] = s[i]
  OBVIOUS
<1>2. DOMAIN s = 1..Len(s) /\ DOMAIN t = 1..Len(t)
  OBVIOUS
<1>3. 1..(Len(s) + 1) = (1..Len(s)) \union {Len(s) + 1}
  BY <1>1
<1> HIDE DEF t
<1>4. ToSet(t) = ToSet(s) \union {x}
  BY <1>1, <1>2, <1>3 DEF ToSet
<1> QED BY <1>4 DEF t

\* The names on the way up are those from the parent and the node's own.
LEMMA PlainIs ==
  ASSUME NEW f, FsOK(f)
  PROVE  /\ Plain(f, vfs_root)
         /\ \A n \in Nodes(f) \ {vfs_root} :
              Plain(f, n) <=> Plain(f, f.node[n].parent) /\ f.node[n].name \notin Special
<1>1. PwdOf(f, vfs_root) = <<>> /\ ToSet(<<>>) = {}
  BY PwdOfIs DEF ToSet
<1>2. ASSUME NEW n \in Nodes(f) \ {vfs_root}
      PROVE  Plain(f, n) <=> Plain(f, f.node[n].parent) /\ f.node[n].name \notin Special
  <2>1. f.node[n].parent \in Nodes(f) /\ f.node[n].name \in STRING
    <3>1. f.node[n] \in VNode
      BY FsFacts DEF FsOK
    <3> QED BY <3>1 DEF FsOK, TreeOK, ParentsOK, IsDir, VNode
  <2>2. /\ PwdOf(f, n) = Append(PwdOf(f, f.node[n].parent), f.node[n].name)
        /\ PwdOf(f, f.node[n].parent) \in Seq(STRING)
    BY <2>1, PwdOfIs
  <2>3. ToSet(PwdOf(f, n)) = ToSet(PwdOf(f, f.node[n].parent)) \union {f.node[n].name}
    BY <2>1, <2>2, ToSetAppend
  <2> QED BY <2>3, Zenon DEF Plain
<1> QED BY <1>1, <1>2 DEF Plain

\* A path of plain names leads down by them.
LEMMA PathResolves ==
  ASSUME NEW f, FsOK(f), NEW dir \in Nodes(f), NEW n \in Linked(f), Plain(f, n)
  PROVE  vfs_resolve(f, dir, AbsPath(PwdOf(f, n))) = n
<1> DEFINE Leads(m) == vfs_resolve(f, dir, AbsPath(PwdOf(f, m))) = m
           S == {m \in Nodes(f) : m \in Linked(f) /\ Plain(f, m) => Leads(m)}
<1>1. ASSUME NEW s \in Seq(STRING)
      PROVE  /\ AbsPath(s) \in Path /\ AbsPath(s).abs = TRUE /\ AbsPath(s).comps = s
  <2> DEFINE b == s = <<>>
  <2>1. b \in BOOLEAN
    OBVIOUS
  <2>2. AbsPath(s) = [abs |-> TRUE, comps |-> s, slash |-> b]
    BY DEF AbsPath
  <2> HIDE DEF b
  <2> QED BY <2>1, <2>2 DEF Path
<1>2. vfs_root \in S
  <2>1. PwdOf(f, vfs_root) \in Seq(STRING) /\ PwdOf(f, vfs_root) = <<>>
    BY PwdOfIs DEF FsOK, TreeOK, IsDir
  <2> DEFINE p == AbsPath(PwdOf(f, vfs_root))
  <2>2. vfs_resolve(f, dir, p) = vfs_root
    <3>1. p \in Path /\ p.abs = TRUE /\ p.comps = <<>>
      BY <1>1, <2>1
    <3> HIDE DEF p
    <3>2. vfs_resolve(f, dir, p) = IF p.abs THEN vfs_root ELSE dir
      BY <3>1, ResolveEmpty
    <3> QED BY <3>1, <3>2
  <2> QED BY <2>2 DEF FsOK, TreeOK, IsDir
<1>3. ASSUME NEW m \in Nodes(f) \ {vfs_root}, f.node[m].parent \in S PROVE m \in S
  <2> DEFINE d == f.node[m].parent
  <2> SUFFICES ASSUME m \in Linked(f), Plain(f, m) PROVE Leads(m)
    OBVIOUS
  <2>1. IsDir(f, d) /\ d \in Nodes(f)
    BY DEF FsOK, TreeOK, ParentsOK, IsDir
  <2>2. m \in Children(f, d) /\ d \in Linked(f)
    BY LinkedIs
  <2>3. Plain(f, d) /\ f.node[m].name \notin Special
    BY PlainIs
  <2>4. Leads(d)
    BY <1>3, <2>2, <2>3
  <2>5. /\ PwdOf(f, d) \in Seq(STRING) /\ PwdOf(f, m) \in Seq(STRING)
        /\ PwdOf(f, m) = Append(PwdOf(f, d), f.node[m].name)
    BY <2>1, PwdOfIs
  <2> HIDE DEF d
  <2> DEFINE q == AbsPath(PwdOf(f, d))
             p == AbsPath(PwdOf(f, m))
  <2>6. vfs_resolve(f, dir, p) = StepInto(f, d, f.node[m].name)
    <3>1. /\ q \in Path /\ q.abs = TRUE /\ q.comps = PwdOf(f, d)
          /\ p \in Path /\ p.abs = TRUE /\ p.comps = PwdOf(f, m)
      BY <1>1, <2>5
    <3>2. vfs_resolve(f, dir, q) = d
      BY <2>4
    <3> HIDE DEF p, q
    <3>3. p.comps = Append(q.comps, f.node[m].name) /\ p.abs = q.abs
      BY <2>5, <3>1
    <3> QED BY <3>1, <3>2, <3>3, ResolveLast
  <2>7. d # NULL
    BY <2>1 DEF Nodes, NULL
  <2>8. StepInto(f, d, f.node[m].name) = child_of(f, d, f.node[m].name)
    BY <2>3, <2>7 DEF StepInto, Special
  <2> QED BY <2>1, <2>2, <2>6, <2>8, ChildOfListed
<1>4. n \in S
  <2> HIDE DEF S
  <2>1. Nodes(f) \subseteq S
    BY <1>2, <1>3, UpInduct
  <2> QED BY <2>1, LinkedIs
<1> QED BY <1>4

\* What vfs_resolve reaches from a directory of plain names has a plain name.
LEMMA StepPlain ==
  ASSUME NEW f, FsOK(f), NEW cur \in Nodes(f) \union {NULL}, NEW name,
         cur # NULL => Plain(f, cur), StepInto(f, cur, name) # NULL
  PROVE  Plain(f, StepInto(f, cur, name))
<1>1. cur # NULL /\ cur \in Nodes(f) /\ Plain(f, cur)
  BY DEF StepInto
<1>2. CASE name = "."
  BY <1>1, <1>2 DEF StepInto
<1>3. CASE name = ".."
  <2>1. StepInto(f, cur, name) = f.node[cur].parent
    BY <1>1, <1>3 DEF StepInto
  <2>2. cur = vfs_root => f.node[cur].parent = vfs_root
    BY <1>1 DEF FsOK, TreeOK, ParentsOK
  <2> QED BY <1>1, <2>1, <2>2, PlainIs
<1>4. ASSUME NEW d \in Nodes(f), Plain(f, d), NEW x, x \notin Special,
             child_of(f, d, x) # NULL
      PROVE  Plain(f, child_of(f, d, x))
  <2> DEFINE m == child_of(f, d, x)
             s == f.node[d].children
  <2>1. m \in Nodes(f) /\ m \in ToSet(s) /\ f.node[m].name = x
    BY <1>4, ChildOf DEF Children
  <2>2. Lists(f, d, s)
    BY ListsAreOK
  <2> HIDE DEF m, s
  <2>3. m # vfs_root /\ f.node[m].parent = d
    BY <2>1, <2>2 DEF Lists, ToSet
  <2> QED BY <1>4, <2>1, <2>3, PlainIs DEF m
<1>5. CASE name = "~"
  <2> DEFINE x == "root"
  <2>1. StepInto(f, cur, name) = child_of(f, vfs_root, x)
    BY <1>1, <1>5 DEF StepInto
  <2>2. x \notin Special
    BY DEF Special
  <2>3. Plain(f, vfs_root) /\ vfs_root \in Nodes(f)
    BY PlainIs DEF FsOK, TreeOK, IsDir
  <2> HIDE DEF x
  <2> QED BY <1>4, <2>1, <2>2, <2>3
<1>6. CASE name \notin Special
  <2>1. StepInto(f, cur, name) = child_of(f, cur, name)
    BY <1>1, <1>6 DEF StepInto, Special
  <2> QED BY <1>1, <1>4, <1>6, <2>1
<1> QED BY <1>2, <1>3, <1>5, <1>6 DEF Special

\* What vfs_resolve finds from a plain directory is plain.
LEMMA ResolvePlain ==
  ASSUME NEW f, FsOK(f), NEW dir \in Nodes(f), Plain(f, dir), NEW p \in Path,
         vfs_resolve(f, dir, p) # NULL
  PROVE  Plain(f, vfs_resolve(f, dir, p))
<1> DEFINE L == Len(p.comps)
<1>1. PICK w : Walk(f, dir, p, w) /\ vfs_resolve(f, dir, p) = w[L]
  BY ResolveWalks
<1>2. L \in Nat
  BY DEF Path
<1> HIDE DEF L
<1> DEFINE T == {i \in 0..L : w[i] # NULL => Plain(f, w[i])}
<1>3. 0 \in T
  BY <1>1, <1>2, PlainIs DEF Walk
<1>4. ASSUME NEW i \in 1..L, i - 1 \in T PROVE i \in T
  <2>1. i \in 0..L /\ i - 1 \in 0..L
    BY <1>2
  <2>2. w[i-1] \in Nodes(f) \union {NULL} /\ w[i] = StepInto(f, w[i-1], p.comps[i])
    BY <1>1, <2>1 DEF Walk, L
  <2>3. w[i-1] # NULL => Plain(f, w[i-1])
    BY <1>4
  <2> QED BY <2>1, <2>2, <2>3, StepPlain
<1>5. L \in T
  <2> HIDE DEF T
  <2>1. 0..L \subseteq T
    BY <1>2, <1>3, <1>4, InductTo
  <2> QED BY <1>2, <2>1
<1> QED BY <1>1, <1>5

\* Nodes keep their names and parents, and with them their paths.
LEMMA PwdKept ==
  ASSUME NEW f, FsOK(f), NEW g, Keeps(f, g), NEW n \in Nodes(f)
  PROVE  PwdOf(g, n) = PwdOf(f, n)
<1> DEFINE S == {m \in Nodes(f) : PwdOf(g, m) = PwdOf(f, m)}
<1>1. FsOK(g) /\ Nodes(f) \subseteq Nodes(g)
  <2>1. Len(f.node) \in Nat /\ Len(g.node) \in Nat
    BY FsFacts DEF Keeps, FsOK
  <2> QED BY <2>1 DEF Keeps, Nodes
<1>2. vfs_root \in S
  BY <1>1, PwdOfIs DEF FsOK, TreeOK, IsDir
<1>3. ASSUME NEW m \in Nodes(f) \ {vfs_root}, f.node[m].parent \in S PROVE m \in S
  <2>1. PwdOf(f, m) = Append(PwdOf(f, f.node[m].parent), f.node[m].name)
    BY PwdOfIs
  <2>2. PwdOf(g, m) = Append(PwdOf(g, g.node[m].parent), g.node[m].name)
    BY <1>1, PwdOfIs
  <2>3. g.node[m].parent = f.node[m].parent /\ g.node[m].name = f.node[m].name
    BY DEF Keeps
  <2> QED BY <1>3, <2>1, <2>2, <2>3
<1>4. Nodes(f) \subseteq S
  <2> HIDE DEF S
  <2> QED BY <1>2, <1>3, UpInduct
<1> QED BY <1>4

-----------------------------------------------------------------------------
(* What an operation does to the lists of children and to the files.       *)

\* What new keeps of old stands as in old, and nothing else stands before it.
Order(old, new) ==
  \A i, j \in 1..Len(new) :
    i < j /\ new[j] \in ToSet(old)
      => \E a, b \in 1..Len(old) : a < b /\ old[a] = new[i] /\ old[b] = new[j]

\* g is f, with new nodes perhaps, without the nodes of R in the lists of their
\* parents and with another content of w.
Edits(f, g, R, w) ==
  /\ Keeps(f, g)
  /\ \A n \in Nodes(f) : n # w => g.node[n].data = f.node[n].data
  /\ \A d \in Nodes(f) : Children(g, d) \cap Nodes(f) = Children(f, d) \ R
  /\ \A d \in Nodes(f) : Order(f.node[d].children, g.node[d].children)

\* The list of a directory: its nodes, each once, each with it as parent.
LEMMA ChildrenAre ==
  ASSUME NEW f, FsOK(f), NEW d \in Nodes(f)
  PROVE  /\ f.node[d].children \in Seq(Nat)
         /\ Children(f, d) = {f.node[d].children[i] : i \in 1..Len(f.node[d].children)}
         /\ \A m \in Children(f, d) : /\ m \in Nodes(f) \ {vfs_root}
                                      /\ f.node[m].parent = d
         /\ \A i, j \in 1..Len(f.node[d].children) :
              f.node[d].children[i] = f.node[d].children[j] => i = j
<1> DEFINE s == f.node[d].children
<1>1. Lists(f, d, s)
  BY ListsAreOK
<1>2. Children(f, d) = ToSet(s)
  BY DEF Children
<1> HIDE DEF s
<1>3. s \in Seq(Nat)
  BY <1>1 DEF Lists
<1>4. ToSet(s) = {s[i] : i \in 1..Len(s)}
  BY <1>3 DEF ToSet
<1>5. \A m \in ToSet(s) : m \in Nodes(f) \ {vfs_root} /\ f.node[m].parent = d
  BY <1>1, <1>4 DEF Lists
<1>6. \A i, j \in 1..Len(s) : s[i] = s[j] => i = j
  BY <1>1 DEF Lists
<1> QED BY <1>2, <1>3, <1>4, <1>5, <1>6 DEF s

\* A file lists nothing.
LEMMA FilesListNothing ==
  ASSUME NEW f, FsOK(f), NEW n, IsFile(f, n)
  PROVE  Children(f, n) = {} /\ n # vfs_root
<1> DEFINE type == f.node[n].type
<1>1. n \in Nodes(f) /\ type = "file"
  BY DEF IsFile
<1>2. type # "dir"
  BY <1>1
<1>3. \A m \in Children(f, n) : IsDir(f, n)
  BY <1>1, ChildrenAre DEF FsOK, TreeOK, ParentsOK
<1> QED BY <1>2, <1>3 DEF FsOK, TreeOK, IsDir

\* A list has its own order.
LEMMA OrderItself ==
  ASSUME NEW s
  PROVE  Order(s, s)
BY DEF Order

\* Lists of children that stay.
LEMMA EditsSame ==
  ASSUME NEW f, FsOK(f), NEW g, Keeps(f, g), NEW w,
         \A n \in Nodes(f) : n # w => g.node[n].data = f.node[n].data,
         \A n \in Nodes(f) : g.node[n].children = f.node[n].children
  PROVE  Edits(f, g, {}, w)
<1>1. \A d \in Nodes(f) : Children(g, d) = Children(f, d) /\ Children(f, d) \subseteq Nodes(f)
  BY ChildrenAre DEF Children
<1>2. \A d \in Nodes(f) : Order(f.node[d].children, g.node[d].children)
  BY OrderItself
<1> QED BY <1>1, <1>2 DEF Edits

\* Doing nothing is an edit.
LEMMA EditsItself ==
  ASSUME NEW f, FsOK(f), NEW w
  PROVE  Edits(f, f, {}, w)
BY EditsSame, KeepsItself

\* Edits compose: what the two remove is removed.
LEMMA EditsTrans ==
  ASSUME NEW f, FsOK(f), NEW g, NEW h, NEW Q, NEW R, NEW w,
         Edits(f, g, Q, w), Edits(g, h, R, w)
  PROVE  Edits(f, h, Q \union R, w)
<1>1. FsOK(g) /\ Nodes(f) \subseteq Nodes(g) /\ FsOK(h) /\ Nodes(g) \subseteq Nodes(h)
  BY KeepsNodes DEF Edits
<1>2. Keeps(f, h)
  BY KeepsTrans DEF Edits
<1>3. \A n \in Nodes(f) : n # w => h.node[n].data = f.node[n].data
  BY <1>1 DEF Edits
<1>4. \A d \in Nodes(f) :
        /\ Children(g, d) \cap Nodes(f) = Children(f, d) \ Q
        /\ Children(h, d) \cap Nodes(g) = Children(g, d) \ R
  BY <1>1 DEF Edits
<1>5. \A d \in Nodes(f) : Children(h, d) \cap Nodes(f) = Children(f, d) \ (Q \union R)
  BY <1>1, <1>4
<1>6. ASSUME NEW d \in Nodes(f) PROVE Order(f.node[d].children, h.node[d].children)
  <2> DEFINE old == f.node[d].children
             mid == g.node[d].children
             new == h.node[d].children
  <2>1. Order(old, mid) /\ Order(mid, new)
    BY <1>1 DEF Edits
  <2>2. /\ old \in Seq(Nat) /\ ToSet(old) = Children(f, d) /\ ToSet(old) \subseteq Nodes(f)
        /\ mid \in Seq(Nat) /\ ToSet(mid) = Children(g, d)
        /\ new \in Seq(Nat) /\ ToSet(new) = Children(h, d)
    BY <1>1, ChildrenAre DEF Children
  <2>3. \A e \in ToSet(old) : e \in ToSet(new) => e \in ToSet(mid)
    <3> HIDE DEF old, mid, new
    <3> QED BY <1>1, <1>4, <2>2
  <2> HIDE DEF old, mid, new
  <2>4. SUFFICES ASSUME NEW i \in 1..Len(new), NEW j \in 1..Len(new),
                        i < j, new[j] \in ToSet(old)
                 PROVE  \E a, b \in 1..Len(old) :
                          a < b /\ old[a] = new[i] /\ old[b] = new[j]
    BY DEF Order, old, new
  <2>5. new[j] \in ToSet(new)
    BY <2>2 DEF ToSet
  <2>6. new[j] \in ToSet(mid)
    BY <2>3, <2>4, <2>5
  <2>7. PICK a, b \in 1..Len(mid) : a < b /\ mid[a] = new[i] /\ mid[b] = new[j]
    BY <2>1, <2>4, <2>6 DEF Order
  <2> QED BY <2>1, <2>4, <2>7 DEF Order
<1> QED BY <1>2, <1>3, <1>5, <1>6 DEF Edits

\* The removal of one element.
LEMMA OrderRemoveAt ==
  ASSUME NEW s \in Seq(Nat), NEW k \in 1..Len(s)
  PROVE  Order(s, RemoveAt(s, k))
<1> DEFINE t == RemoveAt(s, k)
           h(i) == IF i < k THEN i ELSE i + 1
<1>1. Len(s) \in Nat /\ Len(t) = Len(s) - 1 /\ \A i \in 1..Len(s)-1 : t[i] = s[h(i)]
  BY RemoveAtIs
<1> HIDE DEF t
<1>2. ASSUME NEW i \in 1..Len(t), NEW j \in 1..Len(t), i < j
      PROVE  \E a, b \in 1..Len(s) : a < b /\ s[a] = t[i] /\ s[b] = t[j]
  <2>1. h(i) \in 1..Len(s) /\ h(j) \in 1..Len(s) /\ h(i) < h(j)
    BY <1>1, <1>2
  <2>2. s[h(i)] = t[i] /\ s[h(j)] = t[j]
    BY <1>1
  <2> HIDE DEF h
  <2> QED BY <2>1, <2>2
<1> QED BY <1>2 DEF Order, t

\* vfs_unlink_node takes one node out of one list.
LEMMA EditsUnlinked ==
  ASSUME NEW f, FsOK(f), NEW g, NEW n, Unlinked(f, g, n), NEW w
  PROVE  Edits(f, g, {n}, w)
<1> DEFINE p == f.node[n].parent
           s == f.node[p].children
<1>1. n \in Nodes(f) /\ p \in Nodes(f)
  BY DEF Unlinked, FsOK, TreeOK, ParentsOK, IsDir
<1>2. PICK k \in 1..Len(s) : s[k] = n /\ g.node[p].children = RemoveAt(s, k)
  BY DEF Unlinked
<1>3. /\ s \in Seq(Nat) /\ Children(f, p) = {s[i] : i \in 1..Len(s)}
      /\ \A i, j \in 1..Len(s) : s[i] = s[j] => i = j
  BY <1>1, ChildrenAre
<1>4. Keeps(f, g) /\ FsOK(g) /\ Nodes(g) = Nodes(f)
  BY DEF Unlinked, Relisted, Keeps, Nodes
<1>5. \A m \in Nodes(f) : m # p => g.node[m].children = f.node[m].children
  BY DEF Unlinked
<1> DEFINE t == RemoveAt(s, k)
<1>6. Children(g, p) = Children(f, p) \ {n}
  <2>1. Children(g, p) = {t[i] : i \in 1..Len(t)}
    <3>1. g.node[p].children = t
      BY <1>2
    <3>2. Children(g, p) = {g.node[p].children[i] : i \in 1..Len(g.node[p].children)}
      <4> HIDE DEF p
      <4> QED BY <1>1, <1>4, ChildrenAre
    <3> HIDE DEF t, p
    <3> QED BY <3>1, <3>2
  <2> HIDE DEF s
  <2>2. Len(s) \in Nat /\ Len(t) = Len(s) - 1
        /\ \A i \in 1..Len(s)-1 : t[i] = s[IF i < k THEN i ELSE i + 1]
    BY <1>3, RemoveAtIs
  <2> HIDE DEF t
  <2>3. ASSUME NEW i \in 1..Len(t) PROVE \E j \in 1..Len(s) : j # k /\ t[i] = s[j]
    BY <2>2
  <2>4. ASSUME NEW j \in 1..Len(s), j # k PROVE \E i \in 1..Len(t) : t[i] = s[j]
    <3>1. CASE j < k
      BY <2>2, <2>4, <3>1
    <3>2. CASE j > k
      <4>1. j - 1 \in 1..Len(t) /\ ~(j - 1 < k) /\ (j - 1) + 1 = j
        BY <2>2, <3>2
      <4> QED BY <2>2, <4>1
    <3> QED BY <2>4, <3>1, <3>2
  <2> QED BY <1>2, <1>3, <2>1, <2>3, <2>4
<1>7. \A d \in Nodes(f) : Children(g, d) \cap Nodes(f) = Children(f, d) \ {n}
  <2> SUFFICES ASSUME NEW d \in Nodes(f)
               PROVE  Children(g, d) \cap Nodes(f) = Children(f, d) \ {n}
    OBVIOUS
  <2> HIDE DEF s, t
  <2>1. Children(f, d) \subseteq Nodes(f) /\ \A m \in Children(f, d) : f.node[m].parent = d
    BY ChildrenAre
  <2>2. CASE d = p
    BY <1>6, <2>1, <2>2
  <2>3. CASE d # p
    <3>1. Children(g, d) = Children(f, d)
      BY <1>5, <2>3 DEF Children
    <3>2. n \notin Children(f, d)
      BY <2>1, <2>3
    <3> QED BY <2>1, <3>1, <3>2
  <2> QED BY <2>2, <2>3
<1>8. \A d \in Nodes(f) : Order(f.node[d].children, g.node[d].children)
  <2>1. Order(s, t)
    <3> HIDE DEF s
    <3> QED BY <1>3, OrderRemoveAt
  <2> QED BY <1>2, <1>5, <2>1, OrderItself
<1> QED BY <1>4, <1>7, <1>8 DEF Edits, Unlinked, Relisted

\* Subtree is the least set that holds n and the children of its members.
LEMMA SubtreeCloses ==
  ASSUME NEW f, FsOK(f), NEW n \in Nodes(f)
  PROVE  /\ n \in Subtree(f, n) /\ Subtree(f, n) \subseteq Nodes(f)
         /\ \A d \in Subtree(f, n) : Children(f, d) \subseteq Subtree(f, n)
         /\ \A d \in Subtree(f, n) : n <= d
         /\ \A H : n \in H /\ (\A m \in H \cap Nodes(f) : Children(f, m) \subseteq H)
                     => Subtree(f, n) \subseteq H
<1>1. \A m \in Nodes(f) : /\ m \in Nat /\ f.node[m].parent \in Nodes(f)
                          /\ m # vfs_root => f.node[m].parent < m
  BY DEF FsOK, TreeOK, ParentsOK, IsDir, Nodes
<1>2. \A d \in Nodes(f) : d \in Subtree(f, n) => n <= d
  BY <1>1, SubtreeIs
<1>3. ASSUME NEW d \in Subtree(f, n), NEW m \in Children(f, d) PROVE m \in Subtree(f, n)
  <2>1. d \in Nodes(f)
    BY SubtreeIs
  <2>2. m \in Nodes(f) \ {vfs_root} /\ f.node[m].parent = d
    BY <2>1, ChildrenAre
  <2>3. d < m /\ n <= d /\ d \in Nat /\ m \in Nat /\ n \in Nat
    BY <1>1, <1>2, <2>1, <2>2
  <2>4. m > n
    BY <2>3
  <2> QED BY <2>2, <2>4, SubtreeIs
<1>4. ASSUME NEW H, n \in H, \A m \in H \cap Nodes(f) : Children(f, m) \subseteq H
      PROVE  Subtree(f, n) \subseteq H
  <2> DEFINE S == {m \in Nodes(f) : m \in Subtree(f, n) => m \in H}
  <2>1. vfs_root \in S
    <3>1. vfs_root \in Nodes(f)
      BY DEF FsOK, TreeOK, IsDir
    <3>2. ~(vfs_root > n)
      BY DEF Nodes, vfs_root
    <3> QED BY <1>4, <3>1, <3>2, SubtreeIs
  <2>2. ASSUME NEW m \in Nodes(f) \ {vfs_root}, f.node[m].parent \in S PROVE m \in S
    <3>1. CASE m \notin Subtree(f, n) \/ m = n
      BY <1>4, <3>1
    <3>2. CASE m \in Subtree(f, n) /\ m # n
      <4>1. m \in Children(f, f.node[m].parent) /\ f.node[m].parent \in Subtree(f, n)
        BY <3>2, SubtreeIs
      <4>2. f.node[m].parent \in H \cap Nodes(f)
        BY <2>2, <4>1
      <4> QED BY <1>4, <4>1, <4>2
    <3> QED BY <3>1, <3>2
  <2>3. Nodes(f) \subseteq S
    <3> HIDE DEF S
    <3> QED BY <2>1, <2>2, UpInduct
  <2> QED BY <2>3, SubtreeIs
<1> QED BY <1>2, <1>3, <1>4, SubtreeIs

-----------------------------------------------------------------------------
(* The loop of vfs_rm_recursive_node.                                      *)

\* The states of the loop.
LoopState == [fs : [node : Seq(VNode), used : Nat], calls : Seq(Nat), rc : {0, 1}]

\* Calls are under way, each for a child of the node of the call before it, and
\* the nodes of G have been unlinked, each after all below it.
Called(f, n, w, s, G) ==
  /\ s \in LoopState /\ Edits(f, s.fs, G, w) /\ Len(s.fs.node) = Len(f.node)
  /\ G \subseteq Subtree(f, n) /\ n \notin G
  /\ \A m \in G : Children(f, m) \subseteq G
  /\ Len(s.calls) >= 1 /\ s.calls[1] = n
  /\ \A i \in 1..Len(s.calls) : s.calls[i] \in Subtree(f, n) /\ i <= s.calls[i]
  /\ \A i \in 2..Len(s.calls) : s.calls[i] \in Children(s.fs, s.calls[i-1])
  /\ \A i, j \in 1..Len(s.calls) : i < j => s.calls[i] < s.calls[j]

\* The turns that the calls and removals so far have taken: one turn for a call
\* and one for its return.
Under(f, n, w, s, k) ==
  \E G : Called(f, n, w, s, G) /\ k + 1 = 2 * Cardinality(G) + Len(s.calls)

\* The first call has returned.
Returned(f, n, w, s) ==
  /\ s \in LoopState /\ s.calls = <<>>
  /\ Edits(f, s.fs, Subtree(f, n), w) /\ Len(s.fs.node) = Len(f.node)
  /\ s.rc = 0 => n \notin Children(f, f.node[n].parent)

\* What there is to say of a call under way.
LEMMA CalledParts ==
  ASSUME NEW f, FsOK(f), NEW n \in Nodes(f) \ {vfs_root}, NEW w, NEW s, NEW G,
         Called(f, n, w, s, G)
  PROVE  LET m == Last(s.calls)
             L == Len(s.calls)
         IN  /\ s = [fs |-> s.fs, calls |-> s.calls, rc |-> s.rc]
             /\ L \in Nat /\ s.calls \in Seq(Nat) /\ m = s.calls[L] /\ L <= m
             /\ FsOK(s.fs) /\ Nodes(s.fs) = Nodes(f)
             /\ m \in Nodes(f) \ {vfs_root} /\ m \in Subtree(f, n)
             /\ L > 1 => /\ m \in Children(s.fs, s.fs.node[m].parent)
                         /\ m \notin G /\ m # n
<1> DEFINE m == Last(s.calls)
           L == Len(s.calls)
<1>1. s = [fs |-> s.fs, calls |-> s.calls, rc |-> s.rc] /\ s.calls \in Seq(Nat)
  BY DEF Called, LoopState
<1>2. L \in Nat /\ L >= 1 /\ m = s.calls[L]
  BY <1>1 DEF Called, Last
<1>3. FsOK(s.fs) /\ Nodes(s.fs) = Nodes(f)
  BY DEF Called, Edits, Keeps, Nodes
<1> HIDE DEF m
<1>4. m \in Subtree(f, n) /\ L <= m
  BY <1>2 DEF Called
<1>5. m \in Nodes(f) \ {vfs_root}
  <2>1. vfs_root \notin Subtree(f, n)
    <3>1. ~(n <= vfs_root)
      BY DEF Nodes, vfs_root
    <3> QED BY <3>1, SubtreeCloses
  <2> QED BY <1>4, <2>1, SubtreeCloses
<1>6. ASSUME L > 1
      PROVE  m \in Children(s.fs, s.fs.node[m].parent) /\ m \notin G /\ m # n
  <2> DEFINE d == s.calls[L-1]
  <2>1. L - 1 \in 1..L /\ L \in 2..L /\ L \in 1..L /\ 1 \in 1..L /\ 1 < L
    BY <1>2, <1>6
  <2>2. m \in Children(s.fs, d) /\ d \in Subtree(f, n)
    BY <1>2, <2>1 DEF Called
  <2>3. n < m
    BY <1>2, <2>1 DEF Called
  <2> HIDE DEF d
  <2>4. d \in Nodes(f)
    BY <2>2, SubtreeCloses
  <2>5. s.fs.node[m].parent = d
    BY <1>3, <2>2, <2>4, ChildrenAre
  <2>6. m \notin G
    BY <1>5, <2>2, <2>4 DEF Called, Edits
  <2>7. m # n
    BY <1>5, <2>3 DEF Nodes
  <2> QED BY <2>2, <2>5, <2>6, <2>7
<1> QED BY <1>1, <1>2, <1>3, <1>4, <1>5, <1>6 DEF m

\* The nodes unlinked so far are finitely many.
LEMMA SubtreeFinite ==
  ASSUME NEW f, FsOK(f), NEW n \in Nodes(f) \ {vfs_root}, NEW w, NEW s, NEW G,
         Called(f, n, w, s, G)
  PROVE  /\ IsFiniteSet(G) /\ Cardinality(G) \in Nat
         /\ Cardinality(G) <= Len(f.node)
<1>1. Len(f.node) \in Nat
  BY FsFacts DEF FsOK
<1>2. G \in SUBSET (1..Len(f.node))
  BY SubtreeCloses DEF Called, Nodes
<1>3. IsFiniteSet(1..Len(f.node)) /\ Cardinality(1..Len(f.node)) = Len(f.node)
  <2>1. 1 \in Int /\ Len(f.node) \in Int
    BY <1>1
  <2>2. /\ IsFiniteSet(1..Len(f.node))
        /\ Cardinality(1..Len(f.node))
             = IF 1 > Len(f.node) THEN 0 ELSE Len(f.node) - 1 + 1
    BY <2>1, FS_Interval
  <2> QED BY <1>1, <2>2
<1>4. IsFiniteSet(G) /\ Cardinality(G) <= Cardinality(1..Len(f.node))
  BY <1>2, <1>3, FS_Subset
<1> QED BY <1>3, <1>4, FS_CardinalityType

\* A node that still lists something calls for the last it lists.
LEMMA TurnCalls ==
  ASSUME NEW f, FsOK(f), NEW n \in Nodes(f) \ {vfs_root}, NEW w, NEW s, NEW G,
         Called(f, n, w, s, G), s.fs.node[Last(s.calls)].children # <<>>
  PROVE  Called(f, n, w, RmTurn(s), G) /\ Len(RmTurn(s).calls) = Len(s.calls) + 1
<1> DEFINE m == Last(s.calls)
           L == Len(s.calls)
           c == Last(s.fs.node[m].children)
           t == Append(s.calls, c)
           g == s.fs
<1>1. /\ s = [fs |-> s.fs, calls |-> s.calls, rc |-> s.rc]
      /\ L \in Nat /\ s.calls \in Seq(Nat) /\ m = s.calls[L] /\ L <= m
      /\ FsOK(g) /\ Nodes(g) = Nodes(f)
      /\ m \in Nodes(f) \ {vfs_root} /\ m \in Subtree(f, n)
  BY CalledParts
<1>2. L >= 1 /\ s.calls # <<>> /\ m \notin {NULL, vfs_root}
  BY <1>1 DEF Called, Nodes, NULL
<1>3. RmTurn(s) = [s EXCEPT !.calls = t]
  BY <1>2, Zenon DEF RmTurn
<1> HIDE DEF m
<1>4. c \in Children(g, m) /\ c \in Nodes(f) \ {vfs_root} /\ m < c
  <2> DEFINE cs == g.node[m].children
  <2>1. /\ cs \in Seq(Nat) /\ Children(g, m) = {cs[i] : i \in 1..Len(cs)}
        /\ \A x \in Children(g, m) : x \in Nodes(g) \ {vfs_root} /\ g.node[x].parent = m
    <3>1. m \in Nodes(g) /\ FsOK(g)
      BY <1>1
    <3> HIDE DEF g
    <3> QED BY <3>1, ChildrenAre
  <2>2. cs # <<>> /\ c = Last(cs)
    BY DEF m
  <2> HIDE DEF cs, c
  <2>3. Len(cs) \in 1..Len(cs) /\ c = cs[Len(cs)]
    BY <2>1, <2>2 DEF Last
  <2>4. c \in Children(g, m)
    BY <2>1, <2>3
  <2>5. c \in Nodes(g) \ {vfs_root} /\ g.node[c].parent = m
    BY <2>1, <2>4
  <2> QED BY <1>1, <2>4, <2>5 DEF FsOK, TreeOK, ParentsOK
<1> HIDE DEF c
<1>5. c \in Subtree(f, n)
  <2>1. c \in Children(f, m)
    BY <1>1, <1>4 DEF Called, Edits
  <2> QED BY <1>1, <2>1, SubtreeCloses
<1>6. m \in Nat /\ c \in Nat
  BY <1>1, <1>4 DEF Nodes
<1>7. /\ t \in Seq(Nat) /\ Len(t) = L + 1 /\ t[L+1] = c
      /\ \A i \in 1..L : t[i] = s.calls[i]
  BY <1>1, <1>6
<1>8. /\ RmTurn(s) = [fs |-> s.fs, calls |-> t, rc |-> s.rc]
      /\ RmTurn(s).fs = s.fs /\ RmTurn(s).calls = t
  <2> HIDE DEF t
  <2>1. RmTurn(s) = [fs |-> s.fs, calls |-> t, rc |-> s.rc]
    BY <1>1, <1>3
  <2> QED BY <2>1
<1> HIDE DEF t
<1>9. RmTurn(s) \in LoopState
  BY <1>7, <1>8 DEF Called, LoopState
<1>10. \A i \in 1..L+1 : t[i] \in Subtree(f, n) /\ i <= t[i]
  <2> SUFFICES ASSUME NEW i \in 1..L+1 PROVE t[i] \in Subtree(f, n) /\ i <= t[i]
    OBVIOUS
  <2>1. CASE i \in 1..L
    BY <1>7, <2>1 DEF Called
  <2>2. CASE i \notin 1..L
    <3>1. i = L + 1
      BY <1>1, <2>2
    <3>2. L + 1 <= c
      BY <1>1, <1>4, <1>6
    <3> QED BY <1>5, <1>7, <3>1, <3>2
  <2> QED BY <2>1, <2>2
<1>11. \A i \in 2..L+1 : t[i] \in Children(s.fs, t[i-1])
  <2> SUFFICES ASSUME NEW i \in 2..L+1 PROVE t[i] \in Children(s.fs, t[i-1])
    OBVIOUS
  <2>1. i - 1 \in 1..L
    BY <1>1
  <2>2. t[i-1] = s.calls[i-1]
    BY <1>7, <2>1
  <2>3. CASE i \in 2..L
    <3>1. t[i] = s.calls[i]
      BY <1>7, <2>3
    <3> QED BY <2>2, <2>3, <3>1 DEF Called
  <2>4. CASE i \notin 2..L
    <3>1. i = L + 1 /\ i - 1 = L
      BY <1>1, <2>4
    <3> QED BY <1>1, <1>4, <1>7, <2>2, <3>1
  <2> QED BY <2>3, <2>4
<1>12. \A i, j \in 1..L+1 : i < j => t[i] < t[j]
  <2> SUFFICES ASSUME NEW i \in 1..L+1, NEW j \in 1..L+1, i < j PROVE t[i] < t[j]
    OBVIOUS
  <2>1. i \in 1..L /\ L \in 1..L
    BY <1>1, <1>2
  <2>2. CASE j \in 1..L
    BY <1>7, <2>1, <2>2 DEF Called
  <2>3. CASE j \notin 1..L
    <3>1. j = L + 1
      BY <1>1, <2>3
    <3>2. t[i] = s.calls[i] /\ t[j] = c /\ s.calls[i] \in Nat
      BY <1>1, <1>7, <2>1, <3>1
    <3>3. s.calls[i] < m \/ i = L
      BY <1>1, <2>1 DEF Called
    <3> QED BY <1>1, <1>4, <1>6, <3>2, <3>3
  <2> QED BY <2>2, <2>3
<1>13. t[1] = n
  BY <1>2, <1>7 DEF Called
<1>14. Called(f, n, w, RmTurn(s), G)
  BY <1>1, <1>7, <1>8, <1>9, <1>10, <1>11, <1>12, <1>13 DEF Called
<1> QED BY <1>7, <1>8, <1>14

\* A node that lists nothing any more is unlinked, and its call returns to the one
\* before it.
LEMMA TurnUnlinks ==
  ASSUME NEW f, FsOK(f), NEW n \in Nodes(f) \ {vfs_root}, NEW w, NEW s, NEW G,
         Called(f, n, w, s, G), s.fs.node[Last(s.calls)].children = <<>>,
         Len(s.calls) > 1
  PROVE  /\ Called(f, n, w, RmTurn(s), G \union {Last(s.calls)})
         /\ Len(RmTurn(s).calls) = Len(s.calls) - 1
         /\ Last(s.calls) \notin G
<1> DEFINE m == Last(s.calls)
           L == Len(s.calls)
           t == Front(s.calls)
<1>1. /\ s = [fs |-> s.fs, calls |-> s.calls, rc |-> s.rc]
      /\ L \in Nat /\ s.calls \in Seq(Nat) /\ m = s.calls[L]
      /\ FsOK(s.fs) /\ Nodes(s.fs) = Nodes(f)
      /\ m \in Nodes(f) \ {vfs_root} /\ m \in Subtree(f, n)
      /\ m \in Children(s.fs, s.fs.node[m].parent) /\ m \notin G /\ m # n
  BY CalledParts
<1>2. s.calls # <<>> /\ m \notin {NULL, vfs_root}
  BY <1>1 DEF Nodes, NULL
<1>3. PICK g : vfs_unlink_node(s.fs, m) = [fs |-> g, rc |-> 1] /\ Unlinked(s.fs, g, m)
  <2> HIDE DEF m
  <2> QED BY <1>1, <1>2, UnlinkIs
<1>4. RmTurn(s) = [fs |-> g, rc |-> 1, calls |-> t]
  <2>1. RmTurn(s) = LET out == vfs_unlink_node(s.fs, m)
                    IN  [fs |-> out.fs, rc |-> out.rc,
                         calls |-> IF out.rc = 0 THEN <<>> ELSE t]
    BY <1>2, Zenon DEF RmTurn
  <2> HIDE DEF m, t
  <2> QED BY <1>3, <2>1
<1>5. t \in Seq(Nat) /\ Len(t) = L - 1 /\ \A i \in 1..L-1 : t[i] = s.calls[i]
  <2>1. t = SubSeq(s.calls, 1, L - 1)
    BY DEF Front
  <2>2. L - 1 \in 0..L
    BY <1>1
  <2> HIDE DEF t
  <2> QED BY <1>1, <2>1, <2>2
<1> HIDE DEF t
<1>6. Children(f, m) \subseteq G
  <2>1. Children(s.fs, m) = {}
    BY DEF Children, ToSet
  <2> HIDE DEF m
  <2>2. Children(f, m) \subseteq Nodes(f)
    BY <1>1, ChildrenAre
  <2>3. Children(s.fs, m) \cap Nodes(f) = Children(f, m) \ G
    BY <1>1 DEF Called, Edits
  <2> QED BY <2>1, <2>2, <2>3
<1> HIDE DEF m
<1>7. /\ Edits(s.fs, g, {m}, w) /\ Edits(f, g, G \union {m}, w)
      /\ FsOK(g) /\ Len(g.node) = Len(f.node) /\ Nodes(g) = Nodes(f)
  <2>1. Edits(s.fs, g, {m}, w)
    BY <1>1, <1>3, EditsUnlinked
  <2>2. Edits(f, g, G \union {m}, w)
    BY <1>1, <2>1, EditsTrans DEF Called
  <2>3. Len(g.node) = Len(f.node) /\ Nodes(g) = Nodes(f) /\ FsOK(g)
    BY <1>3 DEF Unlinked, Relisted, Nodes, Called, Keeps
  <2> QED BY <2>1, <2>2, <2>3
<1>8. RmTurn(s) \in LoopState
  <2>1. g \in [node : Seq(VNode), used : Nat] /\ 1 \in {0, 1}
    BY <1>7 DEF FsOK, FsType
  <2> QED BY <1>4, <1>5, <2>1 DEF LoopState
<1>9. \A i \in 1..L-1 : t[i] \in Subtree(f, n) /\ i <= t[i] /\ t[i] < m
  <2> SUFFICES ASSUME NEW i \in 1..L-1
               PROVE  t[i] \in Subtree(f, n) /\ i <= t[i] /\ t[i] < m
    OBVIOUS
  <2>1. i \in 1..L /\ L \in 1..L /\ i < L /\ t[i] = s.calls[i]
    BY <1>1, <1>5
  <2> QED BY <1>1, <2>1 DEF Called
<1>10. ASSUME NEW i \in 2..L-1 PROVE t[i] \in Children(g, t[i-1])
  <2>1. i \in 2..L /\ i \in 1..L-1 /\ i - 1 \in 1..L-1
    BY <1>1
  <2>2. t[i] = s.calls[i] /\ t[i-1] = s.calls[i-1]
    BY <1>5, <2>1
  <2>3. t[i] \in Children(s.fs, t[i-1])
    BY <2>1, <2>2 DEF Called
  <2>4. t[i-1] \in Nodes(s.fs) /\ t[i] < m /\ t[i] \in Nat /\ m \in Nat
    <3>1. t[i-1] \in Subtree(f, n) /\ t[i] \in Subtree(f, n) /\ t[i] < m
      BY <1>9, <2>1
    <3>2. t[i-1] \in Nodes(f) /\ t[i] \in Nodes(f)
      BY <3>1, SubtreeCloses
    <3>3. t[i-1] \in Nodes(s.fs)
      BY <1>1, <3>2
    <3>4. t[i] \in Nat /\ m \in Nat
      <4>1. Nodes(f) \subseteq Nat
        BY DEF Nodes
      <4> QED BY <1>1, <3>2, <4>1
    <3> QED BY <3>1, <3>3, <3>4
  <2>5. t[i] # m
    BY <2>4
  <2>6. Children(g, t[i-1]) \cap Nodes(s.fs) = Children(s.fs, t[i-1]) \ {m}
    BY <1>7, <2>4 DEF Edits
  <2>7. t[i] \in Nodes(s.fs)
    BY <1>1, <2>3, <2>4, ChildrenAre
  <2> QED BY <2>3, <2>5, <2>6
<1>11. \A i, j \in 1..L-1 : i < j => t[i] < t[j]
  <2> SUFFICES ASSUME NEW i \in 1..L-1, NEW j \in 1..L-1, i < j PROVE t[i] < t[j]
    OBVIOUS
  <2>1. i \in 1..L /\ j \in 1..L
    BY <1>1
  <2>2. s.calls[i] < s.calls[j]
    BY <2>1 DEF Called
  <2> QED BY <1>5, <2>2
<1>12. L - 1 >= 1 /\ t[1] = n
  <2>1. L > 1 /\ s.calls[1] = n
    BY DEF Called
  <2>2. 1 \in 1..L-1
    BY <1>1, <2>1
  <2> QED BY <1>5, <2>1, <2>2
<1>13. G \union {m} \subseteq Subtree(f, n) /\ n \notin G \union {m}
  BY <1>1 DEF Called
<1>14. \A x \in G \union {m} : Children(f, x) \subseteq G \union {m}
  BY <1>6 DEF Called
<1>15. RmTurn(s).fs = g /\ RmTurn(s).calls = t
  BY <1>4
<1>16. Called(f, n, w, RmTurn(s), G \union {m})
  BY <1>5, <1>7, <1>8, <1>9, <1>10, <1>11, <1>12, <1>13, <1>14, <1>15 DEF Called
<1> QED BY <1>1, <1>5, <1>15, <1>16 DEF m

\* When the first node lists nothing any more all below it is gone: it is
\* unlinked, or was not listed, and the first call returns.
LEMMA TurnReturns ==
  ASSUME NEW f, FsOK(f), NEW n \in Nodes(f) \ {vfs_root}, NEW w, NEW s, NEW G,
         Called(f, n, w, s, G), s.fs.node[Last(s.calls)].children = <<>>,
         Len(s.calls) <= 1
  PROVE  Returned(f, n, w, RmTurn(s))
<1> DEFINE m == Last(s.calls)
           out == vfs_unlink_node(s.fs, n)
           p == f.node[n].parent
<1>1. /\ s = [fs |-> s.fs, calls |-> s.calls, rc |-> s.rc]
      /\ Len(s.calls) \in Nat /\ s.calls \in Seq(Nat) /\ m = s.calls[Len(s.calls)]
      /\ FsOK(s.fs) /\ Nodes(s.fs) = Nodes(f)
  BY CalledParts
<1>2. Len(s.calls) = 1 /\ s.calls # <<>> /\ m = n /\ n \notin {NULL, vfs_root}
  <2>1. Len(s.calls) >= 1 /\ s.calls[1] = n
    BY DEF Called
  <2> HIDE DEF m
  <2>2. Len(s.calls) = 1
    <3> DEFINE k == Len(s.calls)
    <3>1. k \in Nat /\ k >= 1 /\ k <= 1
      BY <1>1, <2>1
    <3> HIDE DEF k
    <3>2. k = 1
      BY <3>1
    <3> QED BY <3>2 DEF k
  <2> QED BY <1>1, <2>1, <2>2 DEF Nodes, NULL
<1>3. Front(s.calls) = <<>>
  BY <1>1, <1>2 DEF Front
<1>4. RmTurn(s) = [fs |-> out.fs, rc |-> out.rc, calls |-> <<>>]
  <2>1. RmTurn(s) = LET gone == vfs_unlink_node(s.fs, m)
                    IN  [fs |-> gone.fs, rc |-> gone.rc,
                         calls |-> IF gone.rc = 0 THEN <<>> ELSE Front(s.calls)]
    BY <1>2, Zenon DEF RmTurn
  <2> HIDE DEF m, out
  <2> QED BY <1>2, <1>3, <2>1 DEF out
<1>5. Children(f, n) \subseteq G
  <2>1. Children(s.fs, n) = {}
    BY <1>2 DEF Children, ToSet
  <2>2. Children(f, n) \subseteq Nodes(f)
    BY ChildrenAre
  <2>3. Children(s.fs, n) \cap Nodes(f) = Children(f, n) \ G
    BY DEF Called, Edits
  <2> QED BY <2>1, <2>2, <2>3
<1>6. G \union {n} = Subtree(f, n)
  <2>1. G \union {n} \subseteq Subtree(f, n)
    BY SubtreeCloses DEF Called
  <2>2. \A x \in G \union {n} : Children(f, x) \subseteq G \union {n}
    BY <1>5 DEF Called
  <2> DEFINE H == G \union {n}
  <2>3. n \in H /\ \A x \in H \cap Nodes(f) : Children(f, x) \subseteq H
    BY <2>2
  <2> HIDE DEF H
  <2>4. Subtree(f, n) \subseteq H
    BY <2>3, SubtreeCloses
  <2> QED BY <2>1, <2>4 DEF H
<1>7. p \in Nodes(f) /\ s.fs.node[n].parent = p
  BY DEF Called, Edits, Keeps, FsOK, TreeOK, ParentsOK, IsDir
<1> HIDE DEF m, p
<1>8. CASE out = [fs |-> s.fs, rc |-> 0] /\ n \notin Children(s.fs, p)
  <2>1. n \notin Children(f, p)
    <3>1. Children(s.fs, p) \cap Nodes(f) = Children(f, p) \ G /\ n \notin G
      BY <1>7 DEF Called, Edits
    <3> QED BY <1>8, <3>1
  <2>2. \A d \in Nodes(f) : n \notin Children(f, d)
    BY <2>1, ChildrenAre DEF p
  <2>3. \A d \in Nodes(f) : Children(f, d) \ G = Children(f, d) \ Subtree(f, n)
    BY <1>6, <2>2
  <2>4. Edits(f, s.fs, Subtree(f, n), w)
    BY <2>3 DEF Called, Edits
  <2>5. RmTurn(s) = [fs |-> s.fs, rc |-> 0, calls |-> <<>>]
    BY <1>4, <1>8
  <2>6. s.fs \in [node : Seq(VNode), used : Nat] /\ <<>> \in Seq(Nat) /\ 0 \in {0, 1}
    BY <1>1 DEF FsOK, FsType
  <2>7. RmTurn(s) \in LoopState
    BY <2>5, <2>6 DEF LoopState
  <2> QED BY <2>1, <2>4, <2>5, <2>7 DEF Returned, Called, p
<1>9. CASE \E g : out = [fs |-> g, rc |-> 1] /\ Unlinked(s.fs, g, n)
  <2>1. PICK g : out = [fs |-> g, rc |-> 1] /\ Unlinked(s.fs, g, n)
    BY <1>9
  <2>2. Edits(s.fs, g, {n}, w)
    BY <1>1, <2>1, EditsUnlinked
  <2>3. Edits(f, g, Subtree(f, n), w)
    BY <1>1, <1>6, <2>2, EditsTrans DEF Called
  <2>4. Len(g.node) = Len(f.node) /\ FsOK(g)
    BY <2>1 DEF Unlinked, Relisted, Called, Keeps
  <2>5. RmTurn(s) = [fs |-> g, rc |-> 1, calls |-> <<>>]
    BY <1>4, <2>1
  <2>6. g \in [node : Seq(VNode), used : Nat] /\ <<>> \in Seq(Nat) /\ 1 \in {0, 1}
    BY <2>4 DEF FsOK, FsType
  <2>7. RmTurn(s) \in LoopState
    BY <2>5, <2>6 DEF LoopState
  <2> QED BY <2>3, <2>4, <2>5, <2>7 DEF Returned
<1> HIDE DEF out
<1>10. n \in Nodes(s.fs) \union {NULL} /\ n \notin {NULL, vfs_root}
  BY <1>1, <1>2
<1> QED BY <1>1, <1>7, <1>8, <1>9, <1>10, UnlinkIs DEF out

\* A turn of the loop is one more turn under way, or the last.
LEMMA TurnIs ==
  ASSUME NEW f, FsOK(f), NEW n \in Nodes(f) \ {vfs_root}, NEW w, NEW s
  PROVE  /\ \A k \in Nat : Under(f, n, w, s, k)
                => Under(f, n, w, RmTurn(s), k + 1) \/ Returned(f, n, w, RmTurn(s))
         /\ Returned(f, n, w, s) => Returned(f, n, w, RmTurn(s))
<1>1. ASSUME NEW k \in Nat, Under(f, n, w, s, k)
      PROVE  Under(f, n, w, RmTurn(s), k + 1) \/ Returned(f, n, w, RmTurn(s))
  <2> DEFINE m == Last(s.calls)
             L == Len(s.calls)
  <2>1. PICK G : Called(f, n, w, s, G) /\ k + 1 = 2 * Cardinality(G) + L
    BY <1>1 DEF Under
  <2>2. L \in Nat
    BY <2>1, CalledParts
  <2>3. IsFiniteSet(G) /\ Cardinality(G) \in Nat
    BY <2>1, SubtreeFinite
  <2>4. CASE s.fs.node[m].children # <<>>
    <3>1. Called(f, n, w, RmTurn(s), G) /\ Len(RmTurn(s).calls) = L + 1
      BY <2>1, <2>4, TurnCalls
    <3>2. (k + 1) + 1 = 2 * Cardinality(G) + (L + 1)
      BY <2>1, <2>2, <2>3
    <3> QED BY <3>1, <3>2 DEF Under
  <2>5. CASE s.fs.node[m].children = <<>> /\ L > 1
    <3> DEFINE H == G \union {m}
    <3>1. Called(f, n, w, RmTurn(s), H) /\ Len(RmTurn(s).calls) = L - 1 /\ m \notin G
      BY <2>1, <2>5, TurnUnlinks
    <3>2. Cardinality(H) = Cardinality(G) + 1
      BY <2>3, <3>1, FS_AddElement
    <3> HIDE DEF H
    <3>3. (k + 1) + 1 = 2 * Cardinality(H) + (L - 1)
      BY <2>1, <2>2, <2>3, <3>2
    <3> QED BY <3>1, <3>3 DEF Under
  <2>6. CASE s.fs.node[m].children = <<>> /\ L <= 1
    BY <2>1, <2>6, TurnReturns
  <2> QED BY <2>2, <2>4, <2>5, <2>6
<1>2. Returned(f, n, w, s) => RmTurn(s) = s
  BY Zenon DEF Returned, RmTurn
<1> QED BY <1>1, <1>2

\* Before so many turns have passed the first call has returned: no node is
\* unlinked twice, and no call is deeper than there are nodes.
LEMMA UnderEnds ==
  ASSUME NEW f, FsOK(f), NEW n \in Nodes(f) \ {vfs_root}, NEW w, NEW s,
         Under(f, n, w, s, 3 * Len(f.node))
  PROVE  FALSE
<1> DEFINE N == Len(f.node)
           L == Len(s.calls)
<1>1. PICK G : Called(f, n, w, s, G) /\ 3 * N + 1 = 2 * Cardinality(G) + L
  BY DEF Under
<1>2. N \in Nat /\ Nodes(f) = 1..N
  BY FsFacts DEF FsOK, Nodes
<1>3. L \in Nat /\ L <= N
  <2> DEFINE m == Last(s.calls)
  <2>1. L \in Nat /\ L <= m /\ m \in Nodes(f)
    BY <1>1, CalledParts
  <2> HIDE DEF m, L
  <2> QED BY <1>2, <2>1
<1>4. Cardinality(G) \in Nat /\ Cardinality(G) <= N
  BY <1>1, SubtreeFinite
<1> HIDE DEF N, L
<1> QED BY <1>1, <1>2, <1>3, <1>4

\* The recursion of RmTurn ends as vfs_rm_recursive_node says.
LEMMA LoopRuns ==
  ASSUME NEW f, NEW n, Len(f.node) \in Nat, NEW D,
         [fs |-> f, calls |-> <<n>>, rc |-> 0] \in D,
         \A s \in D : RmTurn(s) \in D
  PROVE  LET L == 3 * Len(f.node)
         IN  \E run \in [0..L -> D] :
               /\ run[0] = [fs |-> f, calls |-> <<n>>, rc |-> 0]
               /\ \A i \in 1..L : run[i] = RmTurn(run[i-1])
               /\ vfs_rm_recursive_node(f, n) = [fs |-> run[L].fs, rc |-> run[L].rc]
<1> DEFINE L == 3 * Len(f.node)
           a == [fs |-> f, calls |-> <<n>>, rc |-> 0]
           st == [x \in D \X (1..L) |-> RmTurn(x[1])]
           run == CHOOSE r : r = [turn \in 0..L |-> IF turn = 0 THEN a ELSE RmTurn(r[turn-1])]
<1>1. L \in Nat /\ a \in D
  OBVIOUS
<1>2. vfs_rm_recursive_node(f, n) = [fs |-> run[L].fs, rc |-> run[L].rc]
  BY DEF vfs_rm_recursive_node
<1> HIDE DEF L, a, run
<1>3. st \in [D \X (1..L) -> D]
  OBVIOUS
<1>4. PICK g \in [0..L -> D] : g[0] = a /\ \A i \in 1..L : g[i] = st[<<g[i-1], i>>]
  <2> HIDE DEF st
  <2>1. Walks(D, a, L, st) # {}
    BY <1>1, <1>3, Iterate
  <2> QED BY <2>1 DEF Walks
<1>5. \A i \in 1..L : g[i] = RmTurn(g[i-1])
  <2> SUFFICES ASSUME NEW i \in 1..L PROVE g[i] = RmTurn(g[i-1])
    OBVIOUS
  <2>1. i - 1 \in 0..L
    BY <1>1
  <2>2. <<g[i-1], i>> \in D \X (1..L)
    BY <2>1
  <2> QED BY <1>4, <2>2
<1> HIDE DEF st
<1>6. g = [turn \in 0..L |-> IF turn = 0 THEN a ELSE RmTurn(g[turn-1])]
  <2>1. \A i \in 0..L : i # 0 => i \in 1..L
    BY <1>1
  <2> QED BY <1>4, <1>5, <2>1
<1>7. run = [turn \in 0..L |-> IF turn = 0 THEN a ELSE RmTurn(run[turn-1])]
  BY <1>6 DEF run
<1>8. run[0] = a /\ \A i \in 1..L : run[i] = RmTurn(run[i-1])
  BY <1>1, <1>7
<1> DEFINE T == {i \in 0..L : run[i] \in D}
<1>9. \A i \in 1..L : i - 1 \in T => i \in T
  BY <1>1, <1>8
<1>10. 0..L \subseteq T
  <2>1. 0 \in T
    BY <1>1, <1>8
  <2> HIDE DEF T
  <2> QED BY <1>1, <1>9, <2>1, InductTo
<1>11. run \in [0..L -> D]
  <2>1. \A i \in 0..L : run[i] \in D
    BY <1>10
  <2> DEFINE r == [turn \in 0..L |-> IF turn = 0 THEN a ELSE RmTurn(run[turn-1])]
  <2>2. run = r /\ DOMAIN r = 0..L
    BY <1>7
  <2>3. run = [i \in 0..L |-> run[i]]
    BY <1>7
  <2> QED BY <2>1, <2>3
<1> QED BY <1>2, <1>8, <1>11 DEF L, a

\* vfs_rm_recursive_node takes n and what is below it, no more and no less, out of
\* the lists they are in, and fails only where n was not listed.
LEMMA EditsRmRecursive ==
  ASSUME NEW f, FsOK(f), NEW n \in Nodes(f) \ {vfs_root}, NEW w
  PROVE  \E g, code :
           /\ vfs_rm_recursive_node(f, n) = [fs |-> g, rc |-> code]
           /\ code \in {0, 1} /\ Len(g.node) = Len(f.node)
           /\ code = 0 => n \notin Children(f, f.node[n].parent)
           /\ Edits(f, g, Subtree(f, n), w)
<1> DEFINE N == 3 * Len(f.node)
           a == [fs |-> f, calls |-> <<n>>, rc |-> 0]
           D == {s \in LoopState :
                   Returned(f, n, w, s) \/ \E k \in Nat : Under(f, n, w, s, k)}
<1>1. Len(f.node) \in Nat /\ N \in Nat
  BY FsFacts DEF FsOK
<1>2. a \in LoopState /\ Under(f, n, w, a, 0)
  <2>1. f \in [node : Seq(VNode), used : Nat] /\ n \in Nat /\ 0 \in {0, 1}
    BY DEF FsOK, FsType, Nodes
  <2>2. <<n>> \in Seq(Nat) /\ Len(<<n>>) = 1 /\ <<n>>[1] = n
    BY <2>1
  <2> DEFINE t == <<n>>
  <2>3. a = [fs |-> f, calls |-> t, rc |-> 0]
    OBVIOUS
  <2> HIDE DEF t, a
  <2>4. a \in LoopState /\ a.calls = t /\ a.fs = f
    BY <2>1, <2>2, <2>3 DEF LoopState, t
  <2>5. n \in Subtree(f, n) /\ 1 <= n
    BY SubtreeCloses DEF Nodes
  <2>6. Called(f, n, w, a, {})
    BY <2>2, <2>4, <2>5, EditsItself DEF Called, t
  <2>7. Cardinality({}) = 0
    BY FS_EmptySet
  <2> QED BY <2>2, <2>4, <2>6, <2>7 DEF Under, t
<1>3. ASSUME NEW s \in D PROVE RmTurn(s) \in D
  <2>1. \/ Returned(f, n, w, RmTurn(s))
        \/ \E k \in Nat : Under(f, n, w, RmTurn(s), k)
    <3>1. CASE Returned(f, n, w, s)
      BY <3>1, TurnIs
    <3>2. CASE \E k \in Nat : Under(f, n, w, s, k)
      <4>1. PICK k \in Nat : Under(f, n, w, s, k)
        BY <3>2
      <4> QED BY <4>1, TurnIs
    <3> QED BY <1>3, <3>1, <3>2
  <2>2. RmTurn(s) \in LoopState
    BY <2>1 DEF Returned, Under, Called
  <2> QED BY <2>1, <2>2
<1>4. PICK run \in [0..N -> D] :
        /\ run[0] = a
        /\ \A i \in 1..N : run[i] = RmTurn(run[i-1])
        /\ vfs_rm_recursive_node(f, n) = [fs |-> run[N].fs, rc |-> run[N].rc]
  <2>1. a \in D
    BY <1>2
  <2> HIDE DEF D
  <2> QED BY <1>1, <1>3, <2>1, LoopRuns
<1> DEFINE T == {i \in 0..N : Returned(f, n, w, run[i]) \/ Under(f, n, w, run[i], i)}
<1> HIDE DEF a, N, D
<1>5. N \in T
  <2>1. 0 \in T
    BY <1>1, <1>2, <1>4
  <2>2. ASSUME NEW i \in 1..N, i - 1 \in T PROVE i \in T
    <3>1. i - 1 \in Nat /\ i \in 0..N /\ (i - 1) + 1 = i
      BY <1>1
    <3>2. Returned(f, n, w, run[i-1]) \/ Under(f, n, w, run[i-1], i - 1)
      BY <2>2
    <3>3. \/ Returned(f, n, w, RmTurn(run[i-1]))
          \/ Under(f, n, w, RmTurn(run[i-1]), (i - 1) + 1)
      BY <3>1, <3>2, TurnIs
    <3> QED BY <1>4, <3>1, <3>3
  <2> HIDE DEF T
  <2>3. 0..N \subseteq T
    BY <1>1, <2>1, <2>2, InductTo
  <2> QED BY <1>1, <2>3
<1> DEFINE g == run[N].fs
           code == run[N].rc
<1>6. Returned(f, n, w, run[N])
  BY <1>5, UnderEnds DEF N
<1>7. code \in {0, 1}
  BY <1>6 DEF Returned, LoopState
<1> QED BY <1>4, <1>6, <1>7 DEF Returned

\* For no node and for the root it does nothing.
LEMMA RmNothing ==
  ASSUME NEW f, FsOK(f), NEW n \in {NULL, vfs_root}
  PROVE  vfs_rm_recursive_node(f, n) = [fs |-> f, rc |-> 0]
<1> DEFINE N == 3 * Len(f.node)
           a == [fs |-> f, calls |-> <<n>>, rc |-> 0]
           z == [fs |-> f, calls |-> <<>>, rc |-> 0]
           D == {a, z}
<1>1. Len(f.node) \in Nat /\ N \in Nat /\ N > 0
  BY FsFacts DEF FsOK, TreeOK, IsDir, Nodes, vfs_root
<1>2. Last(<<n>>) = n /\ <<n>> # <<>>
  BY DEF Last
<1>3. RmTurn(a) = z
  <2>1. RmTurn(a) = [a EXCEPT !.calls = <<>>, !.rc = 0]
    BY <1>2 DEF RmTurn
  <2> QED BY <2>1
<1>4. RmTurn(z) = z
  <2>1. z.calls = <<>>
    OBVIOUS
  <2> HIDE DEF z
  <2> QED BY <2>1, Zenon DEF RmTurn
<1>5. PICK run \in [0..N -> D] :
        /\ run[0] = a
        /\ \A i \in 1..N : run[i] = RmTurn(run[i-1])
        /\ vfs_rm_recursive_node(f, n) = [fs |-> run[N].fs, rc |-> run[N].rc]
  <2>1. a \in D /\ \A s \in D : RmTurn(s) \in D
    BY <1>3, <1>4
  <2> HIDE DEF D
  <2> QED BY <1>1, <2>1, LoopRuns
<1>6. run[N] = z
  <2>1. N - 1 \in 0..N /\ N \in 1..N
    BY <1>1
  <2>2. run[N-1] \in D /\ run[N] = RmTurn(run[N-1])
    BY <1>5, <2>1
  <2> HIDE DEF a, z
  <2> QED BY <1>3, <1>4, <2>2
<1> QED BY <1>5, <1>6

\* vfs_rm_recursive_node keeps the file system well formed.
LEMMA RmRecursiveKeeps ==
  ASSUME NEW f, FsOK(f), NEW n \in Nodes(f) \union {NULL}
  PROVE  /\ Keeps(f, vfs_rm_recursive_node(f, n).fs)
         /\ vfs_rm_recursive_node(f, n).rc \in {0, 1}
<1>1. CASE n \in {NULL, vfs_root}
  BY <1>1, RmNothing, KeepsItself
<1>2. CASE n \notin {NULL, vfs_root}
  <2>1. PICK g, code : /\ vfs_rm_recursive_node(f, n) = [fs |-> g, rc |-> code]
                       /\ code \in {0, 1} /\ Edits(f, g, Subtree(f, n), NULL)
    BY <1>2, EditsRmRecursive
  <2> QED BY <2>1 DEF Edits
<1> QED BY <1>1, <1>2

-----------------------------------------------------------------------------
(* What the creation of a node does.                                       *)

\* A node more, which at most its own directory lists, last.
LEMMA EditsPlaced ==
  ASSUME NEW f, FsOK(f), NEW type, NEW name, NEW d \in Nodes(f), NEW g,
         Placed(f, type, name, d, g), NEW w
  PROVE  Edits(f, g, {}, w)
<1> DEFINE new == Len(f.node) + 1
           s   == f.node[d].children
<1>1. Keeps(f, g) /\ new \notin Nodes(f)
  BY FsFacts DEF Placed, FsOK, Nodes
<1>2. \A n \in Nodes(f) : g.node[n].data = f.node[n].data
  BY DEF Placed
<1>3. s \in Seq(Nat) /\ ToSet(s) = Children(f, d) /\ ToSet(s) \subseteq Nodes(f)
  BY ChildrenAre DEF Children
<1>4. new \in Nat
  BY FsFacts DEF FsOK
<1>5. ASSUME NEW t \in {s, Append(s, new)}
      PROVE  ToSet(t) \cap Nodes(f) = ToSet(s) /\ Order(s, t)
  <2>1. CASE t = s
    BY <1>3, <2>1, OrderItself
  <2>2. CASE t = Append(s, new)
    <3> HIDE DEF s, new
    <3>1. ToSet(t) = ToSet(s) \union {new}
      BY <1>3, <1>4, <2>2, ToSetAppend
    <3>2. /\ Len(s) \in Nat /\ Len(t) = Len(s) + 1 /\ t[Len(s) + 1] = new
          /\ \A i \in 1..Len(s) : t[i] = s[i]
      BY <1>3, <1>4, <2>2
    <3>3. ASSUME NEW i \in 1..Len(t), NEW j \in 1..Len(t), i < j, t[j] \in ToSet(s)
          PROVE  \E a, b \in 1..Len(s) : a < b /\ s[a] = t[i] /\ s[b] = t[j]
      <4>1. t[j] # new
        BY <1>1, <1>3, <3>3 DEF new
      <4>2. j \in 1..Len(s) /\ i \in 1..Len(s)
        BY <3>2, <3>3, <4>1
      <4> QED BY <3>2, <3>3, <4>2
    <3>4. Order(s, t)
      BY <3>3 DEF Order
    <3>5. new \notin Nodes(f)
      BY <1>1
    <3> QED BY <1>3, <3>1, <3>4, <3>5
  <2> QED BY <2>1, <2>2
<1>6. g.node[d].children \in {s, Append(s, new)}
  BY DEF Placed
<1>7. ASSUME NEW n \in Nodes(f)
      PROVE  /\ Children(g, n) \cap Nodes(f) = Children(f, n) \ {}
             /\ Order(f.node[n].children, g.node[n].children)
  <2>1. CASE n = d
    BY <1>3, <1>5, <1>6, <2>1 DEF Children
  <2>2. CASE n # d
    <3>1. g.node[n].children = f.node[n].children
      BY <2>2 DEF Placed
    <3> QED BY <3>1, ChildrenAre, OrderItself DEF Children
  <2> QED BY <2>1, <2>2
<1> QED BY <1>1, <1>2, <1>7 DEF Edits

-----------------------------------------------------------------------------
(* What commands find again.                                               *)

\* A node that has left no list is found again.
LEMMA StepKept ==
  ASSUME NEW f, FsOK(f), NEW g, NEW w, Edits(f, g, {}, w),
         NEW cur \in Nodes(f) \union {NULL}, NEW name,
         StepInto(f, cur, name) # NULL
  PROVE  StepInto(g, cur, name) = StepInto(f, cur, name)
<1>1. cur # NULL /\ cur \in Nodes(f)
  BY DEF StepInto
<1>2. FsOK(g) /\ Nodes(f) \subseteq Nodes(g)
  BY KeepsNodes DEF Edits
<1>3. ASSUME NEW d \in Nodes(f), NEW x, child_of(f, d, x) # NULL
      PROVE  child_of(g, d, x) = child_of(f, d, x)
  <2> DEFINE m == child_of(f, d, x)
  <2>1. IsDir(f, d) /\ m \in Children(f, d) /\ m \in Nodes(f) /\ f.node[m].name = x
    BY <1>3, ChildOf
  <2> HIDE DEF m
  <2>2. IsDir(g, d)
    BY <2>1, KeepsDir DEF Edits
  <2>3. m \in Children(g, d)
    BY <2>1 DEF Edits
  <2>4. g.node[m].name = x
    BY <2>1 DEF Edits, Keeps
  <2>5. child_of(g, d, g.node[m].name) = m
    BY <1>2, <2>2, <2>3, ChildOfListed
  <2> QED BY <2>4, <2>5 DEF m
<1>4. CASE name = "."
  BY <1>1, <1>4 DEF StepInto
<1>5. CASE name = ".."
  <2>1. g.node[cur].parent = f.node[cur].parent
    BY <1>1 DEF Edits, Keeps
  <2> QED BY <1>1, <1>5, <2>1 DEF StepInto
<1>6. CASE name = "~"
  <2> DEFINE x == "root"
  <2>1. /\ StepInto(f, cur, name) = child_of(f, vfs_root, x)
        /\ StepInto(g, cur, name) = child_of(g, vfs_root, x)
    BY <1>1, <1>6 DEF StepInto
  <2>2. vfs_root \in Nodes(f)
    BY DEF FsOK, TreeOK, IsDir
  <2> HIDE DEF x
  <2> QED BY <1>3, <2>1, <2>2
<1>7. CASE name \notin Special
  <2>1. /\ StepInto(f, cur, name) = child_of(f, cur, name)
        /\ StepInto(g, cur, name) = child_of(g, cur, name)
    BY <1>1, <1>7 DEF StepInto, Special
  <2> QED BY <1>1, <1>3, <2>1
<1> QED BY <1>4, <1>5, <1>6, <1>7 DEF Special

\* What a path led to it leads to after an edit that removes nothing.
LEMMA ResolveKept ==
  ASSUME NEW f, FsOK(f), NEW g, NEW w, Edits(f, g, {}, w),
         NEW dir \in Nodes(f), NEW p \in Path, vfs_resolve(f, dir, p) # NULL
  PROVE  vfs_resolve(g, dir, p) = vfs_resolve(f, dir, p)
<1> DEFINE L == Len(p.comps)
<1>1. FsOK(g) /\ Nodes(f) \subseteq Nodes(g)
  BY KeepsNodes DEF Edits
<1>2. PICK v : Walk(f, dir, p, v) /\ vfs_resolve(f, dir, p) = v[L]
  BY ResolveWalks
<1>3. PICK u : Walk(g, dir, p, u) /\ vfs_resolve(g, dir, p) = u[L]
  BY <1>1, ResolveWalks
<1>4. L \in Nat
  BY DEF Path
<1> HIDE DEF L
<1> DEFINE T == {i \in 0..L : v[i] # NULL => u[i] = v[i]}
<1>5. 0 \in T
  BY <1>2, <1>3, <1>4 DEF Walk
<1>6. ASSUME NEW i \in 1..L, i - 1 \in T PROVE i \in T
  <2>1. i \in 0..L /\ i - 1 \in 0..L
    BY <1>4
  <2>2. /\ v[i] = StepInto(f, v[i-1], p.comps[i])
        /\ u[i] = StepInto(g, u[i-1], p.comps[i])
        /\ v[i-1] \in Nodes(f) \union {NULL}
    BY <1>2, <1>3, <2>1 DEF Walk, L
  <2>3. v[i] # NULL => v[i-1] # NULL
    BY <2>2 DEF StepInto
  <2>4. v[i-1] # NULL => u[i-1] = v[i-1]
    BY <1>6
  <2>5. v[i] # NULL => StepInto(g, v[i-1], p.comps[i]) = v[i]
    BY <2>2, StepKept
  <2> QED BY <2>1, <2>2, <2>3, <2>4, <2>5
<1>7. L \in T
  <2> HIDE DEF T
  <2>1. 0..L \subseteq T
    BY <1>4, <1>5, <1>6, InductTo
  <2> QED BY <1>4, <2>1
<1> QED BY <1>2, <1>3, <1>7

\* A name that no child had is only found on a new node.
LEMMA FoundIsNew ==
  ASSUME NEW f, FsOK(f), NEW g, NEW w, Edits(f, g, {}, w),
         NEW d, IsDir(f, d), NEW x, child_of(f, d, x) = NULL
  PROVE  child_of(g, d, x) \notin Nodes(f)
<1> DEFINE m == child_of(g, d, x)
<1> SUFFICES ASSUME m \in Nodes(f) PROVE FALSE
  OBVIOUS
<1>1. FsOK(g) /\ Nodes(f) \subseteq Nodes(g) /\ d \in Nodes(f)
  BY KeepsNodes DEF Edits, IsDir
<1>2. m # NULL
  BY DEF Nodes, NULL
<1>3. m \in Children(g, d) /\ g.node[m].name = x
  BY <1>1, <1>2, ChildOf
<1> HIDE DEF m
<1>4. m \in Children(f, d)
  BY <1>1, <1>3 DEF Edits
<1>5. f.node[m].name = x
  BY <1>3 DEF Edits, Keeps
<1>6. child_of(f, d, f.node[m].name) = m
  BY <1>4, ChildOfListed
<1> QED BY <1>2, <1>5, <1>6

\* A file that a path leads to is listed by its directory.
LEMMA ResolvedIsListed ==
  ASSUME NEW f, FsOK(f), NEW dir, IsDir(f, dir), NEW p \in Path,
         IsFile(f, vfs_resolve(f, dir, p))
  PROVE  vfs_resolve(f, dir, p)
           \in Children(f, f.node[vfs_resolve(f, dir, p)].parent)
<1> DEFINE L == Len(p.comps)
           Good(m) == IsDir(f, m) \/ (m \in Nodes(f) /\ m \in Children(f, f.node[m].parent))
<1>1. dir \in Nodes(f)
  BY DEF IsDir
<1>2. PICK v : Walk(f, dir, p, v) /\ vfs_resolve(f, dir, p) = v[L]
  BY <1>1, ResolveWalks
<1>3. L \in Nat
  BY DEF Path
<1> HIDE DEF L
<1> DEFINE T == {i \in 0..L : v[i] # NULL => Good(v[i])}
<1>4. 0 \in T
  BY <1>2, <1>3 DEF Walk, FsOK, TreeOK
<1>5. ASSUME NEW d \in Nodes(f), NEW x, child_of(f, d, x) # NULL
      PROVE  Good(child_of(f, d, x))
  <2> DEFINE m == child_of(f, d, x)
  <2>1. m \in Nodes(f) /\ m \in Children(f, d)
    BY <1>5, ChildOf
  <2> HIDE DEF m
  <2>2. f.node[m].parent = d
    BY <2>1, ChildrenAre
  <2> QED BY <2>1, <2>2 DEF m
<1>6. ASSUME NEW i \in 1..L, i - 1 \in T PROVE i \in T
  <2> DEFINE cur == v[i-1]
             name == p.comps[i]
  <2>1. i \in 0..L /\ i - 1 \in 0..L
    BY <1>3
  <2>2. v[i] = StepInto(f, cur, name) /\ cur \in Nodes(f) \union {NULL}
    BY <1>2, <2>1 DEF Walk, L
  <2> SUFFICES ASSUME v[i] # NULL PROVE Good(v[i])
    BY <2>1
  <2>3. cur # NULL /\ cur \in Nodes(f)
    BY <2>2 DEF StepInto
  <2>4. Good(cur)
    BY <1>6, <2>3
  <2> HIDE DEF cur, name, Good
  <2>5. CASE name = "."
    BY <2>2, <2>3, <2>4, <2>5 DEF StepInto
  <2>6. CASE name = ".."
    <3>1. v[i] = f.node[cur].parent
      BY <2>2, <2>3, <2>6 DEF StepInto
    <3> QED BY <2>3, <3>1 DEF Good, FsOK, TreeOK, ParentsOK
  <2>7. CASE name = "~"
    <3> DEFINE x == "root"
    <3>1. v[i] = child_of(f, vfs_root, x)
      BY <2>2, <2>3, <2>7 DEF StepInto
    <3>2. vfs_root \in Nodes(f)
      BY DEF FsOK, TreeOK, IsDir
    <3> HIDE DEF x
    <3> QED BY <1>5, <3>1, <3>2
  <2>8. CASE name \notin Special
    <3>1. v[i] = child_of(f, cur, name)
      BY <2>2, <2>3, <2>8 DEF StepInto, Special
    <3> QED BY <1>5, <2>3, <3>1
  <2> QED BY <2>5, <2>6, <2>7, <2>8 DEF Special
<1>7. L \in T
  <2> HIDE DEF T
  <2>1. 0..L \subseteq T
    BY <1>3, <1>4, <1>6, InductTo
  <2> QED BY <1>3, <2>1
<1>8. IsFile(f, v[L]) /\ v[L] # NULL /\ ~IsDir(f, v[L])
  <2>1. \A s : s = "file" => s # "dir"
    OBVIOUS
  <2> QED BY <1>2, <2>1 DEF IsFile, IsDir, Nodes, NULL
<1> QED BY <1>2, <1>7, <1>8

-----------------------------------------------------------------------------
(* What commands leave in the tree.                                        *)

\* The nodes below a node are in the tree if the node is.
LEMMA SubtreeLinked ==
  ASSUME NEW f, FsOK(f), NEW n \in Nodes(f)
  PROVE  \A m \in Subtree(f, n) : m \in Linked(f) <=> n \in Linked(f)
<1> DEFINE S == {m \in Nodes(f) : m \in Subtree(f, n) =>
                                    (m \in Linked(f) <=> n \in Linked(f))}
<1>1. vfs_root \in S
  <2>1. vfs_root \in Nodes(f) /\ ~(vfs_root > n)
    BY DEF FsOK, TreeOK, IsDir, Nodes, vfs_root
  <2> QED BY <2>1, SubtreeIs
<1>2. ASSUME NEW m \in Nodes(f) \ {vfs_root}, f.node[m].parent \in S PROVE m \in S
  <2> SUFFICES ASSUME m \in Subtree(f, n) PROVE m \in Linked(f) <=> n \in Linked(f)
    OBVIOUS
  <2>1. CASE m = n
    BY <2>1
  <2>2. CASE m # n
    <3>1. m \in Children(f, f.node[m].parent) /\ f.node[m].parent \in Subtree(f, n)
      BY <2>2, SubtreeIs
    <3>2. m \in Linked(f) <=> f.node[m].parent \in Linked(f)
      BY <3>1, LinkedIs
    <3>3. f.node[m].parent \in Linked(f) <=> n \in Linked(f)
      BY <1>2, <3>1
    <3> QED BY <3>2, <3>3, Zenon
  <2> QED BY <2>1, <2>2
<1>3. Nodes(f) \subseteq S
  <2> HIDE DEF S
  <2> QED BY <1>1, <1>2, UpInduct
<1>4. Subtree(f, n) \subseteq Nodes(f)
  BY SubtreeIs
<1> QED BY <1>3, <1>4

\* The tree loses what left its list, provided that takes all that is below.
LEMMA LinkedAfter ==
  ASSUME NEW f, FsOK(f), NEW g, NEW R, NEW w, Edits(f, g, R, w), vfs_root \notin R,
         \A m \in Linked(f) \ {vfs_root} : f.node[m].parent \in R => m \in R
  PROVE  Linked(g) \cap Nodes(f) = Linked(f) \ R
<1> DEFINE S == {m \in Nodes(f) : m \in Linked(g) <=> m \in Linked(f) /\ m \notin R}
<1>1. FsOK(g) /\ Nodes(f) \subseteq Nodes(g) /\ vfs_root \in Nodes(f)
  BY KeepsNodes DEF Edits, FsOK, TreeOK, IsDir
<1>2. vfs_root \in S
  BY <1>1, LinkedIs
<1>3. ASSUME NEW m \in Nodes(f) \ {vfs_root}, f.node[m].parent \in S PROVE m \in S
  <2> DEFINE d == f.node[m].parent
  <2>1. d \in Nodes(f) /\ g.node[m].parent = d
    BY DEF Edits, Keeps, FsOK, TreeOK, ParentsOK, IsDir
  <2>2. m \in Linked(f) <=> m \in Children(f, d) /\ d \in Linked(f)
    BY LinkedIs
  <2>3. m \in Linked(g) <=> m \in Children(g, d) /\ d \in Linked(g)
    BY <1>1, <2>1, LinkedIs
  <2>4. m \in Children(g, d) <=> m \in Children(f, d) /\ m \notin R
    BY <2>1 DEF Edits
  <2>5. d \in Linked(g) <=> d \in Linked(f) /\ d \notin R
    BY <1>3
  <2>6. m \in Linked(f) /\ d \in R => m \in R
    OBVIOUS
  <2> HIDE DEF d
  <2> QED BY <2>2, <2>3, <2>4, <2>5, <2>6, Zenon
<1>4. Nodes(f) \subseteq S
  <2> HIDE DEF S
  <2> QED BY <1>2, <1>3, UpInduct
<1>5. Linked(f) \subseteq Nodes(f)
  BY LinkedIs
<1> QED BY <1>4, <1>5

\* Nothing leaves the tree if nothing leaves a list.
LEMMA LinkedKept ==
  ASSUME NEW f, FsOK(f), NEW g, NEW w, Edits(f, g, {}, w)
  PROVE  Linked(g) \cap Nodes(f) = Linked(f)
BY LinkedAfter

\* One node without children leaves alone.
LEMMA LinkedWithout ==
  ASSUME NEW f, FsOK(f), NEW g, NEW n \in Nodes(f) \ {vfs_root}, NEW w,
         Edits(f, g, {n}, w), Children(f, n) = {}
  PROVE  Linked(g) \cap Nodes(f) = Linked(f) \ {n}
<1>1. \A m \in Linked(f) \ {vfs_root} : f.node[m].parent # n
  <2> SUFFICES ASSUME NEW m \in Linked(f) \ {vfs_root}, f.node[m].parent = n PROVE FALSE
    OBVIOUS
  <2>1. m \in Children(f, n)
    BY LinkedIs
  <2> QED BY <2>1
<1> QED BY <1>1, LinkedAfter

\* What vfs_mkfile and vfs_mkdir leave, and what they add to the tree.
LEMMA CreateEdits ==
  ASSUME NEW f, FsOK(f), NEW dir \in Nodes(f), NEW p \in Path,
         NEW type \in {"file", "dir"}, NEW w
  PROVE  LET r == Create(f, dir, p, type)
         IN  /\ Edits(f, r.fs, {}, w)
             /\ \A n \in Nodes(r.fs) \ Nodes(f) :
                  /\ r.fs.node[n].type = type
                  /\ r.fs.node[n].name = NameOf(p)
                  /\ r.fs.node[n].parent = vfs_resolve_parent(f, dir, p)
                  /\ IsDir(f, vfs_resolve_parent(f, dir, p))
                  /\ r.rc = 0 => n \notin Children(r.fs, r.fs.node[n].parent)
<1> DEFINE r == Create(f, dir, p, type)
           g == r.fs
           d == vfs_resolve_parent(f, dir, p)
<1>1. CASE r = [fs |-> f, rc |-> 0]
  BY <1>1, EditsItself
<1>2. CASE r # [fs |-> f, rc |-> 0]
  <2>1. /\ IsDir(f, d) /\ Placed(f, type, NameOf(p), d, g)
        /\ r.rc = 0 => g.node[d].children = f.node[d].children
    BY <1>2, CreateIs
  <2> HIDE DEF r, d
  <2>2. Edits(f, g, {}, w)
    BY <2>1, EditsPlaced DEF IsDir
  <2>3. ASSUME NEW n \in Nodes(g) \ Nodes(f)
        PROVE  /\ g.node[n].type = type /\ g.node[n].name = NameOf(p)
               /\ g.node[n].parent = d
               /\ r.rc = 0 => n \notin Children(g, d)
    <3>1. n = Len(f.node) + 1
      <4>1. Len(f.node) \in Nat /\ Len(g.node) = Len(f.node) + 1
        BY <2>1, FsFacts DEF FsOK, Placed
      <4> QED BY <4>1 DEF Nodes
    <3>2. r.rc = 0 => Children(g, d) = Children(f, d)
      BY <2>1 DEF Children
    <3>3. n \notin Children(f, d)
      BY <2>1, ChildrenAre DEF IsDir
    <3> QED BY <2>1, <3>1, <3>2, <3>3 DEF Placed
  <2> QED BY <2>1, <2>2, <2>3 DEF r, d
<1> QED BY <1>1, <1>2

-----------------------------------------------------------------------------
(* Part 2: the commands.                                                   *)

\* The inductive invariant: the file system is well formed, the working
\* directory is one, the prompt is its path, and vfs_resolve takes every name
\* on that path for the name of a child.
IInv ==
  /\ FsOK(fs)
  /\ IsDir(fs, cwd)
  /\ pwd = PwdOf(fs, cwd)
  /\ Plain(fs, cwd)
  /\ rc \in {0, 1}

\* A command's result: a file system that keeps f, and what it returns.
Sound(f, result) == Keeps(f, result.fs) /\ result.rc \in {0, 1}

-----------------------------------------------------------------------------
(* The helpers of the commands.                                            *)

\* What cp writes to is a path.
LEMMA CpTargetType ==
  ASSUME NEW f, NEW c, NEW src \in Path, NEW dst \in Path
  PROVE  CpTarget(f, c, src, dst) \in Path
<1> DEFINE base == vfs_basename(src)
<1>1. /\ src.comps \in Seq(STRING) /\ dst.comps \in Seq(STRING)
      /\ dst.abs \in BOOLEAN /\ dst.slash \in BOOLEAN
  BY DEF Path
<1>2. base \in STRING
  <2>1. CASE src.slash \/ src.comps = <<>>
    <3>1. base = ""
      BY <2>1, Zenon DEF vfs_basename
    <3> QED BY <3>1, NamesAssumption
  <2>2. CASE ~(src.slash \/ src.comps = <<>>)
    <3>1. base = Last(src.comps)
      BY <2>2, Zenon DEF vfs_basename
    <3>2. Last(src.comps) \in STRING
      BY <1>1, <2>2 DEF Last
    <3> QED BY <3>1, <3>2
  <2> QED BY <2>1, <2>2
<1>3. ASSUME NEW S, NEW s \in Seq(S), NEW x \in S PROVE Append(s, x) \in Seq(S)
  OBVIOUS
<1>4. Append(dst.comps, base) \in Seq(STRING)
  BY <1>1, <1>2, <1>3
<1> HIDE DEF base
<1>5. ASSUME NEW s \in Seq(STRING), NEW b \in BOOLEAN
      PROVE  [dst EXCEPT !.comps = s, !.slash = b] \in Path
  BY <1>1 DEF Path
<1> DEFINE s == IF base = "" THEN dst.comps ELSE Append(dst.comps, base)
           b == base = ""
<1>6. s \in Seq(STRING) /\ b \in BOOLEAN
  BY <1>1, <1>4
<1>7. CpTarget(f, c, src, dst) = IF IsDir(f, vfs_resolve(f, c, dst))
                                 THEN [dst EXCEPT !.comps = s, !.slash = b] ELSE dst
  BY DEF CpTarget, base
<1> HIDE DEF s, b
<1>8. [dst EXCEPT !.comps = s, !.slash = b] \in Path
  BY <1>5, <1>6
<1> QED BY <1>7, <1>8

\* cp, tee and a redirection open their output without a change to what is
\* there.
LEMMA OpenOutEdits ==
  ASSUME NEW f, FsOK(f), NEW c \in Nodes(f), NEW p \in Path, NEW w
  PROVE  LET o == OpenOut(f, c, p)
         IN  /\ Edits(f, o.fs, {}, w) /\ o.rc = vfs_resolve(o.fs, c, p)
             /\ \/ o.fs = f
                \/ /\ vfs_resolve(f, c, p) = NULL
                   /\ o.fs = Create(f, c, p, "file").fs
<1> DEFINE g == OpenOut(f, c, p).fs
<1>1. /\ OpenOut(f, c, p).rc = vfs_resolve(g, c, p)
      /\ g = IF vfs_resolve(f, c, p) = NULL THEN Create(f, c, p, "file").fs ELSE f
  BY DEF OpenOut, vfs_mkfile
<1>2. Edits(f, Create(f, c, p, "file").fs, {}, w) /\ Edits(f, f, {}, w)
  BY CreateEdits, EditsItself
<1> HIDE DEF g
<1> QED BY <1>1, <1>2 DEF g

\* Opening an output keeps the file system well formed.
LEMMA OpenOutKeeps ==
  ASSUME NEW f, FsOK(f), NEW c \in Nodes(f), NEW p \in Path
  PROVE  Keeps(f, OpenOut(f, c, p).fs)
BY OpenOutEdits DEF Edits

\* The parts of a path around its last component.
LEMMA LastComponent ==
  ASSUME NEW p \in Path, ~(p.slash \/ p.comps = <<>>)
  PROVE  LET q == [p EXCEPT !.comps = Front(@)]
         IN  /\ q \in Path /\ q.abs = p.abs /\ p.comps = Append(q.comps, NameOf(p))
             /\ \A f, c : vfs_resolve_parent(f, c, p) = vfs_resolve(f, c, q)
<1> DEFINE q == [p EXCEPT !.comps = Front(@)]
           s == p.comps
<1>1. q \in Path
  BY FrontPath
<1>2. q.abs = p.abs /\ q.comps = Front(s)
  BY DEF Path
<1>3. s \in Seq(STRING) /\ s # <<>>
  BY DEF Path
<1>4. NameOf(p) = Last(s)
  BY Zenon DEF NameOf
<1>5. \A f, c : vfs_resolve_parent(f, c, p) = vfs_resolve(f, c, q)
  BY Zenon DEF vfs_resolve_parent
<1> HIDE DEF q, s
<1>6. s = Append(Front(s), Last(s))
  <2> DEFINE n == Len(s)
             a == Front(s)
             b == Last(s)
             t == Append(a, b)
  <2>1. n \in Nat /\ n > 0 /\ b = s[n] /\ b \in STRING
    BY <1>3 DEF Last
  <2>2. a \in Seq(STRING) /\ Len(a) = n - 1 /\ \A i \in 1..n-1 : a[i] = s[i]
    <3>1. a = SubSeq(s, 1, n - 1)
      BY DEF Front
    <3>2. \A i \in 1..n-1 : s[i] \in STRING
      BY <1>3, <2>1
    <3> HIDE DEF a, n
    <3>3. 1 \in Int /\ n - 1 \in Int
      BY <2>1
    <3>4. /\ a \in Seq(STRING) /\ Len(a) = IF 1 <= n - 1 THEN n - 1 - 1 + 1 ELSE 0
          /\ \A i \in 1..n-1-1+1 : a[i] = s[1+i-1]
      BY <3>1, <3>2, <3>3, SubSeqProperties
    <3> QED BY <2>1, <3>4
  <2> HIDE DEF a, b
  <2>3. t \in Seq(STRING) /\ Len(t) = n /\ t[n] = b /\ \A i \in 1..n-1 : t[i] = a[i]
    BY <2>1, <2>2
  <2>4. \A i \in 1..n : t[i] = s[i]
    BY <2>1, <2>2, <2>3
  <2> HIDE DEF t
  <2>5. t = s
    BY <1>3, <2>3, <2>4
  <2> QED BY <2>5 DEF t, a, b
<1> QED BY <1>1, <1>2, <1>4, <1>5, <1>6 DEF q, s

\* What OpenOut finds is what the path led to before, or new.
LEMMA OpenOutFinds ==
  ASSUME NEW f, FsOK(f), NEW c \in Nodes(f), NEW p \in Path,
         OpenOut(f, c, p).rc \in Nodes(f)
  PROVE  OpenOut(f, c, p).rc = vfs_resolve(f, c, p)
<1> DEFINE g == OpenOut(f, c, p).fs
           n == OpenOut(f, c, p).rc
           d == vfs_resolve_parent(f, c, p)
<1>1. /\ Edits(f, g, {}, NULL) /\ n = vfs_resolve(g, c, p)
      /\ g = f \/ (vfs_resolve(f, c, p) = NULL /\ g = Create(f, c, p, "file").fs)
  BY OpenOutEdits
<1>2. FsOK(g) /\ c \in Nodes(g)
  BY <1>1, KeepsNodes DEF Edits
<1> HIDE DEF g, n
<1>3. CASE g = f
  BY <1>1, <1>3 DEF n
<1>4. CASE g # f
  <2>1. vfs_resolve(f, c, p) = NULL /\ IsDir(f, d) /\ d # NULL
    <3>1. Create(f, c, p, "file").fs # f
      BY <1>1, <1>4
    <3>2. Create(f, c, p, "file") # [fs |-> f, rc |-> 0]
      BY <3>1
    <3>3. IsDir(f, d)
      BY <3>2, CreateIs
    <3> QED BY <1>1, <1>4, <3>3 DEF IsDir, Nodes, NULL
  <2>2. CASE p.slash \/ p.comps = <<>>
    <3>1. d = vfs_resolve(f, c, p)
      BY <2>2, Zenon DEF vfs_resolve_parent
    <3> QED BY <2>1, <3>1
  <2>3. CASE ~(p.slash \/ p.comps = <<>>)
    <3> DEFINE q == [p EXCEPT !.comps = Front(@)]
               name == NameOf(p)
    <3>1. q \in Path /\ q.abs = p.abs /\ p.comps = Append(q.comps, name)
          /\ d = vfs_resolve(f, c, q)
      BY <2>3, LastComponent
    <3> HIDE DEF q, name, d
    <3>2. vfs_resolve(g, c, q) = d
      BY <1>1, <2>1, <3>1, ResolveKept
    <3>3. vfs_resolve(f, c, p) = StepInto(f, d, name)
      BY <3>1, ResolveLast
    <3>4. vfs_resolve(g, c, p) = StepInto(g, d, name)
      BY <1>2, <3>1, <3>2, ResolveLast
    <3>5. CASE name = "."
      BY <2>1, <3>3, <3>5 DEF StepInto
    <3>6. CASE name = ".."
      <4>1. f.node[d].parent # NULL
        BY <2>1 DEF FsOK, TreeOK, ParentsOK, IsDir, Nodes, NULL
      <4> QED BY <2>1, <3>3, <3>6, <4>1 DEF StepInto
    <3>7. ASSUME NEW e, IsDir(f, e), NEW x, child_of(f, e, x) = NULL,
                 n = child_of(g, e, x)
          PROVE  FALSE
      BY <1>1, <3>7, FoundIsNew DEF n
    <3>8. CASE name = "~"
      <4> DEFINE x == "root"
      <4>1. StepInto(f, d, name) = child_of(f, vfs_root, x)
            /\ StepInto(g, d, name) = child_of(g, vfs_root, x)
        BY <2>1, <3>8 DEF StepInto
      <4>2. IsDir(f, vfs_root)
        BY DEF FsOK, TreeOK
      <4> HIDE DEF x
      <4> QED BY <1>1, <2>1, <3>3, <3>4, <3>7, <4>1, <4>2
    <3>9. CASE name \notin Special
      <4>1. StepInto(f, d, name) = child_of(f, d, name)
            /\ StepInto(g, d, name) = child_of(g, d, name)
        BY <2>1, <3>9 DEF StepInto, Special
      <4> QED BY <1>1, <2>1, <3>3, <3>4, <3>7, <4>1
    <3> QED BY <3>5, <3>6, <3>8, <3>9 DEF Special
  <2> QED BY <2>2, <2>3
<1> QED BY <1>3, <1>4

\* What OpenOut adds to the tree it finds there, if the name can be found.
LEMMA OpenOutNew ==
  ASSUME NEW f, FsOK(f), NEW c \in Nodes(f), NEW p \in Path,
         NEW n \in Linked(OpenOut(f, c, p).fs) \ Nodes(f)
  PROVE  \/ OpenOut(f, c, p).fs.node[n].name \in Unresolvable
         \/ OpenOut(f, c, p).rc = n /\ IsFile(OpenOut(f, c, p).fs, n)
<1> DEFINE g == OpenOut(f, c, p).fs
           d == vfs_resolve_parent(f, c, p)
           name == NameOf(p)
           type == "file"
<1>1. /\ Edits(f, g, {}, NULL) /\ OpenOut(f, c, p).rc = vfs_resolve(g, c, p)
      /\ g = f \/ g = Create(f, c, p, type).fs
  BY OpenOutEdits
<1>2. FsOK(g) /\ Nodes(f) \subseteq Nodes(g)
  BY <1>1, KeepsNodes DEF Edits
<1>3. n \in Nodes(g) /\ n # vfs_root
  BY <1>2, LinkedIs DEF FsOK, TreeOK, IsDir
<1>4. /\ g.node[n].type = type /\ g.node[n].name = name /\ g.node[n].parent = d
      /\ IsDir(f, d)
  <2>1. type \in {"file", "dir"}
    OBVIOUS
  <2> HIDE DEF type
  <2>2. g = Create(f, c, p, type).fs
    BY <1>1, <1>3
  <2> HIDE DEF g, d, name
  <2> QED BY <1>3, <2>1, <2>2, CreateEdits DEF d, name
<1>5. n \in Children(g, d)
  <2>1. n \in Linked(g)
    OBVIOUS
  <2> HIDE DEF g, d
  <2> QED BY <1>2, <1>3, <1>4, <2>1, LinkedIs
<1> SUFFICES ASSUME name \notin Unresolvable
             PROVE  vfs_resolve(g, c, p) = n /\ IsFile(g, n)
  <2> HIDE DEF g, d, name
  <2> QED BY <1>1, <1>4 DEF g
<1>6. ~(p.slash \/ p.comps = <<>>)
  <2>1. CASE p.slash
    BY <2>1 DEF NameOf, Unresolvable
  <2>2. CASE ~p.slash /\ p.comps = <<>>
    BY <2>2 DEF NameOf, Unresolvable
  <2> QED BY <2>1, <2>2
<1> DEFINE q == [p EXCEPT !.comps = Front(@)]
<1>7. q \in Path /\ q.abs = p.abs /\ p.comps = Append(q.comps, name)
      /\ d = vfs_resolve(f, c, q)
  BY <1>6, LastComponent
<1>8. name \notin Special
  BY DEF Special, Unresolvable
<1>9. d # NULL /\ IsDir(g, d)
  <2> HIDE DEF g, d
  <2> QED BY <1>1, <1>4, KeepsDir DEF Edits, IsDir, Nodes, NULL
<1>10. c \in Nodes(g)
  BY <1>2
<1>11. IsFile(g, n)
  BY <1>3, <1>4 DEF IsFile
<1> HIDE DEF q, name, d, g
<1>12. vfs_resolve(g, c, q) = d
  BY <1>1, <1>7, <1>9, ResolveKept
<1>13. vfs_resolve(g, c, p) = StepInto(g, d, name)
  BY <1>2, <1>7, <1>10, <1>12, ResolveLast
<1>14. StepInto(g, d, name) = child_of(g, d, name)
  BY <1>8, <1>9 DEF StepInto, Special
<1>15. child_of(g, d, g.node[n].name) = n
  BY <1>2, <1>5, <1>9, ChildOfListed
<1> QED BY <1>4, <1>11, <1>13, <1>14, <1>15

\* The content of a file.
LEMMA DataType ==
  ASSUME NEW f, FsOK(f), NEW n \in Nodes(f)
  PROVE  f.node[n].data \in Seq(Nat)
<1>1. f.node[n] \in VNode
  BY FsFacts DEF FsOK
<1> QED BY <1>1 DEF VNode

\* cp keeps the file system well formed, and returns 0 or 1.
LEMMA CpSound ==
  ASSUME NEW f, FsOK(f), NEW c \in Nodes(f), NEW s \in Path, NEW d \in Path
  PROVE  Sound(f, cmd_cp(f, c, s, d))
<1> DEFINE src == vfs_resolve(f, c, s)
           t   == CpTarget(f, c, s, d)
           dst == OpenOut(f, c, t)
           g   == dst.fs
<1>1. t \in Path
  BY CpTargetType
<1>2. Keeps(f, g) /\ FsOK(g) /\ Nodes(f) \subseteq Nodes(g)
  <2>1. Keeps(f, g)
    <3> HIDE DEF t
    <3> QED BY <1>1, OpenOutKeeps
  <2> HIDE DEF g
  <2> QED BY <2>1, KeepsNodes
<1>3. CASE ~IsFile(f, src)
  <2>1. cmd_cp(f, c, s, d) = [fs |-> f, rc |-> 1]
    BY <1>3 DEF cmd_cp
  <2> QED BY <2>1, KeepsItself DEF Sound
<1>4. CASE IsFile(f, src) /\ ~IsFile(g, dst.rc)
  <2>1. cmd_cp(f, c, s, d) = [fs |-> g, rc |-> 1]
    BY <1>4 DEF cmd_cp
  <2> HIDE DEF g
  <2> QED BY <1>2, <2>1 DEF Sound
<1>5. CASE IsFile(f, src) /\ IsFile(g, dst.rc)
  <2> DEFINE n == dst.rc
             data == g.node[src].data
             h == vfs_write_file(g, n, data).fs
  <2>1. cmd_cp(f, c, s, d) = [fs |-> h, rc |-> 0]
    BY <1>5 DEF cmd_cp
  <2> HIDE DEF g, n, src
  <2>2. data \in Seq(Nat)
    BY <1>2, <1>5, DataType DEF IsFile
  <2>3. Keeps(g, h)
    <3> HIDE DEF data
    <3> QED BY <1>2, <2>2, WriteKeeps DEF Rewritten
  <2> HIDE DEF h
  <2>4. Keeps(f, h)
    BY <1>2, <2>3, KeepsTrans
  <2> QED BY <2>1, <2>4 DEF Sound
<1> QED BY <1>3, <1>4, <1>5

\* So does mv.
LEMMA MvSound ==
  ASSUME NEW f, FsOK(f), NEW c \in Nodes(f), NEW s \in Path, NEW d \in Path
  PROVE  Sound(f, cmd_mv(f, c, s, d))
<1> DEFINE copied == cmd_cp(f, c, s, d)
           g      == copied.fs
           gone   == vfs_rm(g, c, s)
<1>1. Sound(f, copied)
  BY CpSound
<1>2. Keeps(f, g) /\ FsOK(g) /\ c \in Nodes(g)
  <2>1. Keeps(f, g)
    BY <1>1 DEF Sound
  <2> HIDE DEF g
  <2> QED BY <2>1, KeepsNodes
<1>3. Keeps(g, gone.fs) /\ gone.rc \in {0, 1}
  <2> HIDE DEF g
  <2> QED BY <1>2, RmKeeps
<1>4. Keeps(f, gone.fs)
  <2> HIDE DEF g, gone
  <2> QED BY <1>2, <1>3, KeepsTrans
<1>5. cmd_mv(f, c, s, d) = IF copied.rc # 0 THEN copied
                           ELSE [fs |-> gone.fs, rc |-> 1 - gone.rc]
  BY DEF cmd_mv
<1> HIDE DEF copied, gone, g
<1>6. 1 - gone.rc \in {0, 1}
  BY <1>3
<1>7. Sound(f, [fs |-> gone.fs, rc |-> 1 - gone.rc])
  BY <1>4, <1>6 DEF Sound
<1> QED BY <1>1, <1>5, <1>7

\* t is longer than s at its end only.
Begins(s, t) == Len(s) <= Len(t) /\ \A i \in 1..Len(s) : t[i] = s[i]

\* Begins is what IsPrefix says of sequences, and orders them.
LEMMA BeginsIs ==
  ASSUME NEW s \in Seq(Nat), NEW t \in Seq(Nat)
  PROVE  /\ Begins(s, s) /\ Begins(s, s \o t)
         /\ Begins(s, t) => IsPrefix(s, t)
         /\ \A u \in Seq(Nat) : Begins(s, t) /\ Begins(t, u) => Begins(s, u)
<1>1. Len(s) \in Nat /\ Len(t) \in Nat
  OBVIOUS
<1>2. Begins(s, s)
  BY <1>1 DEF Begins
<1>3. Begins(s, s \o t)
  <2> DEFINE st == s \o t
  <2>1. Len(st) = Len(s) + Len(t) /\ \A i \in 1..Len(s) : st[i] = s[i]
    OBVIOUS
  <2> HIDE DEF st
  <2>2. Begins(s, st)
    BY <1>1, <2>1 DEF Begins
  <2> QED BY <2>2 DEF st
<1>4. ASSUME Begins(s, t) PROVE IsPrefix(s, t)
  <2> DEFINE a == SubSeq(s, 1, Len(s))
             b == SubSeq(t, 1, Len(s))
  <2>1. a \in Seq(Nat) /\ Len(a) = Len(s) /\ \A i \in 1..Len(s) : a[i] = s[i]
    BY <1>1
  <2>2. b \in Seq(Nat) /\ Len(b) = Len(s) /\ \A i \in 1..Len(s) : b[i] = t[i]
    <3>1. Len(s) <= Len(t) /\ \A i \in 1..Len(s) : t[i] \in Nat
      BY <1>1, <1>4 DEF Begins
    <3> QED BY <1>1, <3>1
  <2> HIDE DEF a, b
  <2>3. a = b
    <3>1. Len(a) = Len(b) /\ \A i \in 1..Len(a) : a[i] = b[i]
      BY <1>4, <2>1, <2>2 DEF Begins
    <3> QED BY <2>1, <2>2, <3>1, SeqEqual
  <2> QED BY <1>4, <2>3 DEF IsPrefix, Begins, a, b
<1>5. ASSUME NEW u \in Seq(Nat), Begins(s, t), Begins(t, u) PROVE Begins(s, u)
  <2>1. Len(u) \in Nat
    OBVIOUS
  <2>2. Len(s) <= Len(t) /\ Len(t) <= Len(u)
    BY <1>5 DEF Begins
  <2>3. ASSUME NEW i \in 1..Len(s) PROVE u[i] = s[i]
    <3>1. i \in 1..Len(t)
      BY <1>1, <2>2
    <3>2. t[i] = s[i] /\ u[i] = t[i]
      BY <1>5, <3>1, Zenon DEF Begins
    <3> QED BY <3>2
  <2>4. Len(s) <= Len(u)
    BY <1>1, <2>1, <2>2
  <2> QED BY <2>3, <2>4 DEF Begins
<1> QED BY <1>2, <1>3, <1>4, <1>5

\* vfs_append_file leaves what was there where it was.
LEMMA AppendBegins ==
  ASSUME NEW f, FsOK(f), NEW n \in Nodes(f), NEW data \in Seq(Nat)
  PROVE  Begins(f.node[n].data, vfs_append_file(f, n, data).fs.node[n].data)
<1> DEFINE old == f.node[n].data
           r == vfs_append_file(f, n, data).fs
<1>1. old \in Seq(Nat)
  <2>1. f.node[n] \in VNode
    BY FsFacts DEF FsOK
  <2> QED BY <2>1 DEF VNode
<1>2. CASE IsFile(f, n)
  <2> DEFINE new == old \o data
  <2>1. new \in Seq(Nat) /\ Begins(old, new) /\ Begins(old, old)
    BY <1>1, BeginsIs
  <2>2. r = Put(f, n, new).fs
    BY <1>2 DEF vfs_append_file
  <2> HIDE DEF new
  <2>3. r.node[n].data = new \/ r = f
    BY <1>2, <2>1, <2>2, PutKeeps
  <2> HIDE DEF r
  <2> QED BY <2>1, <2>3 DEF r
<1>3. CASE ~IsFile(f, n)
  <2>1. r = f
    BY <1>3 DEF vfs_append_file
  <2> QED BY <1>1, <2>1, BeginsIs
<1> QED BY <1>2, <1>3

\* A command's output, byte by byte, changes one file, and that at its end.
LEMMA OutRawKeeps ==
  ASSUME NEW f, FsOK(f), NEW n \in Nodes(f), NEW data \in Seq(Nat)
  PROVE  /\ Rewritten(f, OutRaw(f, n, data), n)
         /\ Begins(f.node[n].data, OutRaw(f, n, data).node[n].data)
<1> DEFINE L  == Len(data)
           D  == {g \in [node : Seq(VNode), used : Nat] :
                    Rewritten(f, g, n) /\ Begins(f.node[n].data, g.node[n].data)}
           st == [x \in D \X (1..L) |-> vfs_append_file(x[1], n, <<data[x[2]]>>).fs]
           after == CHOOSE g : g = [i \in 0..L |->
                      IF i = 0 THEN f ELSE vfs_append_file(g[i-1], n, <<data[i]>>).fs]
<1>1. L \in Nat
  OBVIOUS
<1>2. f \in D
  <2>1. f.node[n].data \in Seq(Nat)
    BY DataType
  <2> QED BY <2>1, RewrittenItself, BeginsIs DEF FsOK, FsType
<1>3. ASSUME NEW g \in D, NEW i \in 1..L
      PROVE  vfs_append_file(g, n, <<data[i]>>).fs \in D
  <2>1. /\ Rewritten(f, g, n) /\ FsOK(g) /\ <<data[i]>> \in Seq(Nat)
        /\ Begins(f.node[n].data, g.node[n].data) /\ n \in Nodes(g)
    BY DEF Rewritten, Keeps, Nodes
  <2> DEFINE h == vfs_append_file(g, n, <<data[i]>>).fs
  <2>2. Rewritten(g, h, n) /\ Begins(g.node[n].data, h.node[n].data)
    BY <2>1, AppendKeeps, AppendBegins
  <2> HIDE DEF h
  <2>3. Rewritten(f, h, n)
    BY <2>1, <2>2, RewrittenTrans
  <2>4. h \in [node : Seq(VNode), used : Nat]
    BY <2>3 DEF Rewritten, Keeps, FsOK, FsType
  <2>5. Begins(f.node[n].data, h.node[n].data)
    <3>1. FsOK(h) /\ n \in Nodes(h)
      BY <2>1, <2>2 DEF Rewritten, Keeps, Nodes
    <3>2. /\ f.node[n].data \in Seq(Nat) /\ g.node[n].data \in Seq(Nat)
          /\ h.node[n].data \in Seq(Nat)
      BY <2>1, <3>1, DataType
    <3> QED BY <2>1, <2>2, <3>2, BeginsIs
  <2> QED BY <2>3, <2>4, <2>5 DEF h
<1>4. st \in [D \X (1..L) -> D]
  <2> HIDE DEF D, L
  <2>1. \A x \in D \X (1..L) : vfs_append_file(x[1], n, <<data[x[2]]>>).fs \in D
    BY <1>3
  <2> QED BY <2>1
<1>5. PICK g \in [0..L -> D] :
        g[0] = f /\ \A i \in 1..L : g[i] = st[<<g[i-1], i>>]
  <2> HIDE DEF D, L, st
  <2>1. Walks(D, f, L, st) # {}
    BY <1>1, <1>2, <1>4, Iterate
  <2> QED BY <2>1 DEF Walks
<1> HIDE DEF D
<1>6. \A i \in 1..L : g[i] = vfs_append_file(g[i-1], n, <<data[i]>>).fs
  <2> SUFFICES ASSUME NEW i \in 1..L
               PROVE  g[i] = vfs_append_file(g[i-1], n, <<data[i]>>).fs
    OBVIOUS
  <2> HIDE DEF L
  <2>1. i - 1 \in 0..L
    BY <1>1
  <2>2. <<g[i-1], i>> \in D \X (1..L)
    BY <2>1
  <2> QED BY <1>5, <2>2
<1>7. g = [i \in 0..L |->
             IF i = 0 THEN f ELSE vfs_append_file(g[i-1], n, <<data[i]>>).fs]
  <2> HIDE DEF st, L
  <2>1. \A i \in 0..L : i # 0 => i \in 1..L
    BY <1>1
  <2> QED BY <1>5, <1>6, <2>1
<1>8. after = [i \in 0..L |->
                 IF i = 0 THEN f ELSE vfs_append_file(after[i-1], n, <<data[i]>>).fs]
  BY <1>7
<1>9. OutRaw(f, n, data) = after[L]
  BY DEF OutRaw
<1> DEFINE T == {i \in 0..L : after[i] \in D}
<1> HIDE DEF after, st
<1>10. 0 \in T
  BY <1>1, <1>2, <1>8
<1>11. ASSUME NEW i \in 1..L, i - 1 \in T PROVE i \in T
  <2>1. i \in 0..L /\ i # 0 /\ after[i-1] \in D
    BY <1>1, <1>11
  <2> HIDE DEF L
  <2>2. after[i] = vfs_append_file(after[i-1], n, <<data[i]>>).fs
    BY <1>8, <2>1
  <2> QED BY <1>3, <2>1, <2>2
<1>12. L \in T
  <2> HIDE DEF T, L
  <2>1. 0..L \subseteq T
    BY <1>1, <1>10, <1>11, InductTo
  <2> QED BY <1>1, <2>1
<1> QED BY <1>9, <1>12 DEF D

\* So does a redirection.
LEMMA RedirectSound ==
  ASSUME NEW f, FsOK(f), NEW c \in Nodes(f), NEW p \in Path, NEW append \in BOOLEAN,
         NEW in, NEW data \in Seq(Nat), NEW status \in {0, 1}
  PROVE  Sound(f, redirect_out(f, c, p, append, in, data, status))
<1> DEFINE out == OpenOut(f, c, p)
           g   == out.fs
           h   == IF append THEN g ELSE vfs_truncate(g, out.rc)
           ready == in = EmptyPath \/ IsFile(h, vfs_resolve(h, c, in))
           print == IF ready THEN data ELSE Message
           code == IF ready THEN status ELSE 1
           done == OutRaw(h, out.rc, print)
<1>1. Keeps(f, g) /\ FsOK(g)
  BY OpenOutKeeps DEF Keeps
<1>2. Keeps(g, h) /\ FsOK(h)
  <2> HIDE DEF g
  <2>1. Keeps(g, g) /\ Keeps(g, vfs_truncate(g, out.rc))
    BY <1>1, KeepsItself, TruncateKeeps DEF Rewritten
  <2>2. Keeps(g, h)
    BY <2>1, Zenon
  <2> QED BY <2>2 DEF Keeps
<1>3. code \in {0, 1} /\ (IsFile(g, out.rc) => Keeps(h, done))
  <2>1. print \in Seq(Nat) /\ code \in {0, 1}
    <3> HIDE DEF ready
    <3> QED BY FileCmdsAssumption
  <2> HIDE DEF h, print, code, g, out
  <2>2. ASSUME IsFile(g, out.rc) PROVE out.rc \in Nodes(h)
    <3>1. Len(g.node) \in Nat /\ Len(h.node) \in Nat /\ Len(g.node) <= Len(h.node)
      BY <1>1, <1>2, FsFacts DEF Keeps, FsOK
    <3> QED BY <2>2, <3>1 DEF IsFile, Nodes
  <2> QED BY <1>2, <2>1, <2>2, OutRawKeeps DEF Rewritten
<1>4. redirect_out(f, c, p, append, in, data, status) =
        IF ~IsFile(g, out.rc) THEN [fs |-> g, rc |-> 1] ELSE [fs |-> done, rc |-> code]
  BY DEF redirect_out
<1> HIDE DEF g, h, done, code
<1>5. IsFile(g, out.rc) => Keeps(f, done)
  <2>1. Keeps(f, h)
    BY <1>1, <1>2, KeepsTrans
  <2> QED BY <1>3, <2>1, KeepsTrans
<1> QED BY <1>1, <1>3, <1>4, <1>5 DEF Sound

\* So does tee.
LEMMA TeeSound ==
  ASSUME NEW f, FsOK(f), NEW c \in Nodes(f), NEW p \in Path,
         NEW append \in BOOLEAN, NEW data \in Seq(Nat)
  PROVE  Sound(f, cmd_tee(f, c, p, append, data))
<1> DEFINE out == OpenOut(f, c, p)
           g   == out.fs
           h   == IF append THEN g ELSE vfs_truncate(g, out.rc)
           done == vfs_append_file(h, out.rc, data).fs
<1>1. Keeps(f, g) /\ FsOK(g)
  BY OpenOutKeeps DEF Keeps
<1>2. Keeps(g, h) /\ FsOK(h)
  <2> HIDE DEF g
  <2>1. Keeps(g, g) /\ Keeps(g, vfs_truncate(g, out.rc))
    BY <1>1, KeepsItself, TruncateKeeps DEF Rewritten
  <2>2. Keeps(g, h)
    BY <2>1, Zenon
  <2> QED BY <2>2 DEF Keeps
<1>3. Keeps(h, done)
  <2> HIDE DEF h
  <2> QED BY <1>2, AppendKeeps DEF Rewritten
<1>4. cmd_tee(f, c, p, append, data) =
        IF ~IsFile(g, out.rc) THEN [fs |-> g, rc |-> 1]
        ELSE [fs |-> IF data = <<>> THEN h ELSE done, rc |-> 0]
  BY DEF cmd_tee
<1> HIDE DEF g, h, done
<1>5. Keeps(f, h)
  BY <1>1, <1>2, KeepsTrans
<1>6. Keeps(f, done)
  BY <1>3, <1>5, KeepsTrans
<1> QED BY <1>1, <1>4, <1>5, <1>6 DEF Sound

\* Taking heap for something else touches no node.
LEMMA ChargeKeeps ==
  ASSUME NEW f, FsOK(f), NEW n \in Nat, Room(f, n)
  PROVE  Keeps(f, Charge(f, n))
<1> DEFINE u == f.used + AlignUp(n)
           g == Charge(f, n)
<1>1. FsType(f) /\ g = [node |-> f.node, used |-> u] /\ u \in Nat /\ u <= HeapSize
  BY ChargeFits DEF FsOK
<1> HIDE DEF g, u
<1>2. g.node = f.node /\ g.used = u /\ FsType(g)
  BY <1>1, FsFacts DEF FsType
<1>3. TreeOK(g)
  <2> HIDE DEF TreeOK
  <2> QED BY <1>2, SameTree DEF FsOK, Nodes
<1>4. BuffersOK(g)
  BY <1>1, <1>2 DEF BuffersOK, FsOK, Nodes
<1>5. Len(f.node) <= Len(g.node) /\ \A n2 \in Nodes(f) : g.node[n2].type = f.node[n2].type
  BY <1>1, <1>2, FsFacts
<1>6. Keeps(f, g)
  BY <1>2, <1>3, <1>4, <1>5 DEF Keeps, FsOK
<1> QED BY <1>6 DEF g

-----------------------------------------------------------------------------
(* The first file system.                                                  *)

\* The file system vfs_init starts from: the root alone.
LEMMA RootOK ==
  LET root == [node |-> <<NewNode("dir", "", vfs_root)>>, used |-> AlignUp(NodeSize)]
  IN  FsOK(root) /\ IsDir(root, vfs_root) /\ Len(root.node) = 1
      /\ Len(root.node[vfs_root].children) = 0
<1> DEFINE e == NewNode("dir", "", vfs_root)
           root == [node |-> <<e>>, used |-> AlignUp(NodeSize)]
<1>1. /\ e \in VNode /\ e.type = "dir" /\ e.parent = vfs_root
      /\ Len(e.children) = 0 /\ e.child_cap = 0 /\ e.data = <<>> /\ e.cap = 0
  <2> DEFINE name == ""
             type == "dir"
  <2>1. type \in {"file", "dir"} /\ name \in STRING /\ vfs_root \in Nat
    BY NamesAssumption DEF vfs_root
  <2>2. e = NewNode(type, name, vfs_root) /\ type = "dir"
    OBVIOUS
  <2> HIDE DEF name, type, e
  <2> QED BY <2>1, <2>2, NewNodeIs
<1>2. AlignUp(NodeSize) \in Nat /\ AlignUp(NodeSize) <= HeapSize
  <2>1. NodeSize \in Nat /\ HeapSize \in Nat
    BY VfsAssumption
  <2>2. AlignUp(NodeSize) \in Nat
    BY <2>1, AlignUpType
  <2> QED BY <2>1, <2>2, BootAssumption
<1> HIDE DEF e
<1>3. /\ root.node \in Seq(VNode) /\ Len(root.node) = 1 /\ root.node[1] = e
      /\ root.used = AlignUp(NodeSize) /\ FsType(root)
  BY <1>1, <1>2 DEF FsType
<1> HIDE DEF root
<1>4. Nodes(root) = {1} /\ IsDir(root, vfs_root)
  BY <1>1, <1>3 DEF Nodes, IsDir, vfs_root
<1>5. TreeOK(root)
  <2>1. ParentsOK(root)
    BY <1>1, <1>3, <1>4 DEF ParentsOK, vfs_root
  <2>2. ChildrenOK(root) /\ NamesOK(root)
    BY <1>1, <1>3, <1>4 DEF ChildrenOK, NamesOK
  <2> QED BY <1>4, <2>1, <2>2 DEF TreeOK
<1>6. BuffersOK(root)
  BY <1>1, <1>2, <1>3, <1>4 DEF BuffersOK
<1>7. FsOK(root)
  BY <1>3, <1>5, <1>6 DEF FsOK
<1>8. Len(root.node[vfs_root].children) = 0
  BY <1>1, <1>3 DEF vfs_root
<1> QED BY <1>3, <1>4, <1>7, <1>8 DEF root, e

\* No directory below an unlisted one has a child of a name.
LEMMA FreshEmpty ==
  ASSUME NEW f, NEW d, NEW name, Len(f.node[d].children) = 0
  PROVE  Fresh(f, d, name)
BY DEF Fresh

\* A name that differs from the one child is new.
LEMMA FreshOne ==
  ASSUME NEW f, NEW d, NEW name, NEW c,
         f.node[d].children = <<c>>, f.node[c].name # name
  PROVE  Fresh(f, d, name)
BY DEF Fresh

\* vfs_init finds room for the root and /root; what else it makes may not.
LEMMA InitFsOK ==
  /\ FsOK(InitFs) /\ IsDir(InitFs, 2)
  /\ InitFs.node[2].name = "root" /\ InitFs.node[2].parent = vfs_root
<1> DEFINE root == [node |-> <<NewNode("dir", "", vfs_root)>>, used |-> AlignUp(NodeSize)]
           home == mkdir_simple(root, vfs_root, "root")
           tmp  == mkdir_simple(home.fs, vfs_root, "tmp")
           made == MakeIn(tmp.fs, "file", "f", home.rc)
<1>1. /\ FsOK(root) /\ IsDir(root, vfs_root) /\ Len(root.node) = 1
      /\ Len(root.node[vfs_root].children) = 0 /\ root.used = AlignUp(NodeSize)
  BY RootOK
<1>2. Room(root, NodeSize)
  <2>1. AlignUp(NodeSize) \in Nat
    BY VfsAssumption, AlignUpType
  <2> HIDE DEF root
  <2> QED BY <1>1, <2>1, BootAssumption DEF Room, Fits
<1>3. home.rc = 2 /\ Placed(root, "dir", "root", vfs_root, home.fs)
  <2> HIDE DEF root
  <2>1. Fresh(root, vfs_root, "root")
    BY <1>1, FreshEmpty
  <2> DEFINE name == "root"
             type == "dir"
  <2>2. name \in STRING /\ type \in {"file", "dir"} /\ Fresh(root, vfs_root, name)
    BY <2>1, NamesAssumption
  <2>3. mkdir_simple(root, vfs_root, name) = MakeIn(root, type, name, vfs_root)
    BY DEF mkdir_simple
  <2>4. name = "root" /\ type = "dir"
    OBVIOUS
  <2> HIDE DEF name, type
  <2>5. LET m == MakeIn(root, type, name, vfs_root)
        IN  m.rc = Len(root.node) + 1 /\ Placed(root, type, name, vfs_root, m.fs)
    BY <1>1, <1>2, <2>2, MakeInKeeps
  <2>6. home = MakeIn(root, type, name, vfs_root)
    BY <2>3, <2>4
  <2> HIDE DEF home
  <2> QED BY <1>1, <2>4, <2>5, <2>6
<1> DEFINE g == home.fs
<1>4. /\ FsOK(g) /\ Len(g.node) = 2 /\ IsDir(g, vfs_root)
      /\ g.node[2].name = "root" /\ g.node[2].parent = vfs_root
      /\ Len(g.node[2].children) = 0
      /\ \/ Len(g.node[vfs_root].children) = 0
         \/ g.node[vfs_root].children = <<2>>
  <2> HIDE DEF root, g
  <2>1. Keeps(root, g) /\ FsOK(g)
    BY <1>3 DEF Placed, Keeps, g
  <2>2. IsDir(g, vfs_root)
    BY <1>1, <2>1, KeepsDir
  <2>3. /\ Len(g.node) = 2 /\ g.node[2].name = "root" /\ g.node[2].parent = vfs_root
        /\ Len(g.node[2].children) = 0
    BY <1>1, <1>3 DEF Placed, g
  <2>4. g.node[vfs_root].children \in
          {root.node[vfs_root].children, Append(root.node[vfs_root].children, 2)}
    <3> DEFINE new == Len(root.node) + 1
    <3>1. g.node[vfs_root].children \in
            {root.node[vfs_root].children, Append(root.node[vfs_root].children, new)}
      BY <1>3, Zenon DEF Placed, g
    <3>2. new = 2
      BY <1>1
    <3> HIDE DEF new
    <3> QED BY <3>1, <3>2
  <2>5. root.node[vfs_root].children \in Seq(Nat)
    BY <1>1, ListsAreOK DEF Lists, IsDir
  <2>6. root.node[vfs_root].children = <<>>
    BY <1>1, <2>5
  <2>7. Append(<<>>, 2) = <<2>>
    OBVIOUS
  <2>8. Len(<<>>) = 0
    OBVIOUS
  <2> QED BY <2>1, <2>2, <2>3, <2>4, <2>6, <2>7, <2>8
<1>5. Fresh(g, vfs_root, "tmp")
  <2> HIDE DEF g
  <2> QED BY <1>4, FreshEmpty, FreshOne
<1>6. IsDir(g, 2)
  <2> HIDE DEF g, root
  <2>1. g.node[2].type = "dir"
    BY <1>1, <1>3 DEF Placed, g
  <2> QED BY <1>4, <2>1 DEF IsDir, Nodes
<1> DEFINE t == tmp.fs
<1>7. /\ FsOK(t) /\ IsDir(t, 2) /\ Len(t.node[2].children) = 0
      /\ t.node[2].name = "root" /\ t.node[2].parent = vfs_root
  <2> DEFINE name == "tmp"
             type == "dir"
  <2> HIDE DEF g, root
  <2>1. name \in STRING /\ type \in {"file", "dir"} /\ Fresh(g, vfs_root, name)
    BY <1>5, NamesAssumption
  <2>2. t = MakeIn(g, type, name, vfs_root).fs
    BY DEF mkdir_simple, g
  <2> HIDE DEF name, type, t
  <2>3. /\ Keeps(g, t)
        /\ \A n \in Nodes(g) \ {vfs_root} : t.node[n].children = g.node[n].children
    <3>1. CASE Room(g, NodeSize)
      <4>1. Placed(g, type, name, vfs_root, t)
        BY <1>4, <2>1, <2>2, <3>1, MakeInKeeps
      <4> QED BY <4>1 DEF Placed
    <3>2. CASE ~Room(g, NodeSize)
      <4>1. t = g
        BY <1>4, <2>1, <2>2, <3>2, MakeInKeeps
      <4> QED BY <1>4, <4>1, KeepsItself
    <3> QED BY <3>1, <3>2
  <2>4. 2 \in Nodes(g) \ {vfs_root}
    BY <1>6 DEF IsDir, vfs_root
  <2>5. FsOK(t) /\ IsDir(t, 2)
    BY <1>4, <1>6, <2>3, KeepsDir DEF Keeps
  <2>6. t.node[2].name = "root" /\ t.node[2].parent = vfs_root
    BY <1>4, <2>3, <2>4 DEF Keeps
  <2> QED BY <1>4, <2>3, <2>4, <2>5, <2>6
<1> DEFINE h == made.fs
<1>8. Keeps(t, h) /\ FsOK(h)
  <2> DEFINE name == "f"
             type == "file"
  <2> HIDE DEF t, g, root
  <2>1. name \in STRING /\ type \in {"file", "dir"} /\ Fresh(t, 2, name)
    BY <1>7, FreshEmpty, NamesAssumption
  <2>2. h = MakeIn(t, type, name, 2).fs
    BY <1>3 DEF t
  <2> HIDE DEF name, type, h
  <2>3. Keeps(t, h)
    <3>1. CASE Room(t, NodeSize)
      <4>1. Placed(t, type, name, 2, h)
        BY <1>7, <2>1, <2>2, <3>1, MakeInKeeps
      <4> QED BY <4>1 DEF Placed
    <3>2. CASE ~Room(t, NodeSize)
      <4>1. h = t
        BY <1>7, <2>1, <2>2, <3>2, MakeInKeeps
      <4> QED BY <1>7, <4>1, KeepsItself
    <3> QED BY <3>1, <3>2
  <2> QED BY <2>3 DEF Keeps
<1> DEFINE w == vfs_write_file(h, made.rc, <<1>>).fs
<1>9. InitFs = w
  BY DEF InitFs, mkfile_simple
<1>10. Keeps(h, w)
  <2> HIDE DEF h, made
  <2>1. <<1>> \in Seq(Nat)
    OBVIOUS
  <2> QED BY <1>8, <2>1, WriteKeeps DEF Rewritten
<1> HIDE DEF t, h, w
<1>11. Keeps(t, w)
  BY <1>7, <1>8, <1>10, KeepsTrans
<1>12. w.node[2].name = "root" /\ w.node[2].parent = vfs_root
  BY <1>7, <1>11 DEF Keeps, IsDir
<1> QED BY <1>7, <1>9, <1>11, <1>12, KeepsDir DEF Keeps

-----------------------------------------------------------------------------
(* The invariant.                                                          *)

\* The operations of vfs.c yield a file system and what they return.
IsResult(r) == r = [fs |-> r.fs, rc |-> r.rc]

\* What the operations that create and remove return.
LEMMA Results ==
  ASSUME NEW f, NEW c, NEW p, NEW type
  PROVE  /\ IsResult(Create(f, c, p, type))
         /\ IsResult(vfs_rm(f, c, p))
         /\ IsResult(vfs_rm_recursive(f, c, p))
<1>1. ASSUME NEW g, NEW k PROVE IsResult([fs |-> g, rc |-> k])
  BY DEF IsResult
<1>2. ASSUME NEW g, NEW d, NEW n PROVE IsResult(add_child(g, d, n))
  BY <1>1 DEF add_child
<1>3. IsResult(Create(f, c, p, type))
  <2>1. \/ Create(f, c, p, type) = [fs |-> f, rc |-> 0]
        \/ \E g, d, n : Create(f, c, p, type) = add_child(g, d, n)
    BY Zenon DEF Create
  <2> QED BY <1>1, <1>2, <2>1
<1>4. ASSUME NEW n
      PROVE  \E g, k : vfs_unlink_node(f, n) = [fs |-> g, rc |-> k]
  BY Zenon DEF vfs_unlink_node
<1>5. IsResult(vfs_rm(f, c, p))
  <2>1. \/ vfs_rm(f, c, p) = [fs |-> f, rc |-> 0]
        \/ \E n : vfs_rm(f, c, p) = vfs_unlink_node(f, n)
    BY Zenon DEF vfs_rm
  <2> QED BY <1>1, <1>4, <2>1
<1>6. IsResult(vfs_rm_recursive(f, c, p))
  <2>1. \E g, k : vfs_rm_recursive(f, c, p) = [fs |-> g, rc |-> k]
    BY Zenon DEF vfs_rm_recursive, vfs_rm_recursive_node
  <2> QED BY <1>1, <2>1
<1> QED BY <1>3, <1>5, <1>6

\* A command that changes the tree only.
LEMMA LeaveInv ==
  ASSUME IInv, NEW result, Sound(fs, result), Leave(result)
  PROVE  IInv'
<1>1. fs' = result.fs /\ rc' = result.rc /\ cwd' = cwd /\ pwd' = pwd
  BY DEF Leave
<1>2. Keeps(fs, fs') /\ rc' \in {0, 1}
  BY <1>1 DEF Sound
<1>3. FsOK(fs) /\ IsDir(fs, cwd) /\ pwd = PwdOf(fs, cwd) /\ Plain(fs, cwd)
  BY DEF IInv
<1>4. FsOK(fs') /\ IsDir(fs', cwd)
  BY <1>2, <1>3, KeepsDir DEF Keeps
<1>5. PwdOf(fs', cwd) = PwdOf(fs, cwd)
  BY <1>2, <1>3, PwdKept DEF IsDir
<1>6. FsOK(fs') /\ IsDir(fs', cwd') /\ pwd' = PwdOf(fs', cwd') /\ Plain(fs', cwd')
  BY <1>1, <1>3, <1>4, <1>5, Zenon DEF Plain
<1> QED BY <1>2, <1>6 DEF IInv

\* A command that is one operation of the file system keeps the invariant.
LEMMA DoInv ==
  ASSUME IInv, NEW result, Sound(fs, result), IsResult(result), Do(result)
  PROVE  IInv'
<1> DEFINE r == [result EXCEPT !.rc = 1 - @]
<1>1. result.rc \in {0, 1} /\ Keeps(fs, result.fs)
  BY DEF Sound
<1>2. r.fs = result.fs /\ r.rc = 1 - result.rc
  BY DEF IsResult
<1>3. Leave(r)
  BY DEF Do
<1> HIDE DEF r
<1>4. r.rc \in {0, 1}
  BY <1>1, <1>2
<1>5. Sound(fs, r)
  BY <1>1, <1>2, <1>4 DEF Sound
<1> QED BY <1>3, <1>5, LeaveInv

\* A command that fails at once keeps the invariant.
LEMMA FailInv ==
  ASSUME IInv, Fail
  PROVE  IInv'
<1>1. Keeps(fs, fs)
  BY KeepsItself DEF IInv
<1>2. Sound(fs, [fs |-> fs, rc |-> 1])
  BY <1>1 DEF Sound
<1> QED BY <1>2, LeaveInv DEF Fail

\* vfs_init establishes the invariant.
LEMMA InitInv == Init => IInv
<1> SUFFICES ASSUME Init PROVE IInv
  OBVIOUS
<1>1. fs = InitFs /\ cwd = 2 /\ pwd = PwdOf(fs, cwd) /\ rc = 0
  BY DEF Init
<1>2. FsOK(fs) /\ IsDir(fs, cwd)
  BY <1>1, InitFsOK
<1>3. Plain(fs, cwd)
  <2> DEFINE name == "root"
  <2>1. name \notin Special
    BY DEF Special
  <2>2. fs.node[cwd].name = name /\ fs.node[cwd].parent = vfs_root
    BY <1>1, InitFsOK
  <2> HIDE DEF name
  <2>3. cwd \in Nodes(fs) \ {vfs_root}
    BY <1>1, <1>2 DEF IsDir, vfs_root
  <2> QED BY <1>2, <2>1, <2>2, <2>3, PlainIs
<1> QED BY <1>1, <1>2, <1>3 DEF IInv

\* Every command keeps the invariant.
LEMMA NextInv == IInv /\ [Next]_vars => IInv'
<1> SUFFICES ASSUME IInv, [Next]_vars PROVE IInv'
  OBVIOUS
<1>1. FsOK(fs) /\ IsDir(fs, cwd) /\ cwd \in Nodes(fs) /\ Plain(fs, cwd)
  BY DEF IInv, IsDir
<1>2. Keeps(fs, fs)
  BY <1>1, KeepsItself
<1>3. ASSUME NEW p \in Paths, Cd(p) PROVE IInv'
  <2>1. CASE Fail
    BY <2>1, FailInv
  <2>2. CASE ~Fail
    <3>1. /\ IsDir(fs, Resolve(p)) /\ cwd' = Resolve(p) /\ fs' = fs
          /\ pwd' = PwdOf(fs, cwd') /\ rc' = 0
      BY <1>3, <2>2 DEF Cd
    <3>2. IsDir(fs, cwd') /\ cwd' \in Nodes(fs)
      BY <3>1 DEF IsDir
    <3>3. Plain(fs, cwd')
      <4>1. p \in Path
        BY FileCmdsAssumption
      <4>2. Resolve(p) # NULL
        BY <3>1, <3>2 DEF Nodes, NULL
      <4> QED BY <1>1, <3>1, <4>1, <4>2, ResolvePlain DEF Resolve
    <3>4. FsOK(fs') /\ IsDir(fs', cwd') /\ pwd' = PwdOf(fs', cwd') /\ Plain(fs', cwd')
      BY <1>1, <3>1, <3>2, <3>3
    <3> QED BY <3>1, <3>4 DEF IInv
  <2> QED BY <2>1, <2>2
<1>4. ASSUME NEW p \in Paths, Mkdir(p) PROVE IInv'
  <2>1. Sound(fs, vfs_mkdir(fs, cwd, p)) /\ IsResult(vfs_mkdir(fs, cwd, p))
    <3>1. p \in Path
      BY FileCmdsAssumption
    <3> QED BY <1>1, <3>1, CreateKeeps, Results DEF Sound, vfs_mkdir
  <2> QED BY <1>4, <2>1, DoInv DEF Mkdir
<1>5. ASSUME NEW p \in Paths, Touch(p) PROVE IInv'
  <2>1. Sound(fs, vfs_mkfile(fs, cwd, p)) /\ IsResult(vfs_mkfile(fs, cwd, p))
    <3>1. p \in Path
      BY FileCmdsAssumption
    <3> QED BY <1>1, <3>1, CreateKeeps, Results DEF Sound, vfs_mkfile
  <2>2. Sound(fs, [fs |-> fs, rc |-> 0])
    BY <1>2 DEF Sound
  <2>3. \/ Do(vfs_mkfile(fs, cwd, p)) \/ Leave([fs |-> fs, rc |-> 0]) \/ Fail
    BY <1>5 DEF Touch
  <2> QED BY <2>1, <2>2, <2>3, DoInv, LeaveInv, FailInv
<1>6. ASSUME NEW p \in Paths, Rm(p) \/ Rmdir(p) PROVE IInv'
  <2>1. Sound(fs, vfs_rm(fs, cwd, p)) /\ IsResult(vfs_rm(fs, cwd, p))
    <3>1. p \in Path
      BY FileCmdsAssumption
    <3> QED BY <1>1, <3>1, RmKeeps, Results DEF Sound
  <2>2. Do(vfs_rm(fs, cwd, p)) \/ Fail
    BY <1>6 DEF Rm, Rmdir
  <2> QED BY <2>1, <2>2, DoInv, FailInv
<1>7. ASSUME NEW p \in Paths, RmR(p) PROVE IInv'
  <2>1. Sound(fs, vfs_rm_recursive(fs, cwd, p)) /\ IsResult(vfs_rm_recursive(fs, cwd, p))
    <3>1. p \in Path
      BY FileCmdsAssumption
    <3>2. vfs_resolve(fs, cwd, p) \in Nodes(fs) \union {NULL}
      BY <1>1, <3>1, ResolveType
    <3> QED BY <1>1, <3>2, RmRecursiveKeeps, Results DEF Sound, vfs_rm_recursive
  <2>2. Do(vfs_rm_recursive(fs, cwd, p)) \/ Fail
    BY <1>7 DEF RmR
  <2> QED BY <2>1, <2>2, DoInv, FailInv
<1>8. ASSUME NEW s \in Paths, NEW d \in Paths, Cp(s, d) \/ Mv(s, d) PROVE IInv'
  <2>1. Sound(fs, cmd_cp(fs, cwd, s, d)) /\ Sound(fs, cmd_mv(fs, cwd, s, d))
    <3>1. s \in Path /\ d \in Path
      BY FileCmdsAssumption
    <3> QED BY <1>1, <3>1, CpSound, MvSound
  <2>2. Leave(cmd_cp(fs, cwd, s, d)) \/ Leave(cmd_mv(fs, cwd, s, d))
    BY <1>8 DEF Cp, Mv
  <2> QED BY <2>1, <2>2, LeaveInv
<1>9. ASSUME NEW p \in Paths, NEW append \in BOOLEAN, NEW data \in Contents, Tee(p, append, data)
      PROVE  IInv'
  <2>1. Sound(fs, cmd_tee(fs, cwd, p, append, data))
    <3>1. p \in Path /\ data \in Seq(Nat)
      BY FileCmdsAssumption
    <3> QED BY <1>1, <3>1, TeeSound
  <2> QED BY <1>9, <2>1, LeaveInv DEF Tee
<1>12. ASSUME NEW p \in Paths, NEW append \in BOOLEAN, NEW data \in Contents,
              NEW in \in Inputs, NEW status \in {0, 1},
              Redirect(p, append, in, data, status)
       PROVE  IInv'
  <2>1. Sound(fs, redirect_out(fs, cwd, p, append, in, data, status))
    <3>1. p \in Path /\ data \in Seq(Nat)
      BY FileCmdsAssumption
    <3> QED BY <1>1, <3>1, RedirectSound
  <2> QED BY <1>12, <2>1, LeaveInv DEF Redirect
<1>10. ASSUME NEW n \in Scratch, TakeHeap(n) PROVE IInv'
  <2>1. Room(fs, n) /\ Leave([fs |-> Charge(fs, n), rc |-> 0])
    BY <1>10 DEF TakeHeap
  <2>2. n \in Nat
    BY FileCmdsAssumption
  <2>3. Keeps(fs, Charge(fs, n))
    BY <1>1, <2>1, <2>2, ChargeKeeps
  <2>4. Sound(fs, [fs |-> Charge(fs, n), rc |-> 0])
    BY <2>3 DEF Sound
  <2> QED BY <2>1, <2>4, LeaveInv
<1>11. CASE UNCHANGED vars
  BY <1>11, Zenon DEF IInv, vars
<1> QED BY <1>3, <1>4, <1>5, <1>6, <1>7, <1>8, <1>9, <1>10, <1>11, <1>12 DEF Next

\* Every command of src/cmds.c and every redirection leaves the file system
\* well formed and the working directory a directory of it.
THEOREM Invariant == Spec => []IInv
<1> QED BY InitInv, NextInv, PTL DEF Spec

-----------------------------------------------------------------------------
(* The theorems.                                                           *)

\* Every command leaves nodes, names, contents, the working directory and its
\* name of the types the code gives them.
THEOREM TypeCorrect == Spec => []TypeOK
<1>1. IInv => TypeOK
  <2> SUFFICES ASSUME IInv PROVE TypeOK
    OBVIOUS
  <2>1. FsType(fs)
    BY DEF IInv, FsOK
  <2>2. fs.node \in Seq(VNode) /\ fs.used \in Nat
    BY <2>1, FsFacts
  <2>3. cwd \in Nodes(fs) /\ pwd \in Seq(STRING)
    BY PwdOfIs DEF IInv, IsDir
  <2> QED BY <2>2, <2>3 DEF IInv, TypeOK
<1> QED BY <1>1, Invariant, PTL

\* Parent pointers and child arrays agree, names in a directory are distinct and
\* upwards there is no cycle, whatever was removed, moved, overwritten or could
\* not be allocated.
THEOREM TreeSafe == Spec => []TreeInv
<1>1. IInv => TreeInv
  BY DEF IInv, FsOK, TreeInv
<1> QED BY <1>1, Invariant, PTL

\* No child array and no file buffer is written past its end, and the heap the
\* file system takes is the heap there is.
THEOREM BuffersSafe == Spec => []BuffersFit
<1>1. IInv => BuffersFit
  BY DEF IInv, FsOK, BuffersFit
<1> QED BY <1>1, Invariant, PTL

\* The path vfs_update_pwd would write for a node in the tree leads to it, from
\* any working directory.
THEOREM PathsLead == Spec => []PathsResolve
<1>1. IInv => PathsResolve
  <2> SUFFICES ASSUME IInv, NEW n \in Linked(fs),
                      Unresolvable \cap ToSet(PwdOf(fs, n)) = {}
               PROVE  Resolve(AbsPath(PwdOf(fs, n))) = n
    BY DEF PathsResolve
  <2>1. Plain(fs, n)
    <3>1. \A s : Unresolvable \cap s = {} => Special \cap s = {}
      BY DEF Special, Unresolvable
    <3> QED BY <3>1 DEF Plain
  <2>2. FsOK(fs) /\ cwd \in Nodes(fs)
    BY DEF IInv, IsDir
  <2> QED BY <2>1, <2>2, PathResolves DEF Resolve
<1> QED BY <1>1, Invariant, PTL

\* vfs_pwd, written by the last cd, leads to the working directory as long as
\* that is in the tree: no command renames a node or gives it another parent,
\* and cd reaches no directory with "." or ".." or "~" for a name above it.
THEOREM PromptIsTrue == Spec => []PwdFresh
<1>1. IInv => PwdFresh
  <2> SUFFICES ASSUME IInv, cwd \in Linked(fs) PROVE Resolve(AbsPath(pwd)) = cwd
    BY DEF PwdFresh
  <2>1. FsOK(fs) /\ cwd \in Nodes(fs) /\ pwd = PwdOf(fs, cwd) /\ Plain(fs, cwd)
    BY DEF IInv, IsDir
  <2> QED BY <2>1, PathResolves DEF Resolve
<1> QED BY <1>1, Invariant, PTL

-----------------------------------------------------------------------------
(* Part 3: what each command does to the tree and to the files.            *)

\* Nothing that is in the tree is lost, what is new there no path can name, and
\* no file changes.
FailsClean(f, g) ==
  /\ Linked(f) \subseteq Linked(g)
  /\ \A n \in Linked(g) \ Linked(f) : g.node[n].name \in Unresolvable
  /\ \A n \in Nodes(f) : g.node[n].data = f.node[n].data

\* Nothing done is a clean failure.
LEMMA FailsItself ==
  ASSUME NEW f
  PROVE  FailsClean(f, f)
BY DEF FailsClean

\* A command that could not open its output.
LEMMA OpenOutFails ==
  ASSUME NEW f, FsOK(f), NEW c \in Nodes(f), NEW p \in Path,
         ~IsFile(OpenOut(f, c, p).fs, OpenOut(f, c, p).rc)
  PROVE  FailsClean(f, OpenOut(f, c, p).fs)
<1> DEFINE g == OpenOut(f, c, p).fs
<1>1. Edits(f, g, {}, NULL)
  BY OpenOutEdits
<1>2. \A n \in Nodes(f) : g.node[n].data = f.node[n].data
  BY <1>1 DEF Edits, Nodes, NULL
<1>3. Linked(g) \cap Nodes(f) = Linked(f)
  BY <1>1, LinkedKept
<1>4. \A n \in Linked(g) \ Linked(f) : g.node[n].name \in Unresolvable
  <2> SUFFICES ASSUME NEW n \in Linked(g) \ Linked(f)
               PROVE  g.node[n].name \in Unresolvable
    OBVIOUS
  <2>1. n \notin Nodes(f)
    BY <1>3
  <2> QED BY <2>1, OpenOutNew
<1> QED BY <1>2, <1>3, <1>4 DEF FailsClean

\* vfs_mkfile and vfs_mkdir that fail.
LEMMA CreateFails ==
  ASSUME NEW f, FsOK(f), NEW c \in Nodes(f), NEW p \in Path,
         NEW type \in {"file", "dir"}, Create(f, c, p, type).rc = 0
  PROVE  FailsClean(f, Create(f, c, p, type).fs)
<1> DEFINE r == Create(f, c, p, type)
           g == r.fs
<1>1. /\ Edits(f, g, {}, NULL)
      /\ \A n \in Nodes(g) \ Nodes(f) : n \notin Children(g, g.node[n].parent)
  BY CreateEdits
<1> HIDE DEF r
<1>2. \A n \in Nodes(f) : g.node[n].data = f.node[n].data
  BY <1>1 DEF Edits, Nodes, NULL
<1>3. Linked(g) \cap Nodes(f) = Linked(f)
  BY <1>1, LinkedKept
<1>4. FsOK(g) /\ vfs_root \in Nodes(f)
  BY <1>1 DEF Edits, Keeps, FsOK, TreeOK, IsDir
<1>5. Linked(g) \subseteq Nodes(f)
  <2> SUFFICES ASSUME NEW n \in Linked(g), n \notin Nodes(f) PROVE FALSE
    OBVIOUS
  <2>1. n \in Nodes(g) \ {vfs_root}
    BY <1>4, LinkedIs
  <2>2. n \in Children(g, g.node[n].parent)
    BY <1>4, <2>1, LinkedIs
  <2> QED BY <1>1, <2>1, <2>2
<1>6. FailsClean(f, g)
  BY <1>2, <1>3, <1>5 DEF FailsClean
<1> QED BY <1>6 DEF r

\* vfs_rm takes one node away that lists nothing, or does nothing.
LEMMA RmIs ==
  ASSUME NEW f, FsOK(f), NEW c \in Nodes(f), NEW p \in Path
  PROVE  LET n == vfs_resolve(f, c, p)
         IN  \/ vfs_rm(f, c, p) = [fs |-> f, rc |-> 0]
             \/ /\ n \in Nodes(f) \ {vfs_root} /\ Children(f, n) = {}
                /\ \E g : /\ vfs_rm(f, c, p) = [fs |-> g, rc |-> 1]
                          /\ Unlinked(f, g, n)
<1> DEFINE n == vfs_resolve(f, c, p)
<1>1. n \in Nodes(f) \union {NULL}
  BY ResolveType
<1>2. CASE vfs_rm(f, c, p) = [fs |-> f, rc |-> 0]
  BY <1>2
<1>3. CASE vfs_rm(f, c, p) # [fs |-> f, rc |-> 0]
  <2>1. /\ n \notin {NULL, vfs_root}
        /\ ~(f.node[n].type = "dir" /\ f.node[n].children # <<>>)
        /\ vfs_rm(f, c, p) = vfs_unlink_node(f, n)
    BY <1>3 DEF vfs_rm
  <2>2. n \in Nodes(f) \ {vfs_root}
    BY <1>1, <2>1
  <2> HIDE DEF n
  <2>3. Children(f, n) = {}
    <3>1. CASE f.node[n].children = <<>>
      BY <3>1 DEF Children, ToSet
    <3>2. CASE f.node[n].type # "dir"
      <4>1. f.node[n] \in VNode
        BY <2>2, FsFacts DEF FsOK
      <4>2. f.node[n].type = "file"
        BY <3>2, <4>1 DEF VNode
      <4> QED BY <2>2, <4>2, FilesListNothing DEF IsFile
    <3> QED BY <2>1, <3>1, <3>2
  <2>4. PICK g : vfs_unlink_node(f, n) = [fs |-> g, rc |-> 1] /\ Unlinked(f, g, n)
    BY <1>1, <1>3, <2>1, UnlinkIs DEF n
  <2> QED BY <2>1, <2>2, <2>3, <2>4 DEF n
<1> QED BY <1>2, <1>3

\* cp writes one file, which it finds or makes, or changes no file at all.
LEMMA CpIs ==
  ASSUME NEW f, FsOK(f), NEW c \in Nodes(f), NEW s \in Path, NEW d \in Path
  PROVE  LET src == vfs_resolve(f, c, s)
             o   == OpenOut(f, c, CpTarget(f, c, s, d))
             r   == cmd_cp(f, c, s, d)
         IN  \/ r.rc = 1 /\ FailsClean(f, r.fs) /\ Edits(f, r.fs, {}, NULL)
             \/ /\ r.rc = 0 /\ IsFile(f, src) /\ IsFile(o.fs, o.rc)
                /\ r.fs = vfs_write_file(o.fs, o.rc, f.node[src].data).fs
                /\ Rewritten(o.fs, r.fs, o.rc)
                /\ Edits(f, o.fs, {}, o.rc) /\ Edits(f, r.fs, {}, o.rc)
<1> DEFINE src == vfs_resolve(f, c, s)
           t   == CpTarget(f, c, s, d)
           o   == OpenOut(f, c, t)
           g   == o.fs
           n   == o.rc
           r   == cmd_cp(f, c, s, d)
<1>1. t \in Path
  BY CpTargetType
<1>2. r = IF ~IsFile(f, src) THEN [fs |-> f, rc |-> 1]
          ELSE IF ~IsFile(g, n) THEN [fs |-> g, rc |-> 1]
          ELSE [fs |-> vfs_write_file(g, n, g.node[src].data).fs, rc |-> 0]
  BY DEF cmd_cp
<1>3. Edits(f, g, {}, NULL) /\ Edits(f, g, {}, n) /\ FsOK(g)
  <2> HIDE DEF t
  <2>1. \A w : Edits(f, OpenOut(f, c, t).fs, {}, w)
    BY <1>1, OpenOutEdits
  <2> QED BY <2>1 DEF Edits, Keeps
<1>4. ~IsFile(g, n) => FailsClean(f, g)
  <2> HIDE DEF t
  <2> QED BY <1>1, OpenOutFails
<1> SUFFICES \/ r.rc = 1 /\ FailsClean(f, r.fs) /\ Edits(f, r.fs, {}, NULL)
             \/ /\ r.rc = 0 /\ IsFile(f, src) /\ IsFile(g, n)
                /\ r.fs = vfs_write_file(g, n, f.node[src].data).fs
                /\ Rewritten(g, r.fs, n)
                /\ Edits(f, g, {}, n) /\ Edits(f, r.fs, {}, n)
  BY Zenon
<1> HIDE DEF r, g, n, src
<1>5. CASE ~IsFile(f, src)
  BY <1>2, <1>5, FailsItself, EditsItself
<1>6. CASE IsFile(f, src) /\ ~IsFile(g, n)
  <2>1. r = [fs |-> g, rc |-> 1]
    BY <1>2, <1>6
  <2> QED BY <1>3, <1>4, <1>6, <2>1
<1>7. CASE IsFile(f, src) /\ IsFile(g, n)
  <2> DEFINE data == f.node[src].data
             h    == vfs_write_file(g, n, data).fs
  <2>1. src \in Nodes(f) /\ src # NULL
    BY <1>7 DEF IsFile, Nodes, NULL
  <2>2. g.node[src].data = data
    BY <1>3, <2>1 DEF Edits
  <2>3. data \in Seq(Nat)
    BY <2>1, DataType
  <2> HIDE DEF data
  <2>4. Rewritten(g, h, n)
    BY <1>3, <2>3, WriteKeeps
  <2>5. r = [fs |-> h, rc |-> 0]
    BY <1>2, <1>7, <2>2
  <2> HIDE DEF h
  <2>6. Edits(g, h, {}, n)
    BY <1>3, <2>4, EditsSame DEF Rewritten
  <2>7. Edits(f, h, {}, n)
    <3>1. Edits(f, h, {} \union {}, n)
      BY <1>3, <2>6, EditsTrans
    <3> QED BY <3>1
  <2>8. r.rc = 0 /\ r.fs = h /\ h = vfs_write_file(g, n, f.node[src].data).fs
    BY <2>5 DEF h, data
  <2> QED BY <1>3, <1>7, <2>4, <2>7, <2>8
<1> QED BY <1>5, <1>6, <1>7

\* A mv whose copy is made takes the source away: a file that was found is
\* listed, and found again.
LEMMA MvIs ==
  ASSUME NEW f, FsOK(f), NEW c, IsDir(f, c), NEW s \in Path, NEW d \in Path
  PROVE  LET src == vfs_resolve(f, c, s)
             o   == OpenOut(f, c, CpTarget(f, c, s, d))
             r   == cmd_mv(f, c, s, d)
         IN  \/ r.rc = 1 /\ FailsClean(f, r.fs) /\ Edits(f, r.fs, {}, NULL)
             \/ /\ r.rc = 0 /\ cmd_cp(f, c, s, d).rc = 0
                /\ src \in Nodes(f) \ {vfs_root} /\ Children(f, src) = {}
                /\ Unlinked(cmd_cp(f, c, s, d).fs, r.fs, src)
                /\ Edits(f, r.fs, {src}, o.rc)
<1> DEFINE src == vfs_resolve(f, c, s)
           w   == OpenOut(f, c, CpTarget(f, c, s, d)).rc
           cp  == cmd_cp(f, c, s, d)
           k   == cp.fs
           rm  == vfs_rm(k, c, s)
           r   == cmd_mv(f, c, s, d)
<1> SUFFICES \/ r.rc = 1 /\ FailsClean(f, r.fs) /\ Edits(f, r.fs, {}, NULL)
             \/ /\ r.rc = 0 /\ cp.rc = 0
                /\ src \in Nodes(f) \ {vfs_root} /\ Children(f, src) = {}
                /\ Unlinked(k, r.fs, src)
                /\ Edits(f, r.fs, {src}, w)
  BY Zenon
<1>1. r = IF cp.rc # 0 THEN cp ELSE [fs |-> rm.fs, rc |-> 1 - rm.rc]
  BY DEF cmd_mv
<1>2. c \in Nodes(f)
  BY DEF IsDir
<1>3. \/ cp.rc = 1 /\ FailsClean(f, k) /\ Edits(f, k, {}, NULL)
      \/ cp.rc = 0 /\ IsFile(f, src) /\ Edits(f, k, {}, w)
  BY <1>2, CpIs, Zenon
<1> HIDE DEF r, cp, w, src
<1>4. CASE cp.rc # 0
  BY <1>1, <1>3, <1>4
<1>5. CASE cp.rc = 0
  <2>1. IsFile(f, src) /\ Edits(f, k, {}, w) /\ Keeps(f, k)
    BY <1>3, <1>5 DEF Edits
  <2>2. src \in Nodes(f) \ {vfs_root} /\ src # NULL /\ Children(f, src) = {}
    BY <2>1, FilesListNothing DEF IsFile, Nodes, NULL
  <2>3. FsOK(k) /\ Nodes(f) \subseteq Nodes(k) /\ IsDir(k, c)
    BY <2>1, KeepsNodes, KeepsDir
  <2>4. vfs_resolve(k, c, s) = src
    BY <1>2, <2>1, <2>2, ResolveKept DEF src
  <2>5. IsFile(k, src)
    BY <2>1, <2>3 DEF IsFile, Keeps
  <2>6. src \in Children(k, k.node[src].parent)
    BY <2>3, <2>4, <2>5, ResolvedIsListed
  <2> HIDE DEF k
  <2>7. vfs_rm(k, c, s) = vfs_unlink_node(k, src)
    <3> DEFINE type == k.node[src].type
    <3>1. type # "dir"
      BY <2>5 DEF IsFile
    <3>2. src \notin {NULL, vfs_root} /\ ~(type = "dir" /\ k.node[src].children # <<>>)
      BY <2>2, <3>1
    <3> QED BY <2>4, <3>2 DEF vfs_rm
  <2>8. PICK g : vfs_unlink_node(k, src) = [fs |-> g, rc |-> 1] /\ Unlinked(k, g, src)
    BY <2>2, <2>3, <2>6, UnlinkIs
  <2>9. Edits(k, g, {src}, w)
    BY <2>3, <2>8, EditsUnlinked
  <2>10. Edits(f, g, {src}, w)
    <3>1. Edits(f, g, {} \union {src}, w)
      BY <2>1, <2>9, EditsTrans
    <3> QED BY <3>1
  <2>11. r.fs = g /\ r.rc = 0
    BY <1>1, <1>5, <2>7, <2>8
  <2> QED BY <1>5, <2>2, <2>8, <2>10, <2>11
<1> QED BY <1>4, <1>5

\* A redirection that fails once its output is open has at most made that file,
\* emptied it or written to it, and kept what was there after >>.
Contained(f, g, c, p, append) ==
  /\ Linked(f) \subseteq Linked(g)
  /\ \A n \in Linked(g) \ Linked(f) :
       g.node[n].name \in Unresolvable \/ n = vfs_resolve(g, c, p)
  /\ \A n \in Nodes(f) :
       \/ g.node[n].data = f.node[n].data
       \/ /\ n = vfs_resolve(g, c, p)
          /\ append => IsPrefix(f.node[n].data, g.node[n].data)

\* Writes to an output that was opened.
LEMMA OutputIs ==
  ASSUME NEW f, FsOK(f), NEW c \in Nodes(f), NEW p \in Path, NEW g,
         IsFile(OpenOut(f, c, p).fs, OpenOut(f, c, p).rc),
         Rewritten(OpenOut(f, c, p).fs, g, OpenOut(f, c, p).rc)
  PROVE  /\ Edits(f, g, {}, OpenOut(f, c, p).rc)
         /\ OpenOut(f, c, p).rc = vfs_resolve(g, c, p)
         /\ \A append \in BOOLEAN :
              (append => Begins(OpenOut(f, c, p).fs.node[OpenOut(f, c, p).rc].data,
                                g.node[OpenOut(f, c, p).rc].data))
                => Contained(f, g, c, p, append)
<1> DEFINE o == OpenOut(f, c, p).fs
           n == OpenOut(f, c, p).rc
<1>1. /\ Edits(f, o, {}, NULL) /\ Edits(f, o, {}, n) /\ n = vfs_resolve(o, c, p)
      /\ FsOK(o) /\ c \in Nodes(o) /\ Nodes(f) \subseteq Nodes(o)
  <2>1. \A w : Edits(f, o, {}, w) /\ n = vfs_resolve(o, c, p)
    BY OpenOutEdits
  <2> HIDE DEF o, n
  <2>2. FsOK(o) /\ Nodes(f) \subseteq Nodes(o)
    BY <2>1, KeepsNodes DEF Edits
  <2> QED BY <2>1, <2>2
<1>2. \A x \in Linked(o) \ Nodes(f) : o.node[x].name \in Unresolvable \/ x = n
  BY OpenOutNew
<1>3. IsFile(o, n) /\ Rewritten(o, g, n)
  OBVIOUS
<1> HIDE DEF o, n
<1>4. Edits(o, g, {}, n)
  BY <1>1, <1>3, EditsSame DEF Rewritten
<1>5. Edits(f, g, {}, n)
  <2>1. Edits(f, g, {} \union {}, n)
    BY <1>1, <1>4, EditsTrans
  <2> QED BY <2>1
<1>6. n = vfs_resolve(g, c, p)
  <2>1. n # NULL
    BY <1>3 DEF IsFile, Nodes, NULL
  <2> QED BY <1>1, <1>4, <2>1, ResolveKept
<1>7. Linked(f) \subseteq Linked(g)
  BY <1>5, LinkedKept
<1>8. ASSUME NEW x \in Linked(g) \ Linked(f)
      PROVE  g.node[x].name \in Unresolvable \/ x = n
  <2>1. Linked(g) \cap Nodes(f) = Linked(f)
    BY <1>5, LinkedKept
  <2>2. Linked(g) = Linked(o) /\ Linked(o) \subseteq Nodes(o)
    <3>1. FsOK(g) /\ Nodes(g) = Nodes(o)
      BY <1>3 DEF Rewritten, Keeps, Nodes
    <3>2. Linked(g) \subseteq Nodes(g)
      BY <3>1, LinkedIs
    <3>3. Linked(g) \cap Nodes(o) = Linked(o)
      BY <1>1, <1>4, LinkedKept
    <3>4. Linked(o) \subseteq Nodes(o)
      BY <1>1, LinkedIs
    <3> QED BY <3>1, <3>2, <3>3, <3>4
  <2>3. x \in Linked(o) \ Nodes(f) /\ x \in Nodes(o)
    BY <2>1, <2>2
  <2>4. g.node[x].name = o.node[x].name
    BY <1>3, <2>3 DEF Rewritten, Keeps
  <2> QED BY <1>2, <2>3, <2>4
<1>9. ASSUME NEW append \in BOOLEAN,
             append => Begins(o.node[n].data, g.node[n].data)
      PROVE  Contained(f, g, c, p, append)
  <2>1. ASSUME NEW x \in Nodes(f), g.node[x].data # f.node[x].data, append
        PROVE  IsPrefix(f.node[x].data, g.node[x].data)
    <3>1. x = n
      BY <1>5, <2>1 DEF Edits
    <3>2. x # NULL /\ x \in Nodes(o) /\ x \in Nodes(g) /\ FsOK(g)
      BY <1>1, <1>3, <2>1 DEF Nodes, NULL, Rewritten, Keeps
    <3>3. o.node[x].data = f.node[x].data
      BY <1>1, <2>1, <3>2 DEF Edits
    <3>4. o.node[x].data \in Seq(Nat) /\ g.node[x].data \in Seq(Nat)
      BY <1>1, <3>2, DataType
    <3> QED BY <1>9, <2>1, <3>1, <3>3, <3>4, BeginsIs
  <2>2. \A x \in Nodes(f) : g.node[x].data # f.node[x].data => x = n
    BY <1>5 DEF Edits
  <2> QED BY <1>6, <1>7, <1>8, <2>1, <2>2 DEF Contained
<1> QED BY <1>5, <1>6, <1>9 DEF o, n

\* A redirection opens its output, or fails clean; once it is open it writes
\* there only, whatever becomes of the command.
LEMMA RedirectIs ==
  ASSUME NEW f, FsOK(f), NEW c \in Nodes(f), NEW p \in Path, NEW append \in BOOLEAN,
         NEW in, NEW data \in Seq(Nat), NEW status \in {0, 1}
  PROVE  LET r == redirect_out(f, c, p, append, in, data, status)
         IN  \/ r.rc = 1 /\ FailsClean(f, r.fs) /\ Edits(f, r.fs, {}, NULL)
             \/ /\ r.rc \in {0, 1} /\ Edits(f, r.fs, {}, OpenOut(f, c, p).rc)
                /\ Contained(f, r.fs, c, p, append)
<1> DEFINE o == OpenOut(f, c, p)
           g == o.fs
           n == o.rc
           h == IF append THEN g ELSE vfs_truncate(g, n)
           ready == in = EmptyPath \/ IsFile(h, vfs_resolve(h, c, in))
           print == IF ready THEN data ELSE Message
           code == IF ready THEN status ELSE 1
           done == OutRaw(h, n, print)
           r == redirect_out(f, c, p, append, in, data, status)
<1>1. Edits(f, g, {}, NULL) /\ FsOK(g)
  <2>1. Edits(f, g, {}, NULL)
    BY OpenOutEdits
  <2> HIDE DEF g
  <2> QED BY <2>1 DEF Edits, Keeps
<1>2. ~IsFile(g, n) => FailsClean(f, g)
  BY OpenOutFails
<1>3. r = IF ~IsFile(g, n) THEN [fs |-> g, rc |-> 1] ELSE [fs |-> done, rc |-> code]
  BY DEF redirect_out
<1>4. CASE ~IsFile(g, n)
  <2>1. r = [fs |-> g, rc |-> 1]
    BY <1>3, <1>4
  <2> HIDE DEF r, g
  <2>2. r.rc = 1 /\ r.fs = g
    BY <2>1
  <2> QED BY <1>1, <1>2, <1>4, <2>2 DEF r
<1>5. CASE IsFile(g, n)
  <2>1. r = [fs |-> done, rc |-> code]
    BY <1>3, <1>5
  <2>2. print \in Seq(Nat) /\ code \in {0, 1}
    <3> HIDE DEF ready
    <3> QED BY FileCmdsAssumption
  <2>3. Rewritten(g, h, n) /\ FsOK(h) /\ n \in Nodes(h)
    <3>1. Rewritten(g, g, n) /\ Rewritten(g, vfs_truncate(g, n), n)
      <4> HIDE DEF g, n
      <4> QED BY <1>1, RewrittenItself, TruncateKeeps
    <3>2. Rewritten(g, h, n)
      BY <3>1, Zenon
    <3> HIDE DEF h, g, n
    <3> QED BY <1>5, <3>2 DEF Rewritten, Keeps, IsFile, Nodes
  <2>4. append => h = g
    OBVIOUS
  <2> HIDE DEF print, code, h
  <2>5. Rewritten(h, done, n) /\ Begins(h.node[n].data, done.node[n].data)
    <3> HIDE DEF g, n
    <3> QED BY <2>2, <2>3, OutRawKeeps
  <2> HIDE DEF done
  <2>6. Rewritten(g, done, n)
    <3> HIDE DEF g, n
    <3> QED BY <1>1, <2>3, <2>5, RewrittenTrans
  <2>7. append => Begins(g.node[n].data, done.node[n].data)
    <3> HIDE DEF g, n
    <3> QED BY <2>4, <2>5
  <2>8. Edits(f, done, {}, n) /\ Contained(f, done, c, p, append)
    BY <1>5, <2>6, <2>7, OutputIs
  <2> HIDE DEF r
  <2>9. r.rc = code /\ r.fs = done
    BY <2>1
  <2> QED BY <2>2, <2>8, <2>9 DEF r
<1> QED BY <1>4, <1>5

\* tee, too, writes what it finds or makes.
LEMMA TeeIs ==
  ASSUME NEW f, FsOK(f), NEW c \in Nodes(f), NEW p \in Path,
         NEW append \in BOOLEAN, NEW data \in Seq(Nat)
  PROVE  LET r == cmd_tee(f, c, p, append, data)
         IN  \/ r.rc = 1 /\ FailsClean(f, r.fs) /\ Edits(f, r.fs, {}, NULL)
             \/ r.rc = 0 /\ Edits(f, r.fs, {}, OpenOut(f, c, p).rc)
<1> DEFINE o == OpenOut(f, c, p)
           g == o.fs
           n == o.rc
           h == IF append THEN g ELSE vfs_truncate(g, n)
           done == IF data = <<>> THEN h ELSE vfs_append_file(h, n, data).fs
           r == cmd_tee(f, c, p, append, data)
<1>1. Edits(f, g, {}, NULL) /\ FsOK(g)
  <2>1. Edits(f, g, {}, NULL)
    BY OpenOutEdits
  <2> HIDE DEF g
  <2> QED BY <2>1 DEF Edits, Keeps
<1>2. ~IsFile(g, n) => FailsClean(f, g)
  BY OpenOutFails
<1>3. r = IF ~IsFile(g, n) THEN [fs |-> g, rc |-> 1] ELSE [fs |-> done, rc |-> 0]
  BY DEF cmd_tee
<1>4. CASE ~IsFile(g, n)
  <2>1. r = [fs |-> g, rc |-> 1]
    BY <1>3, <1>4
  <2> HIDE DEF r, g
  <2>2. r.rc = 1 /\ r.fs = g
    BY <2>1
  <2> QED BY <1>1, <1>2, <1>4, <2>2 DEF r
<1>5. CASE IsFile(g, n)
  <2>1. r = [fs |-> done, rc |-> 0]
    BY <1>3, <1>5
  <2>2. Rewritten(g, h, n) /\ FsOK(h)
    <3>1. Rewritten(g, g, n) /\ Rewritten(g, vfs_truncate(g, n), n)
      <4> HIDE DEF g, n
      <4> QED BY <1>1, RewrittenItself, TruncateKeeps
    <3>2. Rewritten(g, h, n)
      BY <3>1, Zenon
    <3> HIDE DEF h, g, n
    <3> QED BY <3>2 DEF Rewritten, Keeps
  <2> HIDE DEF h
  <2>3. Rewritten(h, done, n)
    <3>1. Rewritten(h, h, n) /\ Rewritten(h, vfs_append_file(h, n, data).fs, n)
      <4> HIDE DEF g, n
      <4> QED BY <2>2, RewrittenItself, AppendKeeps
    <3> QED BY <3>1, Zenon
  <2> HIDE DEF done
  <2>4. Rewritten(g, done, n)
    <3> HIDE DEF g, n
    <3> QED BY <1>1, <2>2, <2>3, RewrittenTrans
  <2>5. Edits(f, done, {}, n)
    BY <1>5, <2>4, OutputIs
  <2> HIDE DEF r
  <2>6. r.rc = 0 /\ r.fs = done
    BY <2>1
  <2> QED BY <2>5, <2>6 DEF r
<1> QED BY <1>4, <1>5

\* vfs_rm_recursive takes a node and all below it away, or leaves the tree.
LEMMA RmRecursiveEdits ==
  ASSUME NEW f, FsOK(f), NEW n \in Nodes(f) \union {NULL}
  PROVE  LET r == vfs_rm_recursive_node(f, n)
         IN  \/ r = [fs |-> f, rc |-> 0]
             \/ /\ n \in Nodes(f) \ {vfs_root} /\ r.rc \in {0, 1}
                /\ Edits(f, r.fs, Subtree(f, n), NULL)
                /\ r.rc = 0 => n \notin Linked(f) /\ FailsClean(f, r.fs)
<1> DEFINE r == vfs_rm_recursive_node(f, n)
           S == Subtree(f, n)
<1>1. CASE n \in {NULL, vfs_root}
  BY <1>1, RmNothing
<1>2. CASE n \notin {NULL, vfs_root}
  <2>1. n \in Nodes(f) \ {vfs_root}
    BY <1>2
  <2>2. PICK g, code :
          /\ r = [fs |-> g, rc |-> code]
          /\ code \in {0, 1} /\ Len(g.node) = Len(f.node)
          /\ code = 0 => n \notin Children(f, f.node[n].parent)
          /\ Edits(f, g, S, NULL)
    BY <2>1, EditsRmRecursive
  <2> HIDE DEF r, S
  <2>3. ASSUME code = 0 PROVE n \notin Linked(f) /\ FailsClean(f, g)
    <3>1. n \notin Linked(f)
      BY <2>1, <2>2, <2>3, LinkedIs
    <3>2. S \cap Linked(f) = {}
      BY <2>1, <3>1, SubtreeLinked DEF S
    <3>3. vfs_root \in Linked(f) /\ Linked(f) \subseteq Nodes(f)
      BY LinkedIs
    <3>4. \A m \in Linked(f) \ {vfs_root} : f.node[m].parent \notin S
      BY <3>2, <3>3, LinkedIs
    <3>5. Linked(g) \cap Nodes(f) = Linked(f) \ S
      BY <2>2, <3>2, <3>3, <3>4, LinkedAfter
    <3>6. Linked(g) = Linked(f)
      <4>1. Linked(g) \subseteq Nodes(f)
        <5>1. FsOK(g) /\ Nodes(g) = Nodes(f)
          BY <2>2 DEF Edits, Keeps, Nodes
        <5> QED BY <5>1, LinkedIs
      <4> QED BY <3>2, <3>5, <4>1
    <3>7. \A m \in Nodes(f) : g.node[m].data = f.node[m].data
      BY <2>2 DEF Edits, Nodes, NULL
    <3> QED BY <3>1, <3>6, <3>7 DEF FailsClean
  <2>4. r.fs = g /\ r.rc = code
    BY <2>2
  <2> QED BY <2>1, <2>2, <2>3, <2>4 DEF r, S
<1> QED BY <1>1, <1>2

\* What a step does: the nodes of R leave their lists, the file w is written.
StepIs(R, w) ==
  /\ Edits(fs, fs', R, w)
  /\ \/ w = NULL
     \/ /\ last'.cmd \in {"cp", "mv", ">", ">>", "tee"}
        /\ w = OpenOut(fs, cwd, Destination(last')).rc
  /\ rc' # 0 => \/ FailsClean(fs, fs')
                \/ /\ last'.cmd \in {">", ">>"}
                   /\ Contained(fs, fs', cwd', last'.dst, last'.cmd = ">>")
  /\ LET n == Resolve(last'.src)
     IN  \/ /\ R = {}
            /\ rc' = 0 => last'.cmd \notin {"rm", "rmdir", "mv", "rm -r"}
         \/ /\ R = {n} /\ rc' = 0 /\ last'.cmd \in {"rm", "rmdir", "mv"}
            /\ n \in Nodes(fs) \ {vfs_root} /\ Children(fs, n) = {}
         \/ /\ R = Subtree(fs, n) /\ last'.cmd = "rm -r"
            /\ n \in Nodes(fs) \ {vfs_root}
            /\ rc' # 0 => n \notin Linked(fs)

\* A command that is one operation returns the opposite of what it returned.
LEMMA DoIs ==
  ASSUME NEW result, IsResult(result), result.rc \in {0, 1}, Do(result)
  PROVE  fs' = result.fs /\ (rc' = 0 <=> result.rc = 1) /\ (rc' = 1 <=> result.rc = 0)
         /\ rc' \in {0, 1}
<1> DEFINE r == [result EXCEPT !.rc = 1 - @]
<1>1. r.fs = result.fs /\ r.rc = 1 - result.rc
  BY DEF IsResult
<1>2. Leave(r)
  BY DEF Do
<1> HIDE DEF r
<1>3. fs' = result.fs /\ rc' = 1 - result.rc
  BY <1>1, <1>2 DEF Leave
<1>4. CASE result.rc = 0
  <2>1. rc' = 1
    BY <1>3, <1>4
  <2> QED BY <1>3, <1>4, <2>1
<1>5. CASE result.rc = 1
  <2>1. rc' = 0
    BY <1>3, <1>5
  <2> QED BY <1>3, <1>5, <2>1
<1> QED BY <1>4, <1>5

\* A step that takes nothing away and is no successful removal.
LEMMA StepKeepsTree ==
  ASSUME Edits(fs, fs', {}, NULL), rc' # 0 => FailsClean(fs, fs'),
         rc' = 0 => last'.cmd \notin {"rm", "rmdir", "mv", "rm -r"}
  PROVE  StepIs({}, NULL)
BY Zenon DEF StepIs

\* A command that fails at once.
LEMMA FailStep ==
  ASSUME FsOK(fs), fs' = fs, rc' = 1
  PROVE  StepIs({}, NULL)
<1>1. Edits(fs, fs', {}, NULL) /\ FailsClean(fs, fs')
  BY EditsItself, FailsItself
<1> QED BY <1>1, StepKeepsTree

\* mkdir, and touch where there is nothing.
LEMMA CreateStep ==
  ASSUME FsOK(fs), cwd \in Nodes(fs), NEW p \in Path, NEW type \in {"file", "dir"},
         Do(Create(fs, cwd, p, type)),
         last'.cmd \notin {"rm", "rmdir", "mv", "rm -r"}
  PROVE  StepIs({}, NULL)
<1> DEFINE r == Create(fs, cwd, p, type)
<1>1. IsResult(r) /\ r.rc \in {0, 1}
  BY Results, CreateKeeps
<1>2. fs' = r.fs /\ (rc' = 0 <=> r.rc = 1) /\ (rc' = 1 <=> r.rc = 0) /\ rc' \in {0, 1}
  BY <1>1, DoIs
<1>3. Edits(fs, r.fs, {}, NULL)
  BY CreateEdits
<1>4. r.rc = 0 => FailsClean(fs, r.fs)
  BY CreateFails
<1> HIDE DEF r
<1>5. Edits(fs, fs', {}, NULL) /\ (rc' # 0 => FailsClean(fs, fs'))
  BY <1>1, <1>2, <1>3, <1>4
<1> QED BY <1>5, StepKeepsTree

\* rm and rmdir.
LEMMA RmStep ==
  ASSUME FsOK(fs), cwd \in Nodes(fs), NEW p \in Path, Do(vfs_rm(fs, cwd, p)),
         last'.src = p, last'.cmd \in {"rm", "rmdir"}
  PROVE  \E R, w : StepIs(R, w)
<1> DEFINE r == vfs_rm(fs, cwd, p)
           n == vfs_resolve(fs, cwd, p)
<1>1. IsResult(r) /\ r.rc \in {0, 1}
  BY Results, RmKeeps
<1>2. fs' = r.fs /\ (rc' = 0 <=> r.rc = 1) /\ (rc' = 1 <=> r.rc = 0) /\ rc' \in {0, 1}
  BY <1>1, DoIs
<1>3. CASE r = [fs |-> fs, rc |-> 0]
  BY <1>2, <1>3, FailStep
<1>4. CASE r # [fs |-> fs, rc |-> 0]
  <2>1. PICK g : /\ n \in Nodes(fs) \ {vfs_root} /\ Children(fs, n) = {}
                 /\ r = [fs |-> g, rc |-> 1] /\ Unlinked(fs, g, n)
    BY <1>4, RmIs
  <2> HIDE DEF r
  <2>2. fs' = g /\ rc' = 0
    BY <1>2, <2>1
  <2>3. Edits(fs, fs', {n}, NULL)
    BY <2>1, <2>2, EditsUnlinked
  <2>4. n = Resolve(last'.src)
    BY DEF Resolve
  <2> HIDE DEF n
  <2>5. StepIs({n}, NULL)
    BY <2>1, <2>2, <2>3, <2>4, Zenon DEF StepIs
  <2> QED BY <2>5
<1> QED BY <1>3, <1>4

\* rm -r on a path that resolves.
LEMMA RmRStep ==
  ASSUME FsOK(fs), cwd \in Nodes(fs), NEW p \in Path,
         Do(vfs_rm_recursive(fs, cwd, p)), last'.src = p, last'.cmd = "rm -r"
  PROVE  \E R, w : StepIs(R, w)
<1> DEFINE n == vfs_resolve(fs, cwd, p)
           r == vfs_rm_recursive(fs, cwd, p)
<1>1. n \in Nodes(fs) \union {NULL}
  BY ResolveType
<1>2. /\ r = vfs_rm_recursive_node(fs, n)
      /\ IsResult(r) /\ r.rc \in {0, 1}
  BY <1>1, Results, RmRecursiveKeeps DEF vfs_rm_recursive
<1>3. fs' = r.fs /\ (rc' = 0 <=> r.rc = 1) /\ (rc' = 1 <=> r.rc = 0) /\ rc' \in {0, 1}
  BY <1>2, DoIs
<1>4. n = Resolve(last'.src)
  BY DEF Resolve
<1> HIDE DEF n, r
<1>5. CASE r = [fs |-> fs, rc |-> 0]
  BY <1>3, <1>5, FailStep
<1>6. CASE r # [fs |-> fs, rc |-> 0]
  <2>1. /\ n \in Nodes(fs) \ {vfs_root}
        /\ Edits(fs, r.fs, Subtree(fs, n), NULL)
        /\ r.rc = 0 => n \notin Linked(fs) /\ FailsClean(fs, r.fs)
    BY <1>1, <1>2, <1>6, RmRecursiveEdits
  <2>2. rc' # 0 => r.rc = 0
    BY <1>2, <1>3
  <2>3. /\ Edits(fs, fs', Subtree(fs, n), NULL)
        /\ rc' # 0 => n \notin Linked(fs) /\ FailsClean(fs, fs')
    BY <1>3, <2>1, <2>2
  <2>4. StepIs(Subtree(fs, n), NULL)
    BY <1>4, <2>1, <2>3, Zenon DEF StepIs
  <2> QED BY <2>4
<1> QED BY <1>5, <1>6

\* cp, mv, a redirection and tee.
LEMMA WriteStep ==
  ASSUME FsOK(fs), IsDir(fs, cwd), NEW r, Leave(r),
         \/ \E s, d \in Paths : Cp(s, d) /\ r = cmd_cp(fs, cwd, s, d)
         \/ \E s, d \in Paths : Mv(s, d) /\ r = cmd_mv(fs, cwd, s, d)
         \/ \E p \in Paths, append \in BOOLEAN, data \in Contents :
              Tee(p, append, data) /\ r = cmd_tee(fs, cwd, p, append, data)
         \/ \E p \in Paths, append \in BOOLEAN, in \in Inputs,
               data \in Contents, status \in {0, 1} :
              /\ Redirect(p, append, in, data, status)
              /\ r = redirect_out(fs, cwd, p, append, in, data, status)
  PROVE  \E R, w : StepIs(R, w)
<1>1. fs' = r.fs /\ rc' = r.rc /\ cwd' = cwd
  BY DEF Leave
<1>2. Paths \subseteq Path /\ Contents \subseteq Seq(Nat) /\ cwd \in Nodes(fs)
  BY FileCmdsAssumption DEF IsDir
<1> DEFINE w == OpenOut(fs, cwd, Destination(last')).rc
           n == Resolve(last'.src)
<1>3. ASSUME r.rc = 1 /\ FailsClean(fs, r.fs) /\ Edits(fs, r.fs, {}, NULL)
      PROVE  StepIs({}, NULL)
  BY <1>1, <1>3, StepKeepsTree
<1>4. ASSUME r.rc = 0, Edits(fs, r.fs, {}, w), last'.cmd \in {"cp", "tee"}
      PROVE  StepIs({}, w)
  <2> HIDE DEF w
  <2>1. last'.cmd \notin {"rm", "rmdir", "mv", "rm -r"}
    BY <1>4
  <2>2. last'.cmd \in {"cp", "mv", ">", ">>", "tee"} /\ ~(rc' # 0)
    BY <1>1, <1>4
  <2> QED BY <1>1, <1>4, <2>1, <2>2, Zenon DEF StepIs, w
<1>5. CASE \E s, d \in Paths : Cp(s, d) /\ r = cmd_cp(fs, cwd, s, d)
  <2>1. PICK s \in Paths, d \in Paths : Cp(s, d) /\ r = cmd_cp(fs, cwd, s, d)
    BY <1>5
  <2>2. last'.cmd = "cp" /\ Destination(last') = CpTarget(fs, cwd, s, d)
    BY <2>1 DEF Cp, Run, Destination
  <2>3. \/ r.rc = 1 /\ FailsClean(fs, r.fs) /\ Edits(fs, r.fs, {}, NULL)
        \/ r.rc = 0 /\ Edits(fs, r.fs, {}, w)
    BY <1>2, <2>1, <2>2, CpIs
  <2> HIDE DEF w
  <2> QED BY <1>3, <1>4, <2>2, <2>3
<1>6. CASE \E s, d \in Paths : Mv(s, d) /\ r = cmd_mv(fs, cwd, s, d)
  <2>1. PICK s \in Paths, d \in Paths : Mv(s, d) /\ r = cmd_mv(fs, cwd, s, d)
    BY <1>6
  <2>2. /\ last'.cmd = "mv" /\ Destination(last') = CpTarget(fs, cwd, s, d)
        /\ n = vfs_resolve(fs, cwd, s)
    BY <2>1 DEF Mv, Run, Destination, Resolve
  <2>3. \/ r.rc = 1 /\ FailsClean(fs, r.fs) /\ Edits(fs, r.fs, {}, NULL)
        \/ /\ r.rc = 0 /\ Edits(fs, r.fs, {n}, w)
           /\ n \in Nodes(fs) \ {vfs_root} /\ Children(fs, n) = {}
    <3> DEFINE src == vfs_resolve(fs, cwd, s)
               dst == OpenOut(fs, cwd, CpTarget(fs, cwd, s, d)).rc
    <3>1. \/ r.rc = 1 /\ FailsClean(fs, r.fs) /\ Edits(fs, r.fs, {}, NULL)
          \/ /\ r.rc = 0 /\ Edits(fs, r.fs, {src}, dst)
             /\ src \in Nodes(fs) \ {vfs_root} /\ Children(fs, src) = {}
      BY <1>2, <2>1, MvIs
    <3>2. n = src /\ w = dst
      BY <2>2
    <3> HIDE DEF n, w, src, dst
    <3> QED BY <3>1, <3>2
  <2> HIDE DEF w, n
  <2>4. CASE r.rc = 0 /\ Edits(fs, r.fs, {n}, w)
             /\ n \in Nodes(fs) \ {vfs_root} /\ Children(fs, n) = {}
    <3>1. last'.cmd \in {"cp", "mv", ">", ">>", "tee"} /\ rc' = 0
          /\ last'.cmd \in {"rm", "rmdir", "mv"}
      BY <1>1, <2>2, <2>4
    <3>2. StepIs({n}, w)
      BY <1>1, <2>4, <3>1, Zenon DEF StepIs, w, n
    <3> QED BY <3>2
  <2> QED BY <1>3, <2>3, <2>4
<1>7. CASE \E p \in Paths, append \in BOOLEAN, data \in Contents :
             Tee(p, append, data) /\ r = cmd_tee(fs, cwd, p, append, data)
  <2>1. PICK p \in Paths, append \in BOOLEAN, data \in Contents :
               Tee(p, append, data) /\ r = cmd_tee(fs, cwd, p, append, data)
    BY <1>7
  <2>2. last'.cmd = "tee" /\ Destination(last') = p
    BY <2>1 DEF Tee, Run, Destination
  <2>3. \/ r.rc = 1 /\ FailsClean(fs, r.fs) /\ Edits(fs, r.fs, {}, NULL)
        \/ r.rc = 0 /\ Edits(fs, r.fs, {}, w)
    BY <1>2, <2>1, <2>2, TeeIs
  <2> HIDE DEF w
  <2> QED BY <1>3, <1>4, <2>2, <2>3
<1>8. CASE \E p \in Paths, append \in BOOLEAN, in \in Inputs,
               data \in Contents, status \in {0, 1} :
             /\ Redirect(p, append, in, data, status)
             /\ r = redirect_out(fs, cwd, p, append, in, data, status)
  <2>1. PICK p \in Paths, append \in BOOLEAN, in \in Inputs,
               data \in Contents, status \in {0, 1} :
               /\ Redirect(p, append, in, data, status)
               /\ r = redirect_out(fs, cwd, p, append, in, data, status)
    BY <1>8
  <2>2. last'.cmd = (IF append THEN ">>" ELSE ">") /\ last'.dst = p
    BY <2>1 DEF Redirect, Run
  <2>3. /\ last'.cmd \in {">", ">>"} /\ (last'.cmd = ">>") = append
        /\ last'.cmd \notin {"rm", "rmdir", "mv", "rm -r"}
        /\ last'.cmd \in {"cp", "mv", ">", ">>", "tee"}
        /\ last'.cmd \notin {"cp", "mv"}
    BY <2>2
  <2>4. Destination(last') = p
    BY <2>2, <2>3 DEF Destination
  <2>5. \/ r.rc = 1 /\ FailsClean(fs, r.fs) /\ Edits(fs, r.fs, {}, NULL)
        \/ /\ r.rc \in {0, 1} /\ Edits(fs, r.fs, {}, w)
           /\ Contained(fs, r.fs, cwd, p, append)
    BY <1>2, <2>1, <2>4, RedirectIs
  <2> HIDE DEF w
  <2>6. CASE Edits(fs, r.fs, {}, w) /\ Contained(fs, r.fs, cwd, p, append)
    <3>1. Contained(fs, fs', cwd', last'.dst, last'.cmd = ">>")
      BY <1>1, <2>2, <2>3, <2>6
    <3>2. StepIs({}, w)
      BY <1>1, <2>3, <2>6, <3>1, Zenon DEF StepIs, w
    <3> QED BY <3>2
  <2> QED BY <1>3, <2>5, <2>6
<1> QED BY <1>5, <1>6, <1>7, <1>8

\* Every command is an edit of the tree of the kind StepIs describes.
LEMMA StepEdits ==
  ASSUME IInv, Next
  PROVE  \E R, w : StepIs(R, w)
<1>1. FsOK(fs) /\ IsDir(fs, cwd) /\ cwd \in Nodes(fs)
  BY DEF IInv, IsDir
<1>2. Paths \subseteq Path /\ Contents \subseteq Seq(Nat) /\ Scratch \subseteq Nat
  BY FileCmdsAssumption
<1>3. CASE Fail
  <2>1. fs' = fs /\ rc' = 1
    BY <1>3 DEF Fail, Leave
  <2> QED BY <1>1, <2>1, FailStep
<1>4. ASSUME NEW p \in Paths, Cd(p), ~Fail PROVE StepIs({}, NULL)
  <2>1. fs' = fs /\ rc' = 0 /\ last'.cmd = "cd"
    BY <1>4 DEF Cd, Run
  <2>2. last'.cmd \notin {"rm", "rmdir", "mv", "rm -r"}
    BY <2>1
  <2>3. Edits(fs, fs', {}, NULL)
    BY <1>1, <2>1, EditsItself
  <2> QED BY <2>1, <2>2, <2>3, StepKeepsTree
<1>5. ASSUME NEW p \in Paths, Mkdir(p) PROVE StepIs({}, NULL)
  <2> DEFINE type == "dir"
  <2>1. type \in {"file", "dir"} /\ p \in Path
    BY <1>2
  <2>2. Do(Create(fs, cwd, p, type)) /\ last'.cmd = "mkdir"
    BY <1>5 DEF Mkdir, vfs_mkdir, Run
  <2>3. last'.cmd \notin {"rm", "rmdir", "mv", "rm -r"}
    BY <2>2
  <2> HIDE DEF type
  <2> QED BY <1>1, <2>1, <2>2, <2>3, CreateStep
<1>6. ASSUME NEW p \in Paths, Touch(p), ~Fail PROVE StepIs({}, NULL)
  <2> DEFINE type == "file"
  <2>1. type \in {"file", "dir"} /\ p \in Path
    BY <1>2
  <2>2. last'.cmd = "touch"
        /\ (Do(Create(fs, cwd, p, type)) \/ Leave([fs |-> fs, rc |-> 0]))
    BY <1>6 DEF Touch, vfs_mkfile, Run
  <2>3. last'.cmd \notin {"rm", "rmdir", "mv", "rm -r"}
    BY <2>2
  <2> HIDE DEF type
  <2>4. CASE Do(Create(fs, cwd, p, type))
    BY <1>1, <2>1, <2>3, <2>4, CreateStep
  <2>5. CASE Leave([fs |-> fs, rc |-> 0])
    <3>1. fs' = fs /\ rc' = 0
      BY <2>5 DEF Leave
    <3>2. Edits(fs, fs', {}, NULL)
      BY <1>1, <3>1, EditsItself
    <3> QED BY <2>3, <3>1, <3>2, StepKeepsTree
  <2> QED BY <2>2, <2>4, <2>5
<1>7. ASSUME NEW p \in Paths, Rm(p) \/ Rmdir(p), ~Fail PROVE \E R, w : StepIs(R, w)
  <2>1. Do(vfs_rm(fs, cwd, p)) /\ last'.src = p /\ last'.cmd \in {"rm", "rmdir"}
    BY <1>7 DEF Rm, Rmdir, Run
  <2> QED BY <1>1, <1>2, <2>1, RmStep
<1>8. ASSUME NEW p \in Paths, RmR(p), ~Fail PROVE \E R, w : StepIs(R, w)
  <2>1. Do(vfs_rm_recursive(fs, cwd, p)) /\ last'.src = p /\ last'.cmd = "rm -r"
    BY <1>8 DEF RmR, Run
  <2> QED BY <1>1, <1>2, <2>1, RmRStep
<1>9. ASSUME NEW s \in Paths, NEW d \in Paths, Cp(s, d) \/ Mv(s, d)
      PROVE  \E R, w : StepIs(R, w)
  <2>1. CASE Cp(s, d)
    <3>1. Leave(cmd_cp(fs, cwd, s, d))
      BY <2>1 DEF Cp
    <3> QED BY <1>1, <2>1, <3>1, WriteStep
  <2>2. CASE Mv(s, d)
    <3>1. Leave(cmd_mv(fs, cwd, s, d))
      BY <2>2 DEF Mv
    <3> QED BY <1>1, <2>2, <3>1, WriteStep
  <2> QED BY <1>9, <2>1, <2>2
<1>10. ASSUME NEW p \in Paths, NEW append \in BOOLEAN, NEW data \in Contents,
              Tee(p, append, data)
       PROVE  \E R, w : StepIs(R, w)
  <2>1. Leave(cmd_tee(fs, cwd, p, append, data))
    BY <1>10 DEF Tee
  <2> QED BY <1>1, <1>10, <2>1, WriteStep
<1>12. ASSUME NEW p \in Paths, NEW append \in BOOLEAN, NEW data \in Contents,
              NEW in \in Inputs, NEW status \in {0, 1},
              Redirect(p, append, in, data, status)
       PROVE  \E R, w : StepIs(R, w)
  <2>1. Leave(redirect_out(fs, cwd, p, append, in, data, status))
    BY <1>12 DEF Redirect
  <2> QED BY <1>1, <1>12, <2>1, WriteStep
<1>11. ASSUME NEW n \in Scratch, TakeHeap(n) PROVE StepIs({}, NULL)
  <2> DEFINE u == fs.used + AlignUp(n)
  <2>1. /\ Room(fs, n) /\ fs' = Charge(fs, n) /\ rc' = 0 /\ last'.cmd = "other"
    BY <1>11 DEF TakeHeap, Leave, Run
  <2>2. last'.cmd \notin {"rm", "rmdir", "mv", "rm -r"}
    BY <2>1
  <2>3. Keeps(fs, fs')
    BY <1>1, <1>2, <2>1, ChargeKeeps
  <2>4. fs' = [node |-> fs.node, used |-> u]
    BY <1>1, <1>2, <2>1, ChargeFits DEF FsOK
  <2> HIDE DEF u
  <2>5. fs'.node = fs.node
    BY <2>4
  <2>6. Edits(fs, fs', {}, NULL)
    BY <1>1, <2>3, <2>5, EditsSame
  <2> QED BY <2>1, <2>2, <2>6, StepKeepsTree
<1> QED BY <1>3, <1>4, <1>5, <1>6, <1>7, <1>8, <1>9, <1>10, <1>11, <1>12 DEF Next

\* What a command wrote to is a path.
LEMMA DestinationType ==
  ASSUME Next
  PROVE  Destination(last') \in Path
<1> DEFINE src == last'.src
           dst == last'.dst
<1>1. src \in Path /\ dst \in Path
  <2>1. EmptyPath \in Path
    <3> DEFINE none == FALSE
    <3>1. <<>> \in Seq(STRING) /\ none \in BOOLEAN
      OBVIOUS
    <3>2. EmptyPath = [abs |-> none, comps |-> <<>>, slash |-> none]
      BY DEF EmptyPath
    <3> HIDE DEF none
    <3> QED BY <3>1, <3>2 DEF Path
  <2>2. Paths \subseteq Path
    BY FileCmdsAssumption
  <2>3. \E cmd : \E s, d \in Path : Run(cmd, s, d)
    BY <2>1, <2>2, Zenon DEF Next, Cd, Mkdir, Touch, Rm, RmR, Rmdir, Cp, Mv,
       Redirect, Tee, TakeHeap
  <2> QED BY <2>3 DEF Run
<1>2. CpTarget(fs, cwd, src, dst) \in Path
  <2> HIDE DEF src, dst
  <2> QED BY <1>1, CpTargetType
<1> QED BY <1>1, <1>2 DEF Destination

\* What ls prints keeps its order under every command: a removal closes the gap
\* (vfs_unlink_node), and what is made comes last (add_child).
THEOREM ListsKeepOrder == Spec => ListingStable
<1> DEFINE A == \A n \in Nodes(fs) :
                  LET old == fs.node[n].children
                      new == fs'.node[n].children
                  IN  \A i, j \in 1..Len(new) :
                        i < j /\ new[j] \in ToSet(old)
                          => \E a, b \in 1..Len(old) :
                               a < b /\ old[a] = new[i] /\ old[b] = new[j]
<1>1. IInv /\ [Next]_vars => [A]_vars
  <2> SUFFICES ASSUME IInv, Next PROVE A
    OBVIOUS
  <2>1. PICK R, w : StepIs(R, w)
    BY StepEdits
  <2>2. \A n \in Nodes(fs) : Order(fs.node[n].children, fs'.node[n].children)
    BY <2>1, Zenon DEF StepIs, Edits
  <2> QED BY <2>2, Zenon DEF Order
<1> QED BY <1>1, Invariant, PTL DEF Spec, ListingStable

\* Only cp, mv, tee and a redirection write, and only the file that their
\* destination named before: a file they make is another one.
THEOREM WritesReachOneFile == Spec => WritesHitTarget
<1> DEFINE A == \A n \in Nodes(fs) :
                  \/ fs'.node[n].data = fs.node[n].data
                  \/ /\ last'.cmd \in {"cp", "mv", ">", ">>", "tee"}
                     /\ n = Resolve(Destination(last'))
<1>1. IInv /\ [Next]_vars => [A]_vars
  <2> SUFFICES ASSUME IInv, Next PROVE A
    OBVIOUS
  <2>1. PICK R, w : StepIs(R, w)
    BY StepEdits
  <2>2. FsOK(fs) /\ cwd \in Nodes(fs)
    BY DEF IInv, IsDir
  <2>3. SUFFICES ASSUME NEW n \in Nodes(fs), fs'.node[n].data # fs.node[n].data
                 PROVE  /\ last'.cmd \in {"cp", "mv", ">", ">>", "tee"}
                        /\ n = Resolve(Destination(last'))
    BY Zenon
  <2>4. n = w /\ n # NULL
    <3>1. n = w
      BY <2>1, <2>3, Zenon DEF StepIs, Edits
    <3>2. n # NULL
      BY DEF Nodes, NULL
    <3> QED BY <3>1, <3>2
  <2> DEFINE p == Destination(last')
  <2>5. last'.cmd \in {"cp", "mv", ">", ">>", "tee"} /\ n = OpenOut(fs, cwd, p).rc
    BY <2>1, <2>4 DEF StepIs
  <2>6. p \in Path
    BY DestinationType
  <2> HIDE DEF p
  <2>7. n = vfs_resolve(fs, cwd, p)
    BY <2>2, <2>5, <2>6, OpenOutFinds
  <2> QED BY <2>5, <2>7 DEF Resolve, p
<1> QED BY <1>1, Invariant, PTL DEF Spec, WritesHitTarget

\* A command that fails leaves the tree and every file alone, but for the output
\* that a redirection has opened before, and for a file whose name no path can give.
THEOREM FailuresAreContained == Spec => FailureContained
<1> DEFINE A == rc' # 0 =>
        /\ Linked(fs) \subseteq Linked(fs')
        /\ \A n \in Linked(fs') \ Linked(fs) :
             fs'.node[n].name \in Unresolvable \/ Redirected(n)
        /\ \A n \in Nodes(fs) :
             LET old == fs.node[n].data
                 new == fs'.node[n].data
             IN  \/ new = old
                 \/ Redirected(n) /\ (last'.cmd = ">>" => IsPrefix(old, new))
<1>1. IInv /\ [Next]_vars => [A]_vars
  <2> SUFFICES ASSUME IInv, Next, rc' # 0 PROVE A
    BY Zenon
  <2>1. PICK R, w : StepIs(R, w)
    BY StepEdits
  <2>2. CASE FailsClean(fs, fs')
    BY <2>2, Zenon DEF FailsClean
  <2>3. CASE /\ last'.cmd \in {">", ">>"}
             /\ Contained(fs, fs', cwd', last'.dst, last'.cmd = ">>")
    BY <2>3, Zenon DEF Contained, Redirected
  <2> QED BY <2>1, <2>2, <2>3, Zenon DEF StepIs
<1> QED BY <1>1, Invariant, PTL DEF Spec, FailureContained

\* rm, rmdir and a successful mv take one node out of the tree, rm -r that node
\* and all below it; nothing else ever leaves it.
THEOREM RemovalsAreExact == Spec => RemovalExact
<1> DEFINE n == Resolve(last'.src)
           A == Linked(fs) \ Linked(fs') =
                  IF rc' # 0 \/ n \notin Linked(fs) THEN {} ELSE Removed(last'.cmd, n)
<1>1. IInv /\ [Next]_vars => [A]_vars
  <2> SUFFICES ASSUME IInv, Next PROVE A
    OBVIOUS
  <2>1. PICK R, w : StepIs(R, w)
    BY StepEdits
  <2>2. FsOK(fs) /\ Edits(fs, fs', R, w) /\ Linked(fs) \subseteq Nodes(fs)
        /\ vfs_root \in Linked(fs)
    BY <2>1, LinkedIs DEF IInv, StepIs
  <2>3. rc' # 0 => Linked(fs) \subseteq Linked(fs')
    BY <2>1 DEF StepIs, FailsClean, Contained
  <2>4. CASE rc' # 0
    BY <2>3, <2>4
  <2>5. CASE rc' = 0 /\ R = {} /\ last'.cmd \notin {"rm", "rmdir", "mv", "rm -r"}
    <3>1. Removed(last'.cmd, n) = {}
      <4> HIDE DEF n
      <4> QED BY <2>5 DEF Removed
    <3>2. Linked(fs') \cap Nodes(fs) = Linked(fs)
      BY <2>2, <2>5, LinkedKept
    <3> QED BY <2>2, <3>1, <3>2
  <2>6. CASE /\ R = {n} /\ rc' = 0 /\ last'.cmd \in {"rm", "rmdir", "mv"}
             /\ n \in Nodes(fs) \ {vfs_root} /\ Children(fs, n) = {}
    <3> HIDE DEF n
    <3>1. Removed(last'.cmd, n) = {n}
      BY <2>6 DEF Removed
    <3>2. Linked(fs') \cap Nodes(fs) = Linked(fs) \ {n}
      BY <2>2, <2>6, LinkedWithout
    <3> QED BY <2>2, <2>6, <3>1, <3>2
  <2>7. CASE /\ R = Subtree(fs, n) /\ last'.cmd = "rm -r" /\ rc' = 0
             /\ n \in Nodes(fs) \ {vfs_root}
    <3> HIDE DEF n
    <3>1. Removed(last'.cmd, n) = Subtree(fs, n)
      BY <2>7 DEF Removed
    <3>2. CASE n \notin Linked(fs)
      <4>1. R \cap Linked(fs) = {}
        BY <2>2, <2>7, <3>2, SubtreeLinked
      <4>2. \A m \in Linked(fs) \ {vfs_root} : fs.node[m].parent \notin R
        BY <2>2, <4>1, LinkedIs
      <4>3. Linked(fs') \cap Nodes(fs) = Linked(fs) \ R
        BY <2>2, <4>1, <4>2, LinkedAfter
      <4> QED BY <2>2, <2>7, <3>2, <4>1, <4>3
    <3>3. CASE n \in Linked(fs)
      <4>1. R \subseteq Linked(fs) /\ vfs_root \notin R
        <5>1. ~(vfs_root > n)
          <6>1. n \in Nodes(fs)
            BY <2>7
          <6> QED BY <6>1 DEF Nodes, vfs_root
        <5> QED BY <2>2, <2>7, <3>3, <5>1, SubtreeLinked, SubtreeIs
      <4>2. ASSUME NEW m \in Linked(fs) \ {vfs_root}, fs.node[m].parent \in R
            PROVE  m \in R
        <5>1. m \in Children(fs, fs.node[m].parent) /\ m \in Nodes(fs)
          BY <2>2, LinkedIs
        <5>2. m > n
          <6> DEFINE d == fs.node[m].parent
          <6>1. d \in Nat /\ m \in Nat /\ n \in Nat /\ d < m
            <7>1. d \in Nodes(fs) /\ d < m
              BY <2>2, <5>1 DEF FsOK, TreeOK, ParentsOK, IsDir
            <7>2. n \in Nodes(fs)
              BY <2>7
            <7> HIDE DEF d
            <7> QED BY <5>1, <7>1, <7>2 DEF Nodes
          <6>2. d = n \/ d > n
            BY <2>2, <2>7, <4>1, <4>2, SubtreeIs
          <6> HIDE DEF d
          <6> QED BY <6>1, <6>2
        <5> QED BY <2>2, <2>7, <4>2, <5>1, <5>2, SubtreeIs
      <4>3. Linked(fs') \cap Nodes(fs) = Linked(fs) \ R
        BY <2>2, <4>1, <4>2, LinkedAfter
      <4> QED BY <2>2, <2>7, <3>1, <3>3, <4>1, <4>3
    <3> QED BY <3>2, <3>3
  <2> HIDE DEF A
  <2> QED BY <2>1, <2>4, <2>5, <2>6, <2>7 DEF StepIs
<1> QED BY <1>1, Invariant, PTL DEF Spec, RemovalExact

\* What cmd_mv leaves at the destination: cmd_cp wrote the content of the source
\* there or found no room, and taking the source out of its directory touches
\* neither the file nor its place in the listing.
LEMMA MvContent ==
  ASSUME NEW f, FsOK(f), NEW c, IsDir(f, c), NEW s \in Path, NEW d \in Path,
         cmd_mv(f, c, s, d).rc = 0
  PROVE  LET src  == vfs_resolve(f, c, s)
             n    == OpenOut(f, c, CpTarget(f, c, s, d)).rc
             g    == cmd_mv(f, c, s, d).fs
             data == f.node[src].data
         IN  \/ n = src
             \/ /\ IsFile(g, n)
                /\ n \in Children(g, g.node[n].parent)
                /\ \/ g.node[n].data = data
                   \/ ~Room(g, Grow(g.node[n].cap, Len(data) + 1))
<1> DEFINE src  == vfs_resolve(f, c, s)
           t    == CpTarget(f, c, s, d)
           o    == OpenOut(f, c, t)
           h    == o.fs
           n    == o.rc
           k    == cmd_cp(f, c, s, d).fs
           g    == cmd_mv(f, c, s, d).fs
           data == f.node[src].data
<1> SUFFICES ASSUME n # src
             PROVE  /\ IsFile(g, n)
                    /\ n \in Children(g, g.node[n].parent)
                    /\ \/ g.node[n].data = data
                       \/ ~Room(g, Grow(g.node[n].cap, Len(data) + 1))
  BY Zenon
<1>1. c \in Nodes(f) /\ t \in Path
  BY CpTargetType DEF IsDir
<1>2. cmd_cp(f, c, s, d).rc = 0 /\ Unlinked(k, g, src)
  <2>1. \/ cmd_mv(f, c, s, d).rc = 1
        \/ cmd_cp(f, c, s, d).rc = 0 /\ Unlinked(k, g, src)
    BY MvIs, Zenon
  <2> QED BY <2>1
<1>3. /\ IsFile(f, src) /\ IsFile(h, n)
      /\ k = vfs_write_file(h, n, data).fs
      /\ Rewritten(h, k, n)
  BY <1>1, <1>2, CpIs
<1>4. FsOK(h) /\ IsDir(h, c) /\ n = vfs_resolve(h, c, t)
  <2> HIDE DEF t
  <2>1. Edits(f, h, {}, NULL) /\ n = vfs_resolve(h, c, t)
    BY <1>1, OpenOutEdits
  <2> QED BY <2>1, KeepsDir DEF Edits, Keeps
<1>5. n \in Children(h, h.node[n].parent)
  <2> HIDE DEF t, n, h
  <2> QED BY <1>1, <1>3, <1>4, ResolvedIsListed
<1>6. data \in Seq(Nat)
  BY <1>3, FsFacts DEF FsOK, IsFile, VNode
<1> HIDE DEF t, o, h, n, k, g, data, src
<1>7. \/ k.node[n].data = data
      \/ k = h /\ ~Room(h, Grow(h.node[n].cap, Len(data) + 1))
  BY <1>3, <1>4, <1>6, PutKeeps DEF vfs_write_file
<1>8. FsOK(k) /\ n \in Nodes(h) /\ Nodes(k) = Nodes(h) /\ n \in Nodes(k)
  BY <1>3 DEF Rewritten, Keeps, Nodes, IsFile
<1>9. /\ Edits(k, g, {src}, NULL) /\ g.used = k.used
      /\ g.node[n].data = k.node[n].data /\ g.node[n].cap = k.node[n].cap
      /\ g.node[n].type = k.node[n].type /\ g.node[n].parent = k.node[n].parent
      /\ n \in Nodes(g)
  <2>1. Edits(k, g, {src}, NULL)
    BY <1>2, <1>8, EditsUnlinked
  <2>2. Nodes(g) = Nodes(k)
    BY <1>2 DEF Unlinked, Relisted, Nodes
  <2> QED BY <1>2, <1>8, <2>1, <2>2 DEF Unlinked, Relisted, Keeps
<1>10. IsFile(g, n)
  <2>1. k.node[n].type = h.node[n].type
    BY <1>3, <1>8 DEF Rewritten, Keeps
  <2> QED BY <1>3, <1>9, <2>1 DEF IsFile
<1>11. n \in Children(g, g.node[n].parent)
  <2> DEFINE p == h.node[n].parent
  <2>1. p \in Nodes(h)
    BY <1>4, <1>8 DEF FsOK, TreeOK, ParentsOK, IsDir
  <2>2. k.node[n].parent = p /\ k.node[p].children = h.node[p].children
    BY <1>3, <1>8, <2>1 DEF Rewritten, Keeps
  <2>3. n \in Children(k, p)
    BY <1>5, <2>2 DEF Children
  <2>4. Children(g, p) \cap Nodes(k) = Children(k, p) \ {src}
    BY <1>8, <1>9, <2>1 DEF Edits
  <2> HIDE DEF p
  <2> QED BY <1>8, <1>9, <2>2, <2>3, <2>4
<1>12. CASE k.node[n].data = data
  BY <1>9, <1>10, <1>11, <1>12
<1>13. CASE k = h /\ ~Room(h, Grow(h.node[n].cap, Len(data) + 1))
  <2>1. ~Room(g, Grow(g.node[n].cap, Len(data) + 1))
    BY <1>9, <1>13 DEF Room
  <2> QED BY <1>10, <1>11, <2>1
<1> QED BY <1>7, <1>12, <1>13

\* A successful mv loses the content of the source only where the heap has no
\* room for it at the destination, and the file there is one ls lists.
THEOREM MovesKeepContent == Spec => MvKeepsContent
<1> DEFINE src  == Resolve(last'.src)
           dst  == OpenOut(fs, cwd, Destination(last')).rc
           data == fs.node[src].data
           A == last'.cmd = "mv" /\ rc' = 0 =>
                  \/ dst = src
                  \/ /\ IsFile(fs', dst)
                     /\ dst \in Children(fs', fs'.node[dst].parent)
                     /\ \/ fs'.node[dst].data = data
                        \/ ~Room(fs', Grow(fs'.node[dst].cap, Len(data) + 1))
<1>1. IInv /\ [Next]_vars => [A]_vars
  <2> SUFFICES ASSUME IInv, Next, last'.cmd = "mv", rc' = 0
               PROVE  A
    BY Zenon
  <2>1. PICK s \in Paths, d \in Paths : Mv(s, d)
    <3>1. /\ last'.cmd # "cd" /\ last'.cmd # "mkdir" /\ last'.cmd # "touch"
          /\ last'.cmd # "rm" /\ last'.cmd # "rm -r" /\ last'.cmd # "rmdir"
          /\ last'.cmd # "cp" /\ last'.cmd # ">" /\ last'.cmd # ">>"
          /\ last'.cmd # "tee" /\ last'.cmd # "other"
      OBVIOUS
    <3>2. ASSUME NEW p \in Paths,
                 Cd(p) \/ Mkdir(p) \/ Touch(p) \/ Rm(p) \/ RmR(p) \/ Rmdir(p)
          PROVE  FALSE
      <4>1. CASE Cd(p)
        <5>1. last' = [cmd |-> "cd", src |-> p, dst |-> p]
          BY <4>1, Zenon DEF Cd, Run
        <5> QED BY <3>1, <5>1
      <4>2. CASE Mkdir(p)
        <5>1. last' = [cmd |-> "mkdir", src |-> p, dst |-> p]
          BY <4>2, Zenon DEF Mkdir, Run
        <5> QED BY <3>1, <5>1
      <4>3. CASE Touch(p)
        <5>1. last' = [cmd |-> "touch", src |-> p, dst |-> p]
          BY <4>3, Zenon DEF Touch, Run
        <5> QED BY <3>1, <5>1
      <4>4. CASE Rm(p)
        <5>1. last' = [cmd |-> "rm", src |-> p, dst |-> p]
          BY <4>4, Zenon DEF Rm, Run
        <5> QED BY <3>1, <5>1
      <4>5. CASE RmR(p)
        <5>1. last' = [cmd |-> "rm -r", src |-> p, dst |-> p]
          BY <4>5, Zenon DEF RmR, Run
        <5> QED BY <3>1, <5>1
      <4>6. CASE Rmdir(p)
        <5>1. last' = [cmd |-> "rmdir", src |-> p, dst |-> p]
          BY <4>6, Zenon DEF Rmdir, Run
        <5> QED BY <3>1, <5>1
      <4> QED BY <3>2, <4>1, <4>2, <4>3, <4>4, <4>5, <4>6
    <3>3. ASSUME NEW p \in Paths, NEW q \in Paths
          PROVE  ~Cp(p, q)
      <4>1. Cp(p, q) => last'.cmd = "cp"
        BY DEF Cp, Run
      <4> QED BY <3>1, <4>1
    <3>4. ASSUME NEW p \in Paths, NEW append \in BOOLEAN, NEW x \in Contents
          PROVE  /\ ~Tee(p, append, x)
                 /\ \A in \in Inputs, status \in {0, 1} : ~Redirect(p, append, in, x, status)
      <4>1. \A in \in Inputs, status \in {0, 1} :
              Redirect(p, append, in, x, status) => last'.cmd \in {">", ">>"}
        BY DEF Redirect, Run
      <4>2. Tee(p, append, x) => last'.cmd = "tee"
        BY DEF Tee, Run
      <4> QED BY <3>1, <4>1, <4>2
    <3>5. ASSUME NEW m \in Scratch PROVE ~TakeHeap(m)
      <4>1. TakeHeap(m) => last'.cmd = "other"
        BY DEF TakeHeap, Run
      <4> QED BY <3>1, <4>1
    <3> QED BY <3>2, <3>3, <3>4, <3>5, Zenon DEF Next
  <2>2. /\ last' = [cmd |-> "mv", src |-> s, dst |-> d]
        /\ fs' = cmd_mv(fs, cwd, s, d).fs /\ cmd_mv(fs, cwd, s, d).rc = 0
    BY <2>1 DEF Mv, Run, Leave
  <2>3. src = vfs_resolve(fs, cwd, s) /\ Destination(last') = CpTarget(fs, cwd, s, d)
    BY <2>2 DEF Resolve, Destination
  <2>4. FsOK(fs) /\ IsDir(fs, cwd) /\ s \in Path /\ d \in Path
    BY <2>1, FileCmdsAssumption DEF IInv
  <2> HIDE DEF src, dst, data
  <2>5. \/ dst = src
        \/ /\ IsFile(fs', dst)
           /\ dst \in Children(fs', fs'.node[dst].parent)
           /\ \/ fs'.node[dst].data = data
              \/ ~Room(fs', Grow(fs'.node[dst].cap, Len(data) + 1))
    BY <2>2, <2>3, <2>4, MvContent DEF dst, data
  <2> QED BY <2>5
<1> QED BY <1>1, Invariant, PTL DEF Spec, MvKeepsContent
=============================================================================
