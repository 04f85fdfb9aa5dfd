-------------------------------- MODULE Vfs --------------------------------
(***************************************************************************)
(* The in-memory file system, src/vfs.c, as operators on its state.        *)
(*                                                                         *)
(* A file system f is a record: f.node is the sequence of every vnode ever *)
(* allocated, in order of allocation, and f.used is the heap they and      *)
(* their arrays take (src/kheap.c).  A vnode pointer is an index into      *)
(* f.node; NULL is 0 and vfs_root is 1.  Nothing is freed, so an index     *)
(* stays valid after the node is unlinked, as the pointer does in C.       *)
(*                                                                         *)
(* A path is a record: abs (starts with '/'), comps (its components) and   *)
(* slash (ends with '/').  Names are shorter than VFS_NAME_MAX and paths   *)
(* than the 1024-byte buffers.                                             *)
(*                                                                         *)
(* An operation of the code that changes the file system and returns a     *)
(* value is an operator that yields [fs |-> ..., rc |-> ...].              *)
(***************************************************************************)
EXTENDS KHeapOps, Integers, Sequences, SequencesExt

CONSTANTS
  HeapSize,    \* kheap_total
  NodeSize,    \* sizeof(vnode_t)
  PtrSize,     \* sizeof(vnode_t*)
  ChildCap0,   \* first capacity of a child array (8)
  FileCap0     \* first capacity of a file buffer (64)

ASSUME VfsAssumption ==
  /\ HeapSize \in Nat /\ NodeSize \in Nat /\ PtrSize \in Nat
  /\ ChildCap0 \in Nat \ {0} /\ FileCap0 \in Nat \ {0}

\* The names the code itself gives (TLAPS does not know that a literal is in
\* STRING).
ASSUME NamesAssumption == {"", "/", "root", "tmp", "f"} \subseteq STRING

NULL == 0
vfs_root == 1

Nodes(f) == 1..Len(f.node)
IsDir(f, n)  == n \in Nodes(f) /\ f.node[n].type = "dir"
IsFile(f, n) == n \in Nodes(f) /\ f.node[n].type = "file"
Children(f, n) == ToSet(f.node[n].children)

-----------------------------------------------------------------------------
(* The heap as the file system uses it.                                    *)

Room(f, n)   == Fits(f.used, HeapSize, n)
Charge(f, n) == [f EXCEPT !.used = @ + AlignUp(n)]

\* The doubling loops of vfs_write_file and vfs_append_file: from the buffer
\* there is, or the first capacity, to one that holds "need" bytes.  That takes
\* fewer than "need" turns.
Grow(cap, need) ==
  LET newcap[turn \in 0..need] ==
        IF turn = 0 THEN IF cap = 0 THEN FileCap0 ELSE cap
        ELSE IF newcap[turn-1] < need THEN 2 * newcap[turn-1] ELSE newcap[turn-1]
  IN  newcap[need]

-----------------------------------------------------------------------------
(* Nodes.                                                                  *)

NewNode(type, name, parent) ==
  [type |-> type, name |-> name, parent |-> parent,
   children |-> <<>>, child_cap |-> 0, data |-> <<>>, cap |-> 0]

\* The node made, if any, is the last of the resulting file system.
make_node(f, type, name, parent) ==
  IF Room(f, NodeSize)
  THEN [fs |-> [Charge(f, NodeSize)
                  EXCEPT !.node = Append(@, NewNode(type, name, parent))],
        rc |-> Len(f.node) + 1]
  ELSE [fs |-> f, rc |-> NULL]

\* A mistaken child_of, which nothing uses: the loop ends one child early.
child_of_short(f, d, name) ==
  IF IsDir(f, d)
  THEN LET c == f.node[d].children
           i == SelectInSeq(c, LAMBDA m : f.node[m].name = name)
       IN  IF i = 0 \/ i = Len(c) THEN NULL ELSE c[i]
  ELSE NULL

child_of(f, d, name) ==
  IF IsDir(f, d)
  THEN LET c == f.node[d].children
           i == SelectInSeq(c, LAMBDA m : f.node[m].name = name)
       IN  IF i = 0 THEN NULL ELSE c[i]
  ELSE NULL

\* The child array doubles when full; the old one is not given back.
add_child(f, d, c) ==
  LET dir    == f.node[d]
      full   == Len(dir.children) >= dir.child_cap
      newcap == IF dir.child_cap = 0 THEN ChildCap0 ELSE dir.child_cap * 2
      dir2   == [dir EXCEPT !.children = Append(@, c),
                            !.child_cap = IF full THEN newcap ELSE @]
  IN  IF full /\ ~Room(f, newcap * PtrSize)
      THEN [fs |-> f, rc |-> 0]
      ELSE [fs |-> [(IF full THEN Charge(f, newcap * PtrSize) ELSE f)
                      EXCEPT !.node[d] = dir2],
            rc |-> 1]

-----------------------------------------------------------------------------
(* Paths.                                                                  *)

Path == [abs : BOOLEAN, comps : Seq(STRING), slash : BOOLEAN]

AbsPath(comps) == [abs |-> TRUE, comps |-> comps, slash |-> comps = <<>>]
EmptyPath == [abs |-> FALSE, comps |-> <<>>, slash |-> FALSE]

\* One component of vfs_resolve.  The root is its own parent.
StepInto(f, cur, name) ==
  IF cur = NULL THEN NULL
  ELSE CASE name = "."  -> cur
         [] name = ".." -> f.node[cur].parent
         [] name = "~"  -> child_of(f, vfs_root, "root")
         [] OTHER       -> child_of(f, cur, name)

vfs_resolve(f, cwd, p) ==
  LET walk[i \in 0..Len(p.comps)] ==
        IF i = 0 THEN IF p.abs THEN vfs_root ELSE cwd
                 ELSE StepInto(f, walk[i-1], p.comps[i])
  IN  walk[Len(p.comps)]

\* vfs_resolve_parent: everything before the last '/', and the name after
\* it, which is "/" when the path ends there and "" when it is empty.
NameOf(p) == IF p.slash THEN "/" ELSE IF p.comps = <<>> THEN "" ELSE Last(p.comps)

vfs_resolve_parent(f, cwd, p) ==
  vfs_resolve(f, cwd, IF p.slash \/ p.comps = <<>> THEN p
                                      ELSE [p EXCEPT !.comps = Front(@)])

\* vfs_basename, "" for a path that ends with '/'.
vfs_basename(p) == IF p.slash \/ p.comps = <<>> THEN "" ELSE Last(p.comps)

-----------------------------------------------------------------------------
(* Files.                                                                  *)

\* A mistaken Put, which nothing uses: no byte is kept for the NUL.
Put_tight(f, n, data) ==
  LET file  == f.node[n]
      newcap == Grow(file.cap, Len(data))
      grows == Len(data) > file.cap
  IN  IF grows /\ ~Room(f, newcap)
      THEN [fs |-> f, rc |-> 0]
      ELSE [fs |-> [(IF grows THEN Charge(f, newcap) ELSE f)
                      EXCEPT !.node[n] =
                        [file EXCEPT !.data = data,
                                     !.cap = IF grows THEN newcap ELSE @]],
            rc |-> 1]

\* What vfs_write_file and vfs_append_file share: find a buffer that holds
\* the data and the NUL after it, then put the data there.
Put(f, n, data) ==
  LET file  == f.node[n]
      need  == Len(data) + 1
      newcap == Grow(file.cap, need)
      grows == need > file.cap
  IN  IF grows /\ ~Room(f, newcap)
      THEN [fs |-> f, rc |-> 0]
      ELSE [fs |-> [(IF grows THEN Charge(f, newcap) ELSE f)
                      EXCEPT !.node[n] =
                        [file EXCEPT !.data = data,
                                     !.cap = IF grows THEN newcap ELSE @]],
            rc |-> 1]

vfs_write_file(f, n, data) ==
  IF IsFile(f, n) THEN Put(f, n, data) ELSE [fs |-> f, rc |-> 0]

vfs_append_file(f, n, data) ==
  IF IsFile(f, n) THEN Put(f, n, f.node[n].data \o data)
                  ELSE [fs |-> f, rc |-> 0]

vfs_truncate(f, n) ==
  IF IsFile(f, n) THEN [f EXCEPT !.node[n] = [@ EXCEPT !.data = <<>>]] ELSE f

-----------------------------------------------------------------------------
(* Creating and removing.                                                  *)

\* A mistaken Create, which nothing uses: the name is not looked up first.
Create_dup(f, cwd, p, type) ==
  LET d    == vfs_resolve_parent(f, cwd, p)
      made == make_node(f, type, NameOf(p), d)
  IN  IF ~IsDir(f, d) \/ NameOf(p) = "" \/ made.rc = NULL
      THEN [fs |-> f, rc |-> 0]
      ELSE add_child(made.fs, d, made.rc)

\* vfs_mkfile and vfs_mkdir.  A node that does not fit into its directory
\* stays allocated, and its memory is lost.
Create(f, cwd, p, type) ==
  LET d    == vfs_resolve_parent(f, cwd, p)
      name == NameOf(p)
      made == make_node(f, type, name, d)
  IN  IF \/ ~IsDir(f, d)
         \/ name = ""
         \/ child_of(f, d, name) # NULL
         \/ made.rc = NULL
      THEN [fs |-> f, rc |-> 0]
      ELSE add_child(made.fs, d, made.rc)

vfs_mkfile(f, cwd, p) == Create(f, cwd, p, "file")
vfs_mkdir(f, cwd, p)  == Create(f, cwd, p, "dir")

\* A mistaken vfs_unlink_node, which nothing uses: the last child fills the gap.
vfs_unlink_node_swap(f, n) ==
  LET p == f.node[n].parent
      c == f.node[p].children
      i == SelectInSeq(c, LAMBDA m : m = n)
  IN  IF n = NULL \/ n = vfs_root \/ ~Contains(c, n)
      THEN [fs |-> f, rc |-> 0]
      ELSE [fs |-> [f EXCEPT !.node[p] =
                      [@ EXCEPT !.children = Front([c EXCEPT ![i] = Last(c)])]],
            rc |-> 1]

\* Takes n out of the child array of its parent; n keeps its parent.
vfs_unlink_node(f, n) ==
  LET p == f.node[n].parent
      c == f.node[p].children
  IN  IF n = NULL \/ n = vfs_root \/ ~Contains(c, n)
      THEN [fs |-> f, rc |-> 0]
      ELSE [fs |-> [f EXCEPT !.node[p] =
                      [@ EXCEPT !.children = RemoveFirst(c, n)]],
            rc |-> 1]

vfs_rm(f, cwd, p) ==
  LET n == vfs_resolve(f, cwd, p)
  IN  IF \/ n \in {NULL, vfs_root}
         \/ f.node[n].type = "dir" /\ f.node[n].children # <<>>
      THEN [fs |-> f, rc |-> 0]
      ELSE vfs_unlink_node(f, n)

\* A mistaken RmTurn, which nothing uses: the loop takes the index of the last
\* child before it begins, and finds the same child there again.
RmTurn_stale(s) ==
  LET n   == Last(s.calls)
      out == vfs_unlink_node(s.fs, n)
  IN  IF s.calls = <<>> THEN s
      ELSE IF n \in {NULL, vfs_root} THEN [s EXCEPT !.calls = <<>>, !.rc = 0]
      ELSE IF s.fs.node[n].children # <<>>
      THEN [s EXCEPT !.calls = Append(@, Last(s.fs.node[n].children))]
      ELSE [fs |-> out.fs, rc |-> out.rc,
            calls |-> IF out.rc = 0 THEN <<>>
                      ELSE IF out.fs.node[out.fs.node[n].parent].children # <<>>
                              /\ Len(s.calls) > 1
                           THEN s.calls ELSE Front(s.calls)]

\* One turn of the innermost of the calls of vfs_rm_recursive_node under way, the
\* nodes of which are s.calls: it calls itself for the last child there is now,
\* or its loop is over and it unlinks its node.  A call that returns 0 ends all.
RmTurn(s) ==
  LET n   == Last(s.calls)
      out == vfs_unlink_node(s.fs, n)
  IN  IF s.calls = <<>> THEN s
      ELSE IF n \in {NULL, vfs_root} THEN [s EXCEPT !.calls = <<>>, !.rc = 0]
      ELSE IF s.fs.node[n].children # <<>>
      THEN [s EXCEPT !.calls = Append(@, Last(s.fs.node[n].children))]
      ELSE [fs |-> out.fs, rc |-> out.rc,
            calls |-> IF out.rc = 0 THEN <<>> ELSE Front(s.calls)]

\* A node is called for and unlinked once, and no call is deeper than there are
\* nodes: three turns for each are more than it takes.
vfs_rm_recursive_node(f, n) ==
  LET run[turn \in 0..3*Len(f.node)] ==
        IF turn = 0 THEN [fs |-> f, calls |-> <<n>>, rc |-> 0]
                    ELSE RmTurn(run[turn-1])
      end == run[3*Len(f.node)]
  IN  [fs |-> end.fs, rc |-> end.rc]

vfs_rm_recursive(f, cwd, p) ==
  vfs_rm_recursive_node(f, vfs_resolve(f, cwd, p))

-----------------------------------------------------------------------------
(* The working directory's name, and the first file system.                *)

\* vfs_update_pwd: the names on the way up by the parent pointers, reversed.
PwdOf(f, cwd) ==
  LET up[n \in Nodes(f)] ==
        IF n = vfs_root THEN <<>>
                        ELSE Append(up[f.node[n].parent], f.node[n].name)
  IN  up[cwd]

\* mkdir_simple, and mkfile_simple without its content: whether the node
\* found a place in its directory is not looked at.
MakeIn(f, type, name, parent) ==
  LET made == make_node(f, type, name, parent)
  IN  IF made.rc = NULL THEN made
      ELSE [fs |-> add_child(made.fs, parent, made.rc).fs, rc |-> made.rc]

mkdir_simple(f, parent, name) == MakeIn(f, "dir", name, parent)

mkfile_simple(f, parent, name, content) ==
  LET made == MakeIn(f, "file", name, parent)
  IN  [fs |-> vfs_write_file(made.fs, made.rc, content).fs, rc |-> made.rc]

-----------------------------------------------------------------------------
(* What a file system is.                                                  *)

VNode == [type : {"file", "dir"}, name : STRING, parent : Nat,
          children : Seq(Nat), child_cap : Nat, data : Seq(Nat), cap : Nat]

\* n and the nodes below it that its child arrays lead to.
Subtree(f, n) ==
  LET under[m \in Nodes(f)] ==
        m = n \/ LET p == f.node[m].parent
                 IN  m > n /\ m \in Children(f, p) /\ under[p]
  IN  {m \in Nodes(f) : under[m]}

\* Parent pointers lead to older directories, so upwards there are no cycles.
ParentsOK(f) ==
  \A n \in Nodes(f) :
    /\ IsDir(f, f.node[n].parent)
    /\ IF n = vfs_root THEN f.node[n].parent = vfs_root
                       ELSE f.node[n].parent < n

\* What a child array lists has that directory as its parent.  The root is
\* never listed, and a file lists nothing.
ChildrenOK(f) ==
  \A d \in Nodes(f) : \A i \in 1..Len(f.node[d].children) :
    LET c == f.node[d].children[i]
    IN  /\ c \in Nodes(f) \ {vfs_root}
        /\ f.node[c].parent = d

\* No directory lists a node twice, or two nodes of the same name.
NamesOK(f) ==
  \A d \in Nodes(f) : \A i, j \in 1..Len(f.node[d].children) :
    i # j => f.node[f.node[d].children[i]].name
               # f.node[f.node[d].children[j]].name

TreeOK(f) ==
  /\ IsDir(f, vfs_root)
  /\ ParentsOK(f)
  /\ ChildrenOK(f)
  /\ NamesOK(f)

\* Arrays hold what is in them: children, and data with the NUL after it.
BuffersOK(f) ==
  /\ f.used <= HeapSize
  /\ \A n \in Nodes(f) :
       /\ Len(f.node[n].children) <= f.node[n].child_cap
       /\ IF f.node[n].cap = 0 THEN f.node[n].data = <<>>
                               ELSE Len(f.node[n].data) < f.node[n].cap

\* The nodes the root leads to.
Linked(f) == Subtree(f, vfs_root)
=============================================================================
