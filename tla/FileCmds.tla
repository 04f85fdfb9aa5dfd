------------------------------ MODULE FileCmds ------------------------------
(***************************************************************************)
(* The shell commands that change the file system (src/cmds.c, and the     *)
(* redirections of src/shell.c), each as one action on the state of        *)
(* src/vfs.c: the tree, the working directory and its name.  Commands run  *)
(* one at a time to completion (one kernel thread, and no interrupt        *)
(* handler touches the file system), so a whole command is one step.       *)
(* A command given several operands handles them in turn, and is here one  *)
(* command for each.                                                       *)
(***************************************************************************)
EXTENDS Vfs

CONSTANTS
  Paths,       \* what the user types as a path; never the empty word
  Inputs,      \* what may follow '<': EmptyPath where there is none
  Contents,    \* what a command prints or reads, as sequences of bytes
  Message,     \* what apply_redirs prints when it finds no input
  Scratch      \* sizes of the buffers other commands leave in the heap

ASSUME FileCmdsAssumption ==
  /\ Paths \subseteq Path /\ Inputs \subseteq Path
  /\ Contents \subseteq Seq(Nat) /\ Message \in Seq(Nat)
  /\ Scratch \subseteq Nat

\* The heap has room for the root and for /root, where the shell starts.
ASSUME BootAssumption == 2 * AlignUp(NodeSize) <= HeapSize

VARIABLES
  fs,          \* the file system, see Vfs
  cwd, pwd,    \* vfs_cwd and vfs_pwd, the latter as its components
  rc,          \* what the last command returned
  last         \* the last command, for the properties: [cmd, src, dst]

vars == <<fs, cwd, pwd, rc, last>>

Resolve(p) == vfs_resolve(fs, cwd, p)

-----------------------------------------------------------------------------
(* What the commands compute.                                              *)

\* The path cmd_cp writes to: below the destination when that is a directory.
CpTarget(f, c, src, dst) ==
  IF IsDir(f, vfs_resolve(f, c, dst))
  THEN LET base == vfs_basename(src)
       IN  [dst EXCEPT !.comps = IF base = "" THEN @ ELSE Append(@, base),
                       !.slash = base = ""]
  ELSE dst

\* The file p names, made if nothing has that name: how cp, tee and a
\* redirection open their output.
OpenOut(f, c, p) ==
  LET made == IF vfs_resolve(f, c, p) = NULL THEN vfs_mkfile(f, c, p).fs ELSE f
  IN  [fs |-> made, rc |-> vfs_resolve(made, c, p)]

\* Mistaken forms of cmd_cp, which nothing uses: it writes the source; it
\* leaves out the last byte.
cmd_cp_back(f, c, s, d) ==
  LET src == vfs_resolve(f, c, s)
      dst == OpenOut(f, c, CpTarget(f, c, s, d))
  IN  IF ~IsFile(f, src) \/ ~IsFile(dst.fs, dst.rc) THEN [fs |-> f, rc |-> 1]
      ELSE [fs |-> vfs_write_file(dst.fs, src, dst.fs.node[dst.rc].data).fs, rc |-> 0]
cmd_cp_short(f, c, s, d) ==
  LET src  == vfs_resolve(f, c, s)
      dst  == OpenOut(f, c, CpTarget(f, c, s, d))
      data == dst.fs.node[src].data
  IN  IF ~IsFile(f, src) \/ ~IsFile(dst.fs, dst.rc) THEN [fs |-> f, rc |-> 1]
      ELSE [fs |-> vfs_write_file(dst.fs, dst.rc, SubSeq(data, 1, Len(data) - 1)).fs,
            rc |-> 0]

\* That vfs_write_file may fail is not looked at.
cmd_cp(f, c, s, d) ==
  LET src == vfs_resolve(f, c, s)
      dst == OpenOut(f, c, CpTarget(f, c, s, d))
  IN  IF ~IsFile(f, src)          THEN [fs |-> f, rc |-> 1]
      ELSE IF ~IsFile(dst.fs, dst.rc) THEN [fs |-> dst.fs, rc |-> 1]
      ELSE [fs |-> vfs_write_file(dst.fs, dst.rc, dst.fs.node[src].data).fs,
            rc |-> 0]

cmd_mv(f, c, s, d) ==
  LET copied == cmd_cp(f, c, s, d)
      gone   == vfs_rm(copied.fs, c, s)
  IN  IF copied.rc # 0 THEN copied ELSE [fs |-> gone.fs, rc |-> 1 - gone.rc]

\* out_raw, for each byte of what a redirected command prints: a byte that
\* finds no memory is dropped.
OutRaw(f, n, data) ==
  LET after[i \in 0..Len(data)] ==
        IF i = 0 THEN f ELSE vfs_append_file(after[i-1], n, <<data[i]>>).fs
  IN  after[Len(data)]

\* A mistaken redirect_out, which nothing uses: >> truncates as > does.
redirect_out_emptied(f, c, p, append, in, data, status) ==
  LET out    == OpenOut(f, c, p)
      opened == vfs_truncate(out.fs, out.rc)
      ready  == in = EmptyPath \/ IsFile(opened, vfs_resolve(opened, c, in))
  IN  IF ~IsFile(out.fs, out.rc) THEN [fs |-> out.fs, rc |-> 1]
      ELSE [fs |-> OutRaw(opened, out.rc, IF ready THEN data ELSE Message),
            rc |-> IF ready THEN status ELSE 1]

\* run_segment with an output redirection, and perhaps one of the input:
\* apply_redirs opens the output and truncates it, and then looks for the input.
\* If it finds it, the command prints and returns its own status; if not, its
\* message goes where the output went and the command does not run.
redirect_out(f, c, p, append, in, data, status) ==
  LET out    == OpenOut(f, c, p)
      opened == IF append THEN out.fs ELSE vfs_truncate(out.fs, out.rc)
      ready  == in = EmptyPath \/ IsFile(opened, vfs_resolve(opened, c, in))
  IN  IF ~IsFile(out.fs, out.rc) THEN [fs |-> out.fs, rc |-> 1]
      ELSE [fs |-> OutRaw(opened, out.rc, IF ready THEN data ELSE Message),
            rc |-> IF ready THEN status ELSE 1]

cmd_tee(f, c, p, append, data) ==
  LET out   == OpenOut(f, c, p)
      ready == IF append THEN out.fs ELSE vfs_truncate(out.fs, out.rc)
  IN  IF ~IsFile(out.fs, out.rc)
      THEN [fs |-> out.fs, rc |-> 1]
      ELSE [fs |-> IF data = <<>> THEN ready
                   ELSE vfs_append_file(ready, out.rc, data).fs,
            rc |-> 0]

-----------------------------------------------------------------------------
(* Actions.                                                                *)

\* vfs_init, with two directories and one file of those it makes.
InitFs ==
  LET root == [node |-> <<NewNode("dir", "", vfs_root)>>, used |-> AlignUp(NodeSize)]
      home == mkdir_simple(root, vfs_root, "root")
      tmp  == mkdir_simple(home.fs, vfs_root, "tmp")
  IN  mkfile_simple(tmp.fs, home.rc, "f", <<1>>).fs

Init ==
  /\ fs = InitFs
  /\ cwd = 2
  /\ pwd = PwdOf(fs, cwd)
  /\ rc = 0
  /\ last = [cmd |-> "boot", src |-> EmptyPath, dst |-> EmptyPath]

Run(cmd, src, dst) == last' = [cmd |-> cmd, src |-> src, dst |-> dst]

\* What a command leaves that changes the tree only; most of them return 0
\* where the operation of vfs.c returns 1.
Leave(result) ==
  /\ fs' = result.fs
  /\ rc' = result.rc
  /\ UNCHANGED <<cwd, pwd>>

\* A mistaken Do, which nothing uses: failure becomes -1.
Do_minus(result) == Leave([result EXCEPT !.rc = @ - 1])

Fail == Leave([fs |-> fs, rc |-> 1])
Do(result) == Leave([result EXCEPT !.rc = 1 - @])

\* A mistaken Cd, which nothing uses: vfs_update_pwd is not called.
Cd_stale(p) ==
  /\ Run("cd", p, p)
  /\ IsDir(fs, Resolve(p))
  /\ cwd' = Resolve(p)
  /\ rc' = 0
  /\ UNCHANGED <<fs, pwd>>

\* cmd_cd; without an operand, and for "~", p is /root.
Cd(p) ==
  /\ Run("cd", p, p)
  /\ \/ /\ IsDir(fs, Resolve(p))
        /\ cwd' = Resolve(p)
        /\ pwd' = PwdOf(fs, cwd')
        /\ rc' = 0
        /\ UNCHANGED fs
     \/ ~IsDir(fs, Resolve(p)) /\ Fail

Mkdir(p) == Run("mkdir", p, p) /\ Do(vfs_mkdir(fs, cwd, p))

Touch(p) ==
  /\ Run("touch", p, p)
  /\ \/ Resolve(p) = NULL      /\ Do(vfs_mkfile(fs, cwd, p))
     \/ IsFile(fs, Resolve(p)) /\ Leave([fs |-> fs, rc |-> 0])
     \/ IsDir(fs, Resolve(p))  /\ Fail

Rm(p) ==
  /\ Run("rm", p, p)
  /\ \/ IsFile(fs, Resolve(p))  /\ Do(vfs_rm(fs, cwd, p))
     \/ ~IsFile(fs, Resolve(p)) /\ Fail

RmR(p) ==
  /\ Run("rm -r", p, p)
  /\ \/ Resolve(p) # NULL /\ Do(vfs_rm_recursive(fs, cwd, p))
     \/ Resolve(p) = NULL /\ Fail

Rmdir(p) ==
  /\ Run("rmdir", p, p)
  /\ \/ IsDir(fs, Resolve(p))  /\ Do(vfs_rm(fs, cwd, p))
     \/ ~IsDir(fs, Resolve(p)) /\ Fail

Cp(s, d) == Run("cp", s, d) /\ Leave(cmd_cp(fs, cwd, s, d))
Mv(s, d) == Run("mv", s, d) /\ Leave(cmd_mv(fs, cwd, s, d))

\* The command is one that changes no file itself; status 1 stands for every
\* status but 0.
Redirect(p, append, in, data, status) ==
  /\ Run(IF append THEN ">>" ELSE ">", p, p)
  /\ Leave(redirect_out(fs, cwd, p, append, in, data, status))

Tee(p, append, data) ==
  Run("tee", p, p) /\ Leave(cmd_tee(fs, cwd, p, append, data))

\* The buffers of pipes, of standard input, of history, of sort and so on,
\* none of them given back.
TakeHeap(n) ==
  /\ Room(fs, n)
  /\ Run("other", EmptyPath, EmptyPath)
  /\ Leave([fs |-> Charge(fs, n), rc |-> 0])

Next ==
  \/ \E p \in Paths : \/ Cd(p) \/ Mkdir(p) \/ Touch(p)
                      \/ Rm(p) \/ RmR(p) \/ Rmdir(p)
  \/ \E s, d \in Paths : Cp(s, d) \/ Mv(s, d)
  \/ \E p \in Paths, append \in BOOLEAN, data \in Contents :
       \/ \E in \in Inputs, status \in {0, 1} : Redirect(p, append, in, data, status)
       \/ Tee(p, append, data)
  \/ \E n \in Scratch : TakeHeap(n)

Spec == Init /\ [][Next]_vars

-----------------------------------------------------------------------------
(* Properties.                                                             *)

TypeOK ==
  /\ fs.node \in Seq(VNode) /\ fs.used \in Nat
  /\ cwd \in Nodes(fs)
  /\ pwd \in Seq(STRING)
  /\ rc \in {0, 1}

\* Every command leaves parent pointers and child arrays in agreement, the
\* names in a directory distinct and the working directory a directory,
\* whatever was removed, moved or could not be allocated on the way.
TreeInv == TreeOK(fs) /\ IsDir(fs, cwd)

\* No array is written past its end: the child arrays of add_child and the
\* buffers of vfs_write_file and vfs_append_file, NUL included.
BuffersFit == BuffersOK(fs)

\* The path of a node that is in the tree leads to it, unless a name on it
\* means something else to vfs_resolve.
Unresolvable == {"", ".", "..", "~", "/"}
PathsResolve ==
  \A n \in Linked(fs) :
    Unresolvable \cap ToSet(PwdOf(fs, n)) = {}
      => Resolve(AbsPath(PwdOf(fs, n))) = n

\* The prompt tells the truth: while the working directory is in the tree,
\* vfs_pwd, computed by the last cd, leads to it.
PwdFresh == cwd \in Linked(fs) => Resolve(AbsPath(pwd)) = cwd

\* rm and rmdir take one node out of the tree and rm -r the node and what is
\* below it; mv takes the source; a command that fails and every other command
\* lose nothing.
Removed(cmd, n) ==
  CASE cmd \in {"rm", "rmdir", "mv"} -> {n}
    [] cmd = "rm -r"                 -> Subtree(fs, n)
    [] OTHER                         -> {}

RemovalExact ==
  [][ LET n == Resolve(last'.src)
      IN  Linked(fs) \ Linked(fs') =
            IF rc' # 0 \/ n \notin Linked(fs) THEN {} ELSE Removed(last'.cmd, n)
    ]_vars

\* What ls lists keeps its order: what stands before a child that was there
\* stood before it already.  A removal closes the gap, and what is created or
\* moved in comes last.
ListingStable ==
  [][ \A n \in Nodes(fs) :
        LET old == fs.node[n].children
            new == fs'.node[n].children
        IN  \A i, j \in 1..Len(new) :
              i < j /\ new[j] \in ToSet(old)
                => \E a, b \in 1..Len(old) :
                     a < b /\ old[a] = new[i] /\ old[b] = new[j] ]_vars

\* The path of the file a command writes to.
Destination(c) ==
  IF c.cmd \in {"cp", "mv"} THEN CpTarget(fs, cwd, c.src, c.dst) ELSE c.dst

\* A file that is there changes only when it is what the destination of a
\* command that writes resolves to; no buffer is shared by two files.
WritesHitTarget ==
  [][ \A n \in Nodes(fs) :
        \/ fs'.node[n].data = fs.node[n].data
        \/ /\ last'.cmd \in {"cp", "mv", ">", ">>", "tee"}
           /\ n = Resolve(Destination(last')) ]_vars

\* What a redirection made or wrote to.
Redirected(n) == last'.cmd \in {">", ">>"} /\ n = vfs_resolve(fs', cwd', last'.dst)

\* A command that fails takes nothing out of the tree and changes no file, but
\* that a redirection whose command or whose input fails has opened its output
\* before: it may have made that file, emptied it or written to it, and no other,
\* and after >> what was there still is.  (A name no path can hold, "~" once /root
\* is gone, is made, not found, and the command fails.)
FailureContained ==
  [][ rc' # 0 =>
        /\ Linked(fs) \subseteq Linked(fs')
        /\ \A n \in Linked(fs') \ Linked(fs) :
             fs'.node[n].name \in Unresolvable \/ Redirected(n)
        /\ \A n \in Nodes(fs) :
             LET old == fs.node[n].data
                 new == fs'.node[n].data
             IN  \/ new = old
                 \/ Redirected(n) /\ (last'.cmd = ">>" => IsPrefix(old, new)) ]_vars

\* A successful mv leaves a file in the directory of the destination, with the
\* content of the source unless the heap cannot take it, or the two are one.
MvKeepsContent ==
  [][ last'.cmd = "mv" /\ rc' = 0 =>
        LET src  == Resolve(last'.src)
            dst  == OpenOut(fs, cwd, Destination(last')).rc
            data == fs.node[src].data
        IN  \/ dst = src
            \/ /\ IsFile(fs', dst)
               /\ dst \in Children(fs', fs'.node[dst].parent)
               /\ \/ fs'.node[dst].data = data
                  \/ ~Room(fs', Grow(fs'.node[dst].cap, Len(data) + 1)) ]_vars

\* A successful mv leaves the content at the destination: host_test.c:221
\* checks that the source is gone and the destination there.
MvLosesNothing ==
  [][ last'.cmd = "mv" /\ rc' = 0 =>
        LET dst == vfs_resolve(fs', cwd', Destination(last'))
        IN  IsFile(fs', dst)
            /\ fs'.node[dst].data = fs.node[Resolve(last'.src)].data ]_vars
=============================================================================
