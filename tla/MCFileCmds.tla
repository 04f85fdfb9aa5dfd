----------------------------- MODULE MCFileCmds -----------------------------
(* A small user at the prompt: absolute and relative paths, the special     *)
(* names, a trailing slash, and a heap with room for a few more nodes.      *)
EXTENDS FileCmds

Abs(comps) == [abs |-> TRUE, comps |-> comps, slash |-> FALSE]
Rel(comps) == [abs |-> FALSE, comps |-> comps, slash |-> FALSE]
Slash(p)   == [p EXCEPT !.slash = TRUE]

MCPaths == { AbsPath(<<>>), Abs(<<"root">>), Rel(<<"f">>), Rel(<<"a">>),
             Rel(<<"a", "f">>), Rel(<<"..">>), Slash(Rel(<<"a">>)),
             Rel(<<".", "~">>), Rel(<<"f","..","a">>) }
\* "rc" and "last" are written, never read, by the commands, and the action
\* properties read only what the step wrote there: states that differ in
\* nothing else have the same steps.
View == <<fs, cwd, pwd>>

MCContents == { <<>>, <<2, 1>> }
MCInputs == { EmptyPath, Rel(<<"a">>) }
MCMessage == <<2, 1>>
=============================================================================
