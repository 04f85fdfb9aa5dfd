------------------------------ MODULE MCShell ------------------------------
(* Lines of up to three stages.  echo prints three bytes and reads nothing,    *)
(* cat copies its input, false fails and prints nothing, gone is no command. *)
EXTENDS Shell

W(v)    == [t |-> "word", v |-> v]
T(t)    == [t |-> t, v |-> ""]
R(t, f) == [t |-> t, v |-> f]
B       == T("blank")

MCPrints == [w \in {"echo", "cat", "false"} |->
               IF w = "echo" THEN <<"e", "c", "o">> ELSE <<>>]
MCMessage == <<"m">>
MCKeys == <<"k">>
MCStatus == [w \in {"echo", "cat", "false"} |-> IF w = "false" THEN 1 ELSE 0]

Simple  == { <<W(w)>> : w \in {"echo", "cat", "false"} }
Stages  == Simple \union
  { <<W("gone")>>, <<W("echo"), B, R(">", "f")>>, <<W("echo"), B, R(">>", "f")>>,
    <<W("cat"), B, R("<", "f")>>, <<W("cat"), B, R("<", "f"), B, R(">", "f")>>,
    <<W("cat"), B, R(">", "f"), B, R("<", "g")>>, <<W("echo"), B, R(">", "bad")>>,
    <<W("echo"), R(">>", "f")>>, <<R(">", "f")>> }
Spaced2 == { <<B, T(t), B>> : t \in {";", "&&", "||"} }
Joins   == Spaced2 \union { <<T("|")>>, <<T(";")>> }

One     == { <<B>> \o s : s \in Stages } \union { <<B>>, <<T("#"), W("echo")>>,
             <<W("echo"), B, T(";")>>,
             <<W("false"), B, T("&&"), W("echo"), B, T("&&")>>,
             <<W("echo"), B, T("|"), B, T("|"), W("cat")>>,
             <<W("echo"), T("|"), W("cat"), B, T("#"), T(";"), W("echo")>> }
Later   == { <<W(w)>> : w \in {"echo", "cat", "gone"} } \union
  { <<W("cat"), B, R("<", "f")>>, <<W("echo"), R(">>", "f")>> }
Failing == { <<W("gone")>>, <<W("echo"), B, R(">", "bad")>> }
Two     == { s \o <<T("|")>> \o t : s \in Stages, t \in Simple \union Later }
           \union { s \o j \o t : s \in Simple \union Failing, t \in Later, j \in Joins }
Three   == { s \o j \o <<W("cat")>> \o k \o <<W("echo")>> :
               s \in Simple, j, k \in Spaced2 \union { <<T("|")>> } }
MCLines == One \union Two \union Three
=============================================================================
