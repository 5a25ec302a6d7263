----------------------------- MODULE MCGenerate -----------------------------
(* Three contents of projects.toml over a small tree of sources: projects    *)
(* kept beside, below and away from what they list, directories and single   *)
(* files, and one that main refuses.                                         *)
EXTENDS Generate, TLC

P(file, dirs) == [file |-> file, dirs |-> dirs]

First == [ok |-> TRUE, generate |-> TRUE, solution |-> << "t.sln" >>, projects |->
  << P(<< "a", "a.vcxproj" >>, << << "a" >>, << "a", "b" >> >>),
     P(<< "top.vcxproj" >>, << << "a" >>, << "d", "x.c" >>, << "y.h" >> >>) >>]
Second == [ok |-> TRUE, generate |-> FALSE, solution |-> << "t.sln" >>, projects |->
  << P(<< "a", "b", "b.vcxproj" >>, << << "a" >>, << "a", "e" >>, << "d", "x.c" >>, << "..", "z" >> >>),
     P(<< "top.vcxproj" >>, << << "." >>, << "a", "none" >> >>) >>]
Refused == [ok |-> FALSE, generate |-> FALSE, solution |-> << "u.sln" >>, projects |-> << >>]

MCTomls == {First, Second, Refused}
MCTree ==
  (<< "." >> :> {"main.ninja", "projects.toml", "y.h"}) @@
  (<< "a" >> :> {"x.c", "y.h", "n.txt", "o.bin"}) @@
  (<< "a", "b" >> :> {"x.c"}) @@ (<< "a", "e" >> :> {"y.h"}) @@
  (<< "d" >> :> {"x.c", "y.h"}) @@ (<< "..", "z" >> :> {"n.txt"})
MCKind == [f \in {"x.c", "y.h", "n.txt", "main.ninja", "projects.toml"} |->
  CASE f = "x.c" -> "c" [] f = "y.h" -> "h" [] f = "n.txt" -> "other"
    [] f = "main.ninja" -> "ninja" [] OTHER -> "toml"]
MCFaultSets == SUBSET Faults
=============================================================================
