----------------------------- MODULE MCDokanOps -----------------------------
(* DokanOps on a tree with a directory d that holds a file f, links that   *)
(* are relative, absolute, dangling and cyclic, and a long one to d/ff     *)
(* (dangling too) of which a failed read may leave d/f, or nothing; r is a *)
(* link to "/".  A block of d begins with a deleted entry, old, the name   *)
(* that dang was given since; inode 0 is taken for one like that of f.     *)
(* The root has an entry without a name.                                   *)
EXTENDS DokanOps

MCObj == {"/", "d", "f", "rel", "abs", "dang", "loop", "long", "r"}

MCType == [o \in MCObj |-> CASE o \in {"/", "d"} -> "DIRECTORY"
                             [] o = "f" -> "REG"
                             [] OTHER -> "SYMLINK"]

MCName == {"d", "f", "rel", "abs", "loop", "long", "ff", "r", "old", ".", ".."}

MCEntry ==
  [o \in MCObj |->
     CASE o = "/" -> [n \in {"d", "rel", "loop", "long", "r", "."} |-> IF n = "." THEN "/" ELSE n]
       [] o = "d" -> [n \in {"f", "abs", "old", ".."} |->
                           CASE n = ".." -> "/" [] n = "old" -> "dang" [] OTHER -> n]
       [] OTHER -> <<>>]

MCStale ==
  [o \in MCObj |-> [n \in IF o = "d" THEN {"old"} ELSE {} |-> "f"]]

Deleted(name) == [name |-> name, kind |-> "stale"]
Live(name) == [name |-> name, kind |-> "live"]

MCSlots ==
  [o \in MCObj |->
     CASE o = "/" -> <<Live("."), Live("d"), [name |-> ".", kind |-> "nameless"],
                       Live("rel"), Live("loop"), Live("long"), Live("r")>>
       [] o = "d" -> <<Live(".."), Live("abs"), Deleted("old"), Live("f"), Live("old")>>
       [] OTHER -> <<>>]

MCTarget ==
  [o \in MCObj |->
     CASE o = "rel"  -> [abs |-> FALSE, path |-> <<"d", "f">>]
       [] o = "abs"  -> [abs |-> TRUE,  path |-> <<"d">>]
       [] o = "dang" -> [abs |-> FALSE, path |-> <<"..", "f">>]
       [] o = "loop" -> [abs |-> FALSE, path |-> <<".", "loop">>]
       [] o = "long" -> [abs |-> FALSE, path |-> <<"d", "ff">>]
       [] OTHER      -> [abs |-> TRUE,  path |-> <<>>]]

MCTorn ==
  [o \in MCObj |-> IF o = "long" THEN {[abs |-> FALSE, path |-> <<"d", "f">>],
                                       [abs |-> FALSE, path |-> <<>>]}
                   ELSE {}]

MCPaths ==
  { <<>>, <<"d">>, <<"d", "..", "rel">>, <<"d", "f", "f">>, <<"loop">>, <<"d", "..", "long">>,
    <<"d", "abs", "abs", "f">>, <<"d", "old">>, <<"r", "d">> }

TornPaths == { <<>>, <<"d", "..", "long">>, <<"d", "abs">> }
=============================================================================
