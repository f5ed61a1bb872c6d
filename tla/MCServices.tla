----------------------------- MODULE MCServices -----------------------------
(* Services with small sets of their own; the two p, the two q and the two *)
(* r are the same to every service that has them.                          *)
EXTENDS Services, TLC

CONSTANTS p1, p2, q1, q2, r1, r2, t1

ServiceSymmetry ==
    Permutations({p1, p2}) \cup Permutations({q1, q2}) \cup Permutations({r1, r2})

(* A module and a package of the same name, a part of the package, a file  *)
(* that uses the part and one that may use that file.                      *)
ScopeOrder == <<"aux.py", "lib.py", "lib/__init__.py", "lib/part.py", "main.py">>
ScopePaths == {ScopeOrder[i] : i \in 1..5}
ScopeModule == [p \in ScopePaths |->
    CASE p = "aux.py" -> "aux"
      [] p \in {"lib.py", "lib/__init__.py"} -> "lib"
      [] p = "lib/part.py" -> "lib.part"
      [] p = "main.py" -> "main"]
ScopeInits == {"lib/__init__.py"}
ScopeAbove == [m \in {"aux", "lib", "lib.part", "main", "none"} |->
    IF m = "lib.part" THEN {"lib"} ELSE {}]

(* Trees of plain files, of which one may use another, and two in which a  *)
(* file computes what it imports or is not text.                           *)
ScopeTree(lib, init, part, aux, main) == [p \in ScopePaths |->
    CASE p = "lib.py" -> lib
      [] p = "lib/__init__.py" -> init
      [] p = "lib/part.py" -> part
      [] p = "aux.py" -> aux
      [] p = "main.py" -> main]
ScopeTrees ==
    LET may == {"absent", "plain"} IN
    {ScopeTree(lib, init, part, "uses part", "plain") : lib \in may, init \in may, part \in may}
    \cup {ScopeTree("absent", init, part, "uses part", "uses aux") : init \in may, part \in may}
    \cup {ScopeTree("absent", "plain", "plain", aux, "plain") : aux \in {"dynamic", "binary"}}
ScopeImports == [c \in {"absent", "plain", "uses part", "uses aux", "dynamic", "binary"} |->
    CASE c = "uses part" -> {<<"lib", "lib.part">>}
      [] c = "uses aux" -> {<<"none", "aux">>}
      [] OTHER -> {}]
ScopeEntries == {"main.py"}

(* Packages that fit, that have a file too large, too many of them or too  *)
(* many bytes, just as many hits as are reported and more, and hits that   *)
(* carry no severity.                                                      *)
File(size, hits) == [size |-> size, hits |-> hits]
MalwareParcels ==
    {<<File(1, <<>>)>>,
     <<File(1, <<>>), File(1, <<"critical">>)>>,
     <<File(3, <<"critical">>), File(1, <<>>)>>,
     <<File(1, <<>>), File(1, <<>>), File(1, <<"critical">>)>>,
     <<File(2, <<>>), File(2, <<"critical">>)>>,
     <<File(1, <<"low", "low">>), File(1, <<"critical">>)>>,
     <<File(1, <<"critical">>), File(1, <<"untagged">>)>>,
     <<File(1, <<"low", "low">>)>>}
=============================================================================
