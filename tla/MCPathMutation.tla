--------------------------- MODULE MCPathMutation ---------------------------
(* Calls over a folder, a file in a subfolder of it, a file elsewhere, and a rename *)
(* that names two paths, one of them in the folder spelled in capitals.             *)
EXTENDS PathMutation

MCSegment == {"a", "A", "x", "y", "b"}
MCFold == [s \in MCSegment |-> IF s = "A" THEN "a" ELSE s]
dir == <<"a">>
FILE == <<"A", "x">>
deep == <<"a", "y", "x">>
other == <<"b">>
MCRequests == {{dir}, {deep}, {other}, {FILE, other}}

=============================================================================
