---------------------------- MODULE MCGitHistory ----------------------------
(* An instance of GitHistory: two worktrees of one repository, whose history  *)
(* holds a commit and every kind of blob, and a second repository that shares *)
(* a blob with it and holds one that no scan can complete, all discovered, or *)
(* the first only, or none.  Any one object may be missing, and any process   *)
(* may die.                                                                   *)
EXTENDS GitHistoryInv, TLC

CONSTANTS main, linked, other,    \* paths
          c1, c2,                 \* common directories
          commit, rev1, rev2, dropper, known, big, huge

MCObjects == {commit, rev1, rev2, dropper, known, big, huge}
MCBlobs == MCObjects \ {commit}
MCCarries == [o \in MCObjects |-> IF o \in {rev1, rev2} THEN {"signature"} ELSE {}]

MCPaths == {main, linked, other}
Orders == {<<main, linked, other>>, <<linked, main>>, <<>>}
CommonOf == (main :> c1) @@ (linked :> c1) @@ (other :> c2)
Histories == (c1 :> <<commit, rev1, known, dropper, big, rev2>>) @@ (c2 :> <<rev2, huge>>)
AnySingle == {{}} \cup {{o} : o \in MCObjects}
=============================================================================
