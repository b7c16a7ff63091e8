----------------------------- MODULE MCSyncQueue -----------------------------
(* Two folders that may hold a file of the same name, and a file beside them; *)
(* the file in the folder is on the device from the start, or yet to come.    *)
EXTENDS SyncQueue

MCPaths == {<<"d">>, <<"e">>, <<"f">>, <<"d", "x">>, <<"e", "x">>}
AsTree(folders, files, away) == [p \in MCPaths |-> IF p \in folders THEN "folder"
                                             ELSE IF p \in files THEN "file"
                                                     ELSE IF p \in away THEN "away" ELSE "none"]
MCTrees == {AsTree({<<"d">>}, {<<"d", "x">>, <<"f">>}, {}), AsTree({<<"d">>}, {<<"f">>}, {<<"d", "x">>})}
==============================================================================
