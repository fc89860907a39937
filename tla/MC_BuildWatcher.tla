-------------------------- MODULE MC_BuildWatcher --------------------------
(* Four paths: p1 is a tracked source file, p2 a file the repository       *)
(* ignores, p3 a source file outside any Git repository (git exits 128),   *)
(* p4 a file the watch patterns do not accept.  Three recipes, one of them *)
(* disabled, on two executor threads.                                      *)
EXTENDS BuildWatcher, TLC

CONSTANTS p1, p2, p3, p4, r1, r2, r3

MC_Paths == {p1, p2, p3, p4}
MC_Matching == {p1, p2, p3}
MC_GitReturnCode == (p1 :> 1 @@ p2 :> 0 @@ p3 :> 128 @@ p4 :> 1)
MC_EventTypes == {"modified", "moved", "closed"}
MC_Recipes == {r1, r2, r3}
MC_Enabled == {r1, r2}

\* For the liveness run: one source file and one file no pattern accepts.
Small_Paths == {p1, p4}
Small_Matching == {p1}
Small_GitReturnCode == (p1 :> 1 @@ p4 :> 1)
Small_EventTypes == {"modified", "moved"}
=============================================================================
