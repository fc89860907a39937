------------------------ MODULE MC_WatchDirectories ------------------------
(* A small checkout: to_watch is /w with a source tree a/x, a build tree   *)
(* out/{cmake,host} and a legacy .cipd directory; /o lies outside the     *)
(* watched directory.                                                      *)
EXTENDS WatchDirectories

MC_Dirs ==
    { <<>>, <<"w">>, <<"w", "a">>, <<"w", "a", "x">>,
      <<"w", "out">>, <<"w", "out", "cmake">>, <<"w", "out", "host">>,
      <<"w", ".cipd">>, <<"o">> }

MC_Files == { d \o <<"f">> : d \in MC_Dirs \ {<<>>} }

MC_ToWatch == <<"w">>

Nested(S) == \E p, q \in S : p # q /\ IsPrefix(p, q)

\* --exclude-list values: none, or flat lists of a build dir (out), source
\* dirs (a, a/x) and a path that does not exist (is_dir() is false).
UserExcludeLists ==
    { S \in SUBSET { <<"w", "out">>, <<"w", "a">>, <<"w", "a", "x">>,
                     <<"w", "gone">> } : ~Nested(S) }

\* Build directories: none (a recipe with a non-Path build_dir), or out,
\* the upstream default, which is also a common exclude.
OutBuildDirLists == { {}, {<<"w", "out">>} }

\* A build directory inside out/, beside the common exclude out.
NestedBuildDirLists == { {<<"w", "out", "cmake">>} }

\* A build directory outside the working directory.
OutsideBuildDirLists == { {<<"o">>} }

\* PW_ROOT: the working directory itself, a Pigweed checkout inside the
\* project (/w/a), a directory the working directory is not a parent of,
\* or unset; PW_PROJECT_ROOT: the working directory, or unset.
MC_PwRoots == { <<"w">>, <<"w", "a">>, <<"o">>, NoEnv }
MC_ProjectRoots == { <<"w">>, NoEnv }

\* Both variables set to the working directory (upstream Pigweed).
UpstreamRoots == { <<"w">> }

\* No --exclude-list.
NoUserExcludes == { {} }
=============================================================================
