---------------------------- MODULE BuildWatcher ----------------------------
(***************************************************************************)
(* pw_watch: PigweedBuildWatcher (pw_watch/watch.py).                      *)
(*                                                                         *)
(* Threads: watchdog observer threads call dispatch(); the keypress thread *)
(* calls rebuild(); the Debouncer's timer thread calls run() and then      *)
(* on_complete(); run() hands one run_recipe() per build recipe to a       *)
(* ThreadPoolExecutor with parallel_workers threads.  A press() while a    *)
(* build runs calls cancel().                                              *)
(*                                                                         *)
(* The Debouncer (pw_watch/debounce.py) and the build context              *)
(* (pw_build/project_builder_context.py) are not part of the modelled      *)
(* sources.  They appear only through the DebouncedFunction contract that  *)
(* watch.py implements: a press() is remembered until the timer thread     *)
(* calls run(); a press() during run() calls cancel(); run() is followed   *)
(* by on_complete(cancelled); and BUILDER_CONTEXT.interrupted() is true    *)
(* once cancel() has set restart_flag in the current build.                *)
(***************************************************************************)
EXTENDS Naturals, FiniteSets

CONSTANTS
    Paths,          \* file paths that events can name
    NoPath,         \* matching_path = None
    Matching,       \* paths accepted by _path_matches (patterns/ignores)
    GitReturnCode,  \* [Paths -> {0, 1, 128}]: `git check-ignore` exit code
    EventTypes,     \* watchdog event types
    Recipes,        \* the build recipes of the ProjectBuilder
    Enabled,        \* recipes with cfg.enabled
    Workers,        \* parallel_workers of the executor
    Restart,        \* restart_on_changes
    MaxPresses      \* bound on debouncer presses (file changes + Enter)

ASSUME /\ NoPath \notin Paths
       /\ Matching \subseteq Paths
       /\ GitReturnCode \in [Paths -> {0, 1, 128}]
       /\ Enabled \subseteq Recipes
       /\ Workers \in Nat \ {0}
       /\ Restart \in BOOLEAN
       /\ MaxPresses \in Nat

\* _FILESYSTEM_EVENTS_THAT_TRIGGER_BUILDS
TriggerTypes == {"created", "modified", "deleted", "moved"}

\* watchdog gives a dest_path to moved events only.
Event == {e \in [type : EventTypes, is_directory : BOOLEAN,
                 src_path : Paths, dest_path : Paths \cup {NoPath}] :
             (e.type = "moved") = (e.dest_path # NoPath)}

NoEvent == [type |-> "none"]

VARIABLES
    matching_path,  \* PigweedBuildWatcher.matching_path
    requested,      \* a press() the timer thread has not yet served
    fromChange,     \* that press came from a file change
    build,          \* timer thread: "idle" | "running"
    cancelled,      \* cancel() returned True during this run()
    restart_flag,   \* BUILDER_CONTEXT.restart_flag
    queue,          \* recipes submitted to the executor, not yet picked
    active,         \* recipes inside project_builder.run_build
    status,         \* recipe status: "pending" | "passed" | "failed"
    presses,        \* presses so far (bounded by MaxPresses)
    announced,      \* matching_path as printed by run() for this build
    runFromChange,  \* this run() serves a press made by a file change
    lastEvent,      \* the event dispatch() received last, or NoEvent
    lastDispatch,   \* the path it handed to _handle_matched_event()
    changeSeq,      \* number of file changes that pressed the debouncer
    runStartSeq,    \* changeSeq when the current run() started
    builtSeq        \* runStartSeq of the last run() not cancelled

vars == <<matching_path, requested, fromChange, build, cancelled,
          restart_flag, queue, active, status, presses, announced,
          runFromChange, lastEvent, lastDispatch, changeSeq, runStartSeq, builtSeq>>

-----------------------------------------------------------------------------
(* Pure helpers.                                                           *)

\* git_ignored(): true for exit code 0 (ignored) and 128 (git failed).
git_ignored(p) == GitReturnCode[p] \in {0, 128}

\* _path_matches()
path_matches(p) == p \in Matching

\* The paths dispatch() collects: dest_path first, then src_path.
EventPaths(e) ==
    IF e.dest_path # NoPath THEN <<e.dest_path, e.src_path>>
                            ELSE <<e.src_path>>

\* The first collected path Git does not ignore and the patterns match.
FirstMatch(e) ==
    LET ps == EventPaths(e)
        ok == {i \in DOMAIN ps : ~git_ignored(ps[i]) /\ path_matches(ps[i])}
    IN IF ok = {} THEN NoPath
       ELSE ps[CHOOSE i \in ok : \A j \in ok : i <= j]

-----------------------------------------------------------------------------
(* The debouncer's side of press(), as watch.py relies on it.              *)

\* cancel(): with restart_on_changes, stop the running build.
cancel ==
    IF Restart
       THEN /\ restart_flag' = TRUE
            /\ cancelled' = TRUE
       ELSE UNCHANGED <<restart_flag, cancelled>>

Press(isChange) ==
    /\ presses < MaxPresses
    /\ presses' = presses + 1
    /\ requested' = TRUE
    /\ fromChange' = (fromChange \/ isChange)
    /\ IF build = "running" THEN cancel
                            ELSE UNCHANGED <<restart_flag, cancelled>>

-----------------------------------------------------------------------------

Init ==
    /\ matching_path = NoPath
    \* watch() presses 'Triggering initial build...' after the observers
    \* are started (WatchDirectories); the model starts after that press.
    /\ requested = TRUE
    /\ fromChange = FALSE
    /\ build = "idle"
    /\ cancelled = FALSE
    /\ restart_flag = FALSE
    /\ queue = {}
    /\ active = {}
    /\ status = [r \in Recipes |-> "pending"]
    /\ presses = 0
    /\ announced = NoPath
    /\ runFromChange = FALSE
    /\ lastEvent = NoEvent
    /\ lastDispatch = NoPath
    /\ changeSeq = 0
    /\ runStartSeq = 0
    /\ builtSeq = 0

\* Mutant: _handle_matched_event() presses only when it recorded the path,
\* so a change during a build (matching_path already set) is dropped.
Dispatch_press_once ==
    \E e \in Event :
        LET p == FirstMatch(e) IN
        /\ lastEvent' = e
        /\ IF e.is_directory \/ e.type \notin TriggerTypes \/ p = NoPath
           THEN /\ lastDispatch' = NoPath
                /\ UNCHANGED <<matching_path, requested, fromChange,
                               restart_flag, cancelled, presses, changeSeq>>
           ELSE /\ lastDispatch' = p
                /\ matching_path' = IF matching_path = NoPath
                                       THEN p ELSE matching_path
                /\ IF Restart
                      THEN /\ changeSeq < MaxPresses
                           /\ changeSeq' = changeSeq + 1
                           /\ IF matching_path = NoPath
                                 THEN Press(TRUE)
                                 ELSE UNCHANGED <<requested, fromChange,
                                          restart_flag, cancelled, presses>>
                      ELSE UNCHANGED <<requested, fromChange, restart_flag,
                                       cancelled, presses, changeSeq>>
    /\ UNCHANGED <<build, queue, active, status, announced, runFromChange,
                   runStartSeq, builtSeq>>

\* dispatch() and _handle_matched_event() on an observer thread.
Dispatch ==
    \E e \in Event :
        LET p == FirstMatch(e) IN
        /\ lastEvent' = e
        /\ IF e.is_directory \/ e.type \notin TriggerTypes \/ p = NoPath
           THEN \* Lines 231-235, 247-250: nothing to do.
                /\ lastDispatch' = NoPath
                /\ UNCHANGED <<matching_path, requested, fromChange,
                               restart_flag, cancelled, presses, changeSeq>>
           ELSE /\ lastDispatch' = p
                /\ matching_path' = IF matching_path = NoPath
                                       THEN p ELSE matching_path
                /\ IF Restart
                      THEN /\ Press(TRUE)
                           /\ changeSeq' = changeSeq + 1
                      ELSE UNCHANGED <<requested, fromChange, restart_flag,
                                       cancelled, presses, changeSeq>>
    /\ UNCHANGED <<build, queue, active, status, announced, runFromChange,
                   runStartSeq, builtSeq>>

\* _wait_for_enter() -> rebuild(): 'Manual build requested'.
Rebuild ==
    /\ Press(FALSE)
    /\ UNCHANGED <<matching_path, build, queue, active, status, announced,
                   runFromChange, lastEvent, lastDispatch, changeSeq, runStartSeq,
                   builtSeq>>

\* run() on the timer thread, up to the submission of every recipe:
\* announce matching_path, set_building(), reset_status(), submit.
Run ==
    /\ build = "idle"
    /\ requested
    /\ build' = "running"
    /\ requested' = FALSE
    /\ fromChange' = FALSE
    /\ runFromChange' = fromChange
    /\ announced' = matching_path
    /\ restart_flag' = FALSE
    /\ cancelled' = FALSE
    /\ status' = [r \in Recipes |-> "pending"]
    /\ queue' = Recipes
    /\ runStartSeq' = changeSeq
    /\ UNCHANGED <<matching_path, active, presses, lastEvent, lastDispatch,
                   changeSeq, builtSeq>>

\* Mutant: the `if not cfg.enabled: return` check dropped.
RunRecipe_ignores_enabled ==
    /\ build = "running"
    /\ Cardinality(active) < Workers
    /\ \E r \in queue :
        /\ queue' = queue \ {r}
        /\ active' = IF restart_flag THEN active ELSE active \cup {r}
    /\ UNCHANGED <<matching_path, requested, fromChange, build, cancelled,
                   restart_flag, status, presses, announced, runFromChange,
                   lastEvent, lastDispatch, changeSeq, runStartSeq, builtSeq>>

\* run_recipe() on a free executor thread.  It returns at once when the
\* build was interrupted or the recipe is disabled (lines 347-350).
RunRecipe ==
    /\ build = "running"
    /\ Cardinality(active) < Workers
    /\ \E r \in queue :
        /\ queue' = queue \ {r}
        /\ active' = IF restart_flag \/ r \notin Enabled
                        THEN active ELSE active \cup {r}
    /\ UNCHANGED <<matching_path, requested, fromChange, build, cancelled,
                   restart_flag, status, presses, announced, runFromChange,
                   lastEvent, lastDispatch, changeSeq, runStartSeq, builtSeq>>

\* project_builder.run_build() returns; after terminate_and_wait() the
\* build has been killed and fails.
RecipeFinished ==
    \E r \in active :
        /\ active' = active \ {r}
        /\ \E outcome \in IF restart_flag THEN {"failed"}
                                          ELSE {"passed", "failed"} :
              status' = [status EXCEPT ![r] = outcome]
        /\ UNCHANGED <<matching_path, requested, fromChange, build,
                       cancelled, restart_flag, queue, presses, announced,
                       runFromChange, lastEvent, lastDispatch, changeSeq, runStartSeq,
                       builtSeq>>

\* Every future has completed: set_idle(), then on_complete(cancelled),
\* which ends by clearing matching_path (line 474).
Complete ==
    /\ build = "running"
    /\ queue = {}
    /\ active = {}
    /\ build' = "idle"
    /\ matching_path' = NoPath
    /\ builtSeq' = IF cancelled THEN builtSeq ELSE runStartSeq
    /\ UNCHANGED <<requested, fromChange, cancelled, restart_flag, queue,
                   active, status, presses, announced, runFromChange,
                   lastEvent, lastDispatch, changeSeq, runStartSeq>>

Next ==
    \/ Dispatch
    \/ Rebuild
    \/ Run
    \/ RunRecipe
    \/ RecipeFinished
    \/ Complete

\* The timer thread and the executor threads are always scheduled again
\* and every build command terminates; file events and key presses come
\* from the user and need not happen.
Fairness ==
    /\ WF_vars(Run)
    /\ WF_vars(RunRecipe)
    /\ WF_vars(RecipeFinished)
    /\ WF_vars(Complete)

Spec == Init /\ [][Next]_vars /\ Fairness

-----------------------------------------------------------------------------

TypeOK ==
    /\ matching_path \in Paths \cup {NoPath}
    /\ requested \in BOOLEAN /\ fromChange \in BOOLEAN
    /\ build \in {"idle", "running"}
    /\ cancelled \in BOOLEAN /\ restart_flag \in BOOLEAN
    /\ queue \subseteq Recipes /\ active \subseteq Enabled
    /\ status \in [Recipes -> {"pending", "passed", "failed"}]
    /\ presses \in 0..MaxPresses
    /\ announced \in Paths \cup {NoPath}
    /\ runFromChange \in BOOLEAN
    /\ lastEvent \in Event \cup {NoEvent}
    /\ lastDispatch \in Paths \cup {NoPath}
    /\ changeSeq \in 0..MaxPresses
    /\ runStartSeq \in 0..changeSeq /\ builtSeq \in 0..runStartSeq

\* Every file change that pressed the debouncer is eventually covered by
\* a build that started after it and ran to the end without being
\* cancelled: a change made during a build is never lost.
ChangeEventuallyBuilt ==
    \A k \in 1..MaxPresses : (changeSeq >= k) ~> (builtSeq >= k)

\* A build started because a file changed says which file changed:
\* run() prints 'Change detected: <matching_path>' for it.
BuildAnnouncesChange ==
    (build = "running" /\ runFromChange) => announced # NoPath

\* A change of a file that Git does not ignore and the patterns accept is
\* handed to _handle_matched_event().  The docstring of git_ignored()
\* says it is true only for files in a Git repository that ignores them.
MatchedChangeHandled ==
    (/\ lastEvent # NoEvent
     /\ ~lastEvent.is_directory
     /\ lastEvent.type \in TriggerTypes
     /\ lastEvent.src_path \in Matching
     /\ GitReturnCode[lastEvent.src_path] # 0)
        => lastDispatch # NoPath

=============================================================================
