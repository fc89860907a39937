-------------------------- MODULE WatchDirectories --------------------------
(***************************************************************************)
(* pw_watch: how the watcher decides which directories to observe.         *)
(*                                                                         *)
(* watch_setup checks $PW_ROOT against the working directory and builds   *)
(* the exclude list: the user's --exclude-list, get_common_excludes under *)
(* $PW_ROOT and $PW_PROJECT_ROOT, and the build directories.               *)
(* minimal_watch_directories (pw_watch/watch.py) turns the exclude list    *)
(* into (directory, recursive) pairs; watch() starts one watchdog Observer *)
(* per pair and then presses the debouncer for the initial build.  A file  *)
(* change is reported to the event handler once by every observer whose    *)
(* watch covers the file.                                                  *)
(*                                                                         *)
(* Starting an observer can fail with OSError; watch() handles the two    *)
(* inotify limits by ending the program (through the fullscreen app,      *)
(* BUILDER_CONTEXT, or _exit(1)).  In fullscreen mode watch() runs on a   *)
(* daemon thread beside the app; elsewhere on the main thread.  WatchApp  *)
(* and BUILDER_CONTEXT are outside this repository: their exit ends the  *)
(* process.                                                               *)
(*                                                                         *)
(* Paths are sequences of names; the filesystem is a fixed tree given by   *)
(* the constants.  The generator's loop over the set exclude_dir_parents   *)
(* has no defined order, so the model picks the next directory with \E.    *)
(***************************************************************************)
EXTENDS FiniteSets, Sequences, SequencesExt

CONSTANTS
    Dirs,               \* directories of the filesystem (prefix-closed)
    Files,              \* regular files; the parent of each is in Dirs
    ToWatch,            \* Path.cwd(), the directory handed to the generator
    ExcludeLists,       \* values of --exclude-list
    BuildDirLists,      \* the build_dir Paths of the build recipes
    PwRoots,            \* values of $PW_ROOT (NoEnv: unset)
    ProjectRoots,       \* values of $PW_PROJECT_ROOT (NoEnv: unset)
    NoEnv,              \* an unset environment variable
    SetupErrors         \* errno values observer.schedule/start may raise

ASSUME /\ ToWatch \in Dirs
       /\ \A f \in Files : SubSeq(f, 1, Len(f) - 1) \in Dirs

VARIABLES
    phase,          \* "env" | "setup" | "yielding" | "watching" | "stopped"
                    \* | "crashed"
    exclude,        \* the to_exclude argument (a set of absolute paths)
    pending,        \* directories of exclude_dir_parents not yet iterated
    observers,      \* scheduled watches: [dir |-> path, rec |-> BOOLEAN]
    initialBuild,   \* debouncer.press('Triggering initial build...') done
    lastEvent,      \* <<file, observers that reported it>> or <<>>
    fullscreen,     \* --fullscreen: watch() runs on a daemon thread
    process         \* "running" | "exited"

vars == <<phase, exclude, pending, observers, initialBuild, lastEvent,
          fullscreen, process>>

Watch == [dir : Dirs, rec : BOOLEAN]

Parent(p) == SubSeq(p, 1, Len(p) - 1)

\* Mutant: the item.is_dir() filter dropped, files are yielded as well.
SubDirs_no_is_dir(d) ==
    {c \in Dirs \cup Files : Len(c) = Len(d) + 1 /\ IsPrefix(d, c)}

\* Path(directory).iterdir() filtered by item.is_dir().
SubDirs(d) == {c \in Dirs : Len(c) = Len(d) + 1 /\ IsPrefix(d, c)}

\* Path.relative_to(to_watch) succeeds only for paths under to_watch.
IsUnder(p) == IsPrefix(ToWatch, p)

\* The list comprehension that keeps the excluded paths that are directories.
directories_to_exclude(ex) == {d \in ex : d \in Dirs}

\* Mutant: off by one, the excluded directory itself joins the parents.
exclude_dir_parents_with_self(ex) ==
    {ToWatch} \cup
    UNION {{SubSeq(d, 1, k) : k \in (Len(ToWatch) + 1)..Len(d)} :
           d \in directories_to_exclude(ex)}

\* to_watch plus every proper ancestor, below to_watch, of an excluded
\* directory: the parts of relative_to(to_watch) without the last one.
exclude_dir_parents(ex) ==
    {ToWatch} \cup
    UNION {{SubSeq(d, 1, k) : k \in (Len(ToWatch) + 1)..(Len(d) - 1)} :
           d \in directories_to_exclude(ex)}

\* The pairs yielded for one directory of exclude_dir_parents.
YieldedFor(d, ex) ==
    {[dir |-> d, rec |-> FALSE]} \cup
    {[dir |-> c, rec |-> TRUE] :
        c \in {s \in SubDirs(d) : /\ s \notin exclude_dir_parents(ex)
                                  /\ s \notin directories_to_exclude(ex)}}

\* get_common_excludes: the typical ignored directories under PW_ROOT,
\* and under PW_PROJECT_ROOT when it differs; legacy directories that
\* exist under PW_ROOT.
TypicalIgnored == {".environment", ".presubmit", ".git", ".mypy_cache",
                   ".cargo", "environment", "out"}
LegacyDirectories == {".cipd", ".python3-venv"}
get_common_excludes(root, proj) ==
    {root \o <<n>> : n \in TypicalIgnored}
    \cup (IF proj # root THEN {proj \o <<n>> : n \in TypicalIgnored} ELSE {})
    \cup {root \o <<n>> : n \in {l \in LegacyDirectories : root \o <<l>> \in Dirs}}

\* The end of the watch() thread by an exception it does not handle: on
\* the main thread the traceback ends the program; on fullscreen's daemon
\* thread only the thread ends, and the app stays up.
ThreadDies ==
    /\ phase' = "crashed"
    /\ process' = IF fullscreen THEN "running" ELSE "exited"

\* Lines 884-907, except OSError: for the inotify watch limit (errno 28)
\* or the instance limit (EMFILE) the program ends, by watch_app.exit,
\* BUILDER_CONTEXT.exit or _exit(1), whichever applies (the first two
\* are outside this repository and end the program); any other error is
\* re-raised.
OnSetupError(err) ==
    IF err \in {"ENOSPC", "EMFILE"}
       THEN /\ phase' = "crashed" /\ process' = "exited"
       ELSE ThreadDies

\* A recursive watch sees its whole subtree, a flat one its own entries.
Covers(w, f) == IF w.rec THEN IsPrefix(w.dir, f) ELSE Parent(f) = w.dir

-----------------------------------------------------------------------------

Init ==
    /\ phase = "env"
    /\ exclude = {}
    /\ pending = {}
    /\ observers = {}
    /\ initialBuild = FALSE
    /\ lastEvent = <<>>
    /\ fullscreen \in BOOLEAN /\ process = "running"

\* watch_setup, before the watch starts (on the main thread): an unset
\* PW_ROOT or PW_PROJECT_ROOT raises KeyError (os.environ[...] is never
\* None, so the None test is dead); a working directory that is neither
\* PW_ROOT nor one of its parents ends the program with
\* _exit_due_to_pigweed_not_installed; otherwise the exclude list is
\* the user's, the common excludes and the build directories.
WatchSetup ==
    /\ phase = "env"
    /\ \E user \in ExcludeLists, builds \in BuildDirLists,
         root \in PwRoots, proj \in ProjectRoots :
         CASE root = NoEnv \/ (IsPrefix(ToWatch, root) /\ proj = NoEnv) ->
                  /\ phase' = "crashed" /\ process' = "exited"
                  /\ UNCHANGED exclude
           [] ~IsPrefix(ToWatch, root) ->
                  /\ phase' = "stopped" /\ process' = "exited"
                  /\ UNCHANGED exclude
           [] OTHER ->
                  /\ exclude' = user \cup get_common_excludes(root, proj)
                                     \cup builds
                  /\ phase' = "setup" /\ UNCHANGED process
    /\ UNCHANGED <<pending, observers, initialBuild, lastEvent, fullscreen>>

\* Lines 575-597: reformat to_exclude and collect exclude_dir_parents.
\* relative_to raises ValueError for an excluded directory outside
\* to_watch; watch() does not catch it, so the watch ends there.
ReformatExcludes ==
    /\ phase = "setup"
    /\ IF \A d \in directories_to_exclude(exclude) : IsUnder(d)
          THEN /\ phase' = "yielding"
               /\ pending' = exclude_dir_parents(exclude)
               /\ UNCHANGED process
          ELSE /\ ThreadDies
               /\ UNCHANGED pending
    /\ UNCHANGED <<exclude, observers, initialBuild, lastEvent, fullscreen>>

\* One iteration of the loop at line 602 together with the observers that
\* watch() schedules and starts for what it yields (lines 864-872).
YieldDirectory ==
    /\ phase = "yielding"
    /\ \E d \in pending :
        /\ pending' = pending \ {d}
        /\ observers' = observers \cup YieldedFor(d, exclude)
    /\ UNCHANGED <<phase, exclude, initialBuild, lastEvent, fullscreen, process>>

\* Observer() / schedule / start raises OSError for one of the pairs
\* yielded for a directory; those started before it keep running.
ObserverFails ==
    /\ phase = "yielding" /\ process = "running"
    /\ \E d \in pending, err \in SetupErrors :
        /\ \E started \in SUBSET YieldedFor(d, exclude) :
              observers' = observers \cup started
        /\ OnSetupError(err)
    /\ UNCHANGED <<exclude, pending, initialBuild, lastEvent, fullscreen>>

\* Line 874: the generator is exhausted and the initial build is requested.
StartWatching ==
    /\ phase = "yielding"
    /\ pending = {}
    /\ phase' = "watching"
    /\ initialBuild' = TRUE
    /\ UNCHANGED <<exclude, pending, observers, lastEvent, fullscreen, process>>

\* A file changes; each observer covering it calls the handler's dispatch().
FileChanged ==
    /\ phase = "watching"
    /\ \E f \in Files :
        lastEvent' = <<f, {w \in observers : Covers(w, f)}>>
    /\ UNCHANGED <<phase, exclude, pending, observers, initialBuild, fullscreen,
                   process>>

Next ==
    \/ WatchSetup
    \/ ReformatExcludes
    \/ YieldDirectory
    \/ StartWatching
    \/ FileChanged
    \/ ObserverFails

Spec == Init /\ [][Next]_vars

-----------------------------------------------------------------------------

TypeOK ==
    /\ phase \in {"env", "setup", "yielding", "watching", "stopped", "crashed"}
    /\ \A p \in exclude : p \in Seq(STRING)
    /\ pending \subseteq Dirs
    /\ observers \subseteq Watch
    /\ initialBuild \in BOOLEAN
    /\ lastEvent = <<>> \/ (lastEvent[1] \in Files /\ lastEvent[2] \subseteq Watch)
    /\ fullscreen \in BOOLEAN /\ process \in {"running", "exited"}

\* A file is meant to be watched when it lies under to_watch and under no
\* excluded directory (get_common_excludes, the build directories).
MeantToWatch(f, ex) ==
    /\ IsUnder(f)
    /\ \A d \in directories_to_exclude(ex) : ~IsPrefix(d, f)

\* A change of a file that is meant to be watched reaches the handler from
\* exactly one observer (no lost event, no duplicate builds requested),
\* and a change inside an excluded directory reaches it from none.
ChangeReportedOnce ==
    lastEvent # <<>> =>
        Cardinality(lastEvent[2]) =
            IF MeantToWatch(lastEvent[1], exclude) THEN 1 ELSE 0

\* The program never outlives its watch: when the observers cannot be
\* set up, pw watch ends instead of showing a fullscreen app that will
\* never build again.
WatchFailureEndsProcess ==
    phase = "crashed" => process = "exited"

\* The watch() thread never dies on the exclude list it is given: when the
\* setup is over, the observers are running and the initial build pressed.
SetupCompletes ==
    phase # "crashed"

=============================================================================
