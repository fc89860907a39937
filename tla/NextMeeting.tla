----------------------------- MODULE NextMeeting -----------------------------
(***************************************************************************)
(* pw_docgen/sphinx/pigweed_live.py: the `pigweed-live` Sphinx directive,  *)
(* which writes the date of the next Pigweed Live meeting into the docs    *)
(* each time they are built.  _find_next_meeting takes the build machine's *)
(* local wall time (datetime.now()), localizes it as US/Pacific, and walks *)
(* the hard-coded meeting list for the first meeting that is not in the    *)
(* past; when none is left it ends the build with sys.exit.               *)
(*                                                                         *)
(* Time is a count of hours of US/Pacific wall time.  A meeting string is  *)
(* the hour strptime and localize make of it.  The build machine's clock   *)
(* reads Pacific time plus MachineOffset hours.  The page's text (strftime, *)
(* PDT/PST) is abstracted to the meeting it names.                          *)
(***************************************************************************)
EXTENDS Integers, Sequences, FiniteSetsExt, Functions

CONSTANTS
    Meetings,       \* PigweedLiveDirective.meetings, in hours
    MachineOffset,  \* the build machine's local time minus Pacific time
    PytzAvailable,  \* whether `import pytz` succeeds
    MaxTime         \* bound on the hours the model runs

VARIABLES
    now,        \* Pacific wall time
    loaded,     \* the extension module: "no" | "registered" | "NameError"
    status,     \* the last build's result: "none" | "shown" | "exit"
    shown,      \* the meeting it showed: {} or {m}
    builtAt     \* Pacific time of the last build

vars == <<now, loaded, status, shown, builtAt>>

\* Mutant: the loop returns the position of the meeting (enumerate) instead
\* of the meeting.
RECURSIVE FindNextMeeting_index(_, _)
FindNextMeeting_index(ms, current) ==
    IF ms = <<>> THEN {}
    ELSE IF current > Head(ms) THEN FindNextMeeting_index(Tail(ms), current)
    ELSE {Len(Meetings) - Len(ms) + 1}

\* Mutant: a meeting that starts this hour is skipped.
RECURSIVE FindNextMeeting_ge(_, _)
FindNextMeeting_ge(ms, current) ==
    IF ms = <<>> THEN {}
    ELSE IF current >= Head(ms) THEN FindNextMeeting_ge(Tail(ms), current)
    ELSE {Head(ms)}

\* The for loop of _find_next_meeting: a meeting before the current time is
\* skipped (continue); the first other one is next_meeting (break); None,
\* here {}, when the list runs out.
RECURSIVE FindNextMeeting(_, _)
FindNextMeeting(ms, current) ==
    IF ms = <<>> THEN {}
    ELSE IF current > Head(ms) THEN FindNextMeeting(Tail(ms), current)
    ELSE {Head(ms)}

-----------------------------------------------------------------------------

Init ==
    /\ now \in 0..MaxTime
    /\ loaded = "no"
    /\ status = "none" /\ shown = {} /\ builtAt = 0

\* Sphinx loads the extension: `import pytz` in a try block sets
\* PYTZ_AVAILABLE False when it fails, but the class body evaluates
\* pytz.timezone('US/Pacific') as the module is imported, so without pytz
\* the import raises NameError before setup() can test the flag.
Load ==
    /\ loaded = "no"
    /\ loaded' = IF PytzAvailable THEN "registered" ELSE "NameError"
    /\ UNCHANGED <<now, status, shown, builtAt>>

\* A docs build runs the directive: run, _make_paragraph and
\* _find_next_meeting.  timezone.localize(datetime.now()) reads the local
\* clock as Pacific time; no meeting left ends the build with sys.exit.
Build ==
    /\ loaded = "registered"
    /\ LET next == FindNextMeeting(Meetings, now + MachineOffset) IN
           /\ status' = IF next = {} THEN "exit" ELSE "shown"
           /\ shown' = next
    /\ builtAt' = now
    /\ UNCHANGED <<now, loaded>>

\* An hour passes.
Tick ==
    /\ now < MaxTime
    /\ now' = now + 1
    /\ UNCHANGED <<loaded, status, shown, builtAt>>

Next == Load \/ Build \/ Tick

\* Docs are built whenever someone builds them; nothing need happen.
Spec == Init /\ [][Next]_vars

-----------------------------------------------------------------------------

\* The types: a page names one of the listed meetings.
TypeOK ==
    /\ now \in 0..MaxTime /\ builtAt \in 0..MaxTime
    /\ loaded \in {"no", "registered", "NameError"}
    /\ status \in {"none", "shown", "exit"}
    /\ shown \subseteq Range(Meetings) /\ Cardinality(shown) <= 1

\* The page names the earliest meeting that had not started when the docs
\* were built, whatever the order of builds and the passing of time, and a
\* build fails for want of data only when every listed meeting has started
\* (the TODO at the head of `meetings` plans the update on that basis).
PageShowsNextMeeting ==
    LET upcoming == {m \in Range(Meetings) : m >= builtAt} IN
        /\ status = "shown" => shown = {Min(upcoming)}
        /\ status = "exit" => upcoming = {}

\* A docs build with pytz missing completes without the directive, as
\* setup()'s PYTZ_AVAILABLE test intends.
BuildsWithoutPytz ==
    loaded # "NameError"

=============================================================================
