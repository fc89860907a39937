------------------------------- MODULE LogPanes -------------------------------
(***************************************************************************)
(* pw_console/log_pane.py: the log panes that view one log store.  The     *)
(* Insert key and the "Duplicate pane" menu entry add a copy of a pane     *)
(* that shares its LogStore; Delete and "Remove pane" take a duplicate     *)
(* away; add_log_handler attaches a logger and records its name in the    *)
(* pane's subtitle, which the window title shows as "first + N more".     *)
(*                                                                         *)
(* Strings are sequences of words: the ', ' that append_pane_subtitle     *)
(* inserts is the word SEP, so a logger name that contains ', ' is a      *)
(* sequence with SEP in it.  The window manager is not in this file; the  *)
(* model keeps the pane list it maintains.                                 *)
(***************************************************************************)
EXTENDS Integers, Sequences, SequencesExt

CONSTANTS
    PaneIds,        \* identities for LogPane objects (a bound on the panes)
    Original,       \* the pane the console creates from its configuration
    LoggerNames,    \* names of the loggers handed to add_log_handler
    Levels,         \* level_name arguments; "" is no level
    SEP,            \* the separator ', '
    Searches,       \* search states a LogView can be in
    MaxHandlers     \* bound on add_log_handler calls per pane

ASSUME /\ Original \in PaneIds
       /\ \A n \in LoggerNames : n \in Seq(STRING \cup {SEP})

\* Level names the logging module defines (hasattr(logging, level_name)).
LoggingLevels == {"DEBUG", "INFO", "WARNING", "ERROR", "CRITICAL"}

VARIABLES
    panes,          \* panes in the window manager
    is_a_duplicate, \* pane -> LogPane.is_a_duplicate
    viewers,        \* log_store viewers (register_viewer)
    search,         \* pane -> its LogView search state
    subtitle,       \* pane -> LogPane._pane_subtitle, a sequence of words
    handlers        \* pane -> the logger names added, in order (history)

vars == <<panes, is_a_duplicate, viewers, search, subtitle, handlers>>

\* str.split(', '): the words between separators.
RECURSIVE SplitSep(_)
SplitSep(s) ==
    LET i == SelectInSeq(s, LAMBDA w : w = SEP)
    IN IF i = 0 THEN <<s>>
       ELSE <<SubSeq(s, 1, i - 1)>> \o SplitSep(SubSeq(s, i + 1, Len(s)))

\* append_pane_subtitle(text)
append_pane_subtitle(sub, text) ==
    IF sub = <<>> THEN text ELSE sub \o <<SEP>> \o text

\* pane_subtitle() for a pane with a subtitle: the first name and the
\* number shown in " + N more" (0: no suffix).  Without a subtitle the
\* pane shows the log store's channel names instead.
pane_subtitle(p) ==
    LET names == SplitSep(subtitle[p])
    IN [first |-> names[1],
        more  |-> IF Len(names) > 1 THEN Len(names) ELSE 0]

\* The menu entries of get_all_menu_options that change the pane list.
MenuPaneOptions(p) ==
    {"Duplicate pane"} \cup (IF is_a_duplicate[p] THEN {"Remove pane"} ELSE {})

-----------------------------------------------------------------------------

Init ==
    /\ panes = {Original}
    /\ is_a_duplicate = [p \in PaneIds |-> FALSE]
    /\ viewers = {Original}
    /\ search \in [PaneIds -> Searches]
    /\ subtitle = [p \in PaneIds |-> <<>>]
    /\ handlers = [p \in PaneIds |-> <<>>]

\* duplicate() (Insert key, "Duplicate pane"): create_duplicate makes a new
\* LogPane on the same log store, registers its LogView as a viewer,
\* copies the search state, marks it a duplicate; the window manager adds it.
Duplicate(p) ==
    /\ p \in panes
    /\ \E q \in PaneIds \ panes :
        /\ panes' = panes \cup {q}
        /\ is_a_duplicate' = [is_a_duplicate EXCEPT ![q] = TRUE]
        /\ viewers' = viewers \cup {q}
        /\ search' = [search EXCEPT ![q] = search[p]]
        /\ subtitle' = [subtitle EXCEPT ![q] = <<>>]
        /\ handlers' = [handlers EXCEPT ![q] = <<>>]

\* Mutant: the is_a_duplicate check of the Delete key binding left out.
RemovePane_any(p) ==
    /\ p \in panes
    /\ panes' = panes \ {p}
    /\ UNCHANGED <<is_a_duplicate, viewers, search, subtitle, handlers>>

\* The Delete key and the "Remove pane" entry: only a duplicate is removed.
RemovePane(p) ==
    /\ p \in panes
    /\ "Remove pane" \in MenuPaneOptions(p)
    /\ panes' = panes \ {p}
    /\ UNCHANGED <<is_a_duplicate, viewers, search, subtitle, handlers>>

\* The pane's search changes (search toolbar, filters).
ChangeSearch(p) ==
    /\ p \in panes
    /\ \E s \in Searches : search' = [search EXCEPT ![p] = s]
    /\ UNCHANGED <<panes, is_a_duplicate, viewers, subtitle, handlers>>

\* add_log_handler(logger, level_name): an unknown level name raises before
\* the handler is added; otherwise the handler is added and the logger's
\* name appended to the subtitle.
AddLogHandler(p) ==
    /\ p \in panes /\ Len(handlers[p]) < MaxHandlers
    /\ \E name \in LoggerNames, level \in Levels :
        IF level # "" /\ level \notin LoggingLevels
           THEN UNCHANGED vars
           ELSE /\ subtitle' = [subtitle EXCEPT
                                  ![p] = append_pane_subtitle(@, name)]
                /\ handlers' = [handlers EXCEPT ![p] = Append(@, name)]
                /\ UNCHANGED <<panes, is_a_duplicate, viewers, search>>

Next ==
    \E p \in PaneIds :
        \/ Duplicate(p) \/ RemovePane(p) \/ ChangeSearch(p)
        \/ AddLogHandler(p)

Spec == Init /\ [][Next]_vars

-----------------------------------------------------------------------------

\* The types, and the shape of the pane list: the original pane, which is
\* not a duplicate, and any number of duplicates.
TypeOK ==
    /\ panes \subseteq PaneIds
    /\ Original \in panes /\ ~is_a_duplicate[Original]
    /\ \A p \in panes \ {Original} : is_a_duplicate[p]
    /\ is_a_duplicate \in [PaneIds -> BOOLEAN]
    /\ viewers \subseteq PaneIds
    /\ search \in [PaneIds -> Searches]
    /\ \A p \in PaneIds : handlers[p] \in Seq(LoggerNames)

\* The subtitle names the first logger added and counts the others:
\* "first + N more" with N the number of further loggers.
SubtitleCountsOthers ==
    \A p \in panes :
        Len(handlers[p]) > 1 =>
            /\ pane_subtitle(p).first = handlers[p][1]
            /\ pane_subtitle(p).more = Len(handlers[p]) - 1

=============================================================================
