---------------------------- MODULE LogPaneControl ----------------------------
(***************************************************************************)
(* pw_console/log_pane.py: one log pane of the console, its content        *)
(* control's mouse handler and key bindings, the bottom toolbar buttons    *)
(* (widgets/mouse_handlers.on_click), and the size bookkeeping done on     *)
(* every render.                                                           *)
(*                                                                         *)
(* prompt_toolkit delivers a mouse event to the handler under the pointer: *)
(* a drag started on the log lines may end over a toolbar button or over   *)
(* another pane, and then the content control never sees the release.     *)
(* LogView, the toolbars and the dialogs are not in this repository; the  *)
(* model keeps the parts of their state this file reads: the selected     *)
(* lines, follow and filtering flags, and which widget has the focus.     *)
(***************************************************************************)
EXTENDS Integers, FiniteSets

CONSTANTS
    Lines,              \* log lines the pointer can be over
    Widths, Heights,    \* sizes the pane can be rendered at (0: not shown)
    ReleaseTargets,     \* where a drag may end: "content", "toolbar", "away"
    ToolbarHeight       \* height of each toolbar (WindowPaneToolbar,
                        \* TableToolbar, SearchToolbar, FilterToolbar)

ASSUME ReleaseTargets \subseteq {"content", "toolbar", "away"}

\* The bottom toolbar's buttons (LogPane.__init__).
Buttons == {"search", "save", "follow", "table", "wrap", "clear"}

VARIABLES
    button,             \* the left mouse button: "up" | "down"
    drag_start,         \* visual_select_mode_drag_start
    drag_stop,          \* visual_select_mode_drag_stop
    selection,          \* the LogView's visually selected lines
    curDrag,            \* history: lines moved over since the button went down
    lastMove,           \* history: the last handled event was a MOUSE_MOVE
    afterDrag,          \* history: this drag follows an earlier one and no
                        \* key selected a line since the button went down
    focus,              \* "content" | "search" | "saveas" | "elsewhere"
    search_bar_active,
    saveas_dialog_active,
    table_view, wrap_lines, follow, filtering_on,
    current_w, last_w, current_h, last_h

ui == <<focus, search_bar_active, saveas_dialog_active, table_view,
        wrap_lines, follow, filtering_on>>
size == <<current_w, last_w, current_h, last_h>>
mouse == <<button, drag_start, drag_stop, selection, curDrag, lastMove,
           afterDrag>>
vars == <<mouse, ui, size>>

\* The content height update_pane_size computes for a window height.
ContentHeight(h) ==
    h - ToolbarHeight
      - (IF table_view THEN ToolbarHeight ELSE 0)
      - (IF search_bar_active THEN ToolbarHeight ELSE 0)
      - (IF filtering_on THEN ToolbarHeight ELSE 0)

\* pane_resized()
pane_resized == last_w # current_w \/ last_h # current_h

-----------------------------------------------------------------------------

Init ==
    /\ button = "up"
    /\ drag_start = FALSE /\ drag_stop = FALSE
    /\ selection = {} /\ curDrag = {} /\ lastMove = FALSE /\ afterDrag = FALSE
    /\ focus \in {"content", "elsewhere"}
    /\ search_bar_active = FALSE /\ saveas_dialog_active = FALSE
    /\ table_view = TRUE /\ wrap_lines = FALSE
    /\ follow = TRUE /\ filtering_on = FALSE
    /\ current_w = 0 /\ current_h = 0 /\ last_w = -1 /\ last_h = -1

\* The button goes down over the log lines (MOUSE_DOWN is not handled).
Press ==
    /\ button = "up"
    /\ button' = "down" /\ curDrag' = {} /\ afterDrag' = drag_start
    /\ UNCHANGED <<drag_start, drag_stop, selection, lastMove, ui, size>>

\* Mutant: the selection of a finished drag is never cleared.
MouseMove_no_clear(l) ==
    /\ button = "down"
    /\ selection' = selection \cup {l}
    /\ drag_start' = TRUE /\ drag_stop' = FALSE
    /\ curDrag' = curDrag \cup {l} /\ lastMove' = TRUE
    /\ UNCHANGED <<button, afterDrag, ui, size>>

\* Mutant: every move clears the selection, not only a finished drag's.
MouseMove_always_clear(l) ==
    /\ button = "down"
    /\ selection' = {l}
    /\ drag_start' = TRUE /\ drag_stop' = FALSE
    /\ curDrag' = curDrag \cup {l} /\ lastMove' = TRUE
    /\ UNCHANGED <<button, afterDrag, ui, size>>

\* mouse_handler, MOUSE_MOVE with the left button: a finished drag's
\* selection is cleared, the drag flags are set and the line selected.
MouseMove(l) ==
    /\ button = "down"
    /\ selection' = (IF drag_start /\ drag_stop THEN {} ELSE selection)
                      \cup {l}
    /\ drag_start' = TRUE /\ drag_stop' = FALSE
    /\ curDrag' = curDrag \cup {l} /\ lastMove' = TRUE
    /\ UNCHANGED <<button, afterDrag, ui, size>>

\* The focus change of a MOUSE_UP on an unfocused content control: the
\* save-as dialog if open, else the search bar if open, else the content.
ClickFocus ==
    IF focus = "content" THEN "content"
    ELSE IF saveas_dialog_active THEN "saveas"
    ELSE IF search_bar_active THEN "search"
    ELSE "content"

\* Mutant: the release sets the stop flag without checking a drag began.
ReleaseOnContent_no_start_check ==
    /\ button = "down" /\ "content" \in ReleaseTargets
    /\ button' = "up"
    /\ drag_stop' = TRUE
    /\ focus' = ClickFocus
    /\ lastMove' = FALSE
    /\ UNCHANGED <<drag_start, selection, curDrag, afterDrag, search_bar_active,
                   saveas_dialog_active, table_view, wrap_lines, follow,
                   filtering_on, size>>

\* mouse_handler, MOUSE_UP with the left button over the log lines.
ReleaseOnContent ==
    /\ button = "down" /\ "content" \in ReleaseTargets
    /\ button' = "up"
    /\ drag_stop' = (drag_stop \/ drag_start)
    /\ focus' = ClickFocus
    /\ lastMove' = FALSE
    /\ UNCHANGED <<drag_start, selection, curDrag, afterDrag, search_bar_active,
                   saveas_dialog_active, table_view, wrap_lines, follow,
                   filtering_on, size>>

\* The toolbar button actions of LogPane (also bound to keys).
start_search ==
    /\ search_bar_active' = TRUE /\ focus' = "search"
    /\ UNCHANGED <<saveas_dialog_active, table_view, wrap_lines, follow,
                   filtering_on>>
start_saveas ==
    /\ saveas_dialog_active' = TRUE /\ focus' = "saveas"
    /\ UNCHANGED <<search_bar_active, table_view, wrap_lines, follow,
                   filtering_on>>
toggle_table_view ==
    /\ table_view' = ~table_view
    /\ UNCHANGED <<focus, search_bar_active, saveas_dialog_active,
                   wrap_lines, follow, filtering_on>>
toggle_wrap_lines ==
    /\ wrap_lines' = ~wrap_lines
    /\ UNCHANGED <<focus, search_bar_active, saveas_dialog_active,
                   table_view, follow, filtering_on>>
toggle_follow ==
    /\ follow' = ~follow
    /\ UNCHANGED <<focus, search_bar_active, saveas_dialog_active,
                   table_view, wrap_lines, filtering_on>>
clear_history == UNCHANGED ui

ButtonAction(b) ==
    CASE b = "search" -> start_search
      [] b = "save"   -> start_saveas
      [] b = "follow" -> toggle_follow
      [] b = "table"  -> toggle_table_view
      [] b = "wrap"   -> toggle_wrap_lines
      [] b = "clear"  -> clear_history

\* A MOUSE_UP over a bottom toolbar button: on_click runs the button's
\* function; the content control's drag flags are not touched.
ReleaseOnToolbar(b) ==
    /\ button = "down" /\ "toolbar" \in ReleaseTargets
    /\ button' = "up" /\ lastMove' = FALSE
    /\ ButtonAction(b)
    /\ UNCHANGED <<drag_start, drag_stop, selection, curDrag, afterDrag, size>>

\* The button is released over another pane or outside the terminal.
ReleaseAway ==
    /\ button = "down" /\ "away" \in ReleaseTargets
    /\ button' = "up" /\ lastMove' = FALSE
    /\ UNCHANGED <<drag_start, drag_stop, selection, curDrag, afterDrag, ui,
                   size>>

\* The content control's key bindings, active while it has the focus.  The
\* LogView-only ones (g, G, up, down, page up/down, n, N, Ctrl-l) move the
\* cursor or the search match and change nothing modelled here.
KeyToggle(k) ==
    /\ focus = "content"
    /\ CASE k = "w"   -> toggle_wrap_lines
        [] k = "t"   -> toggle_table_view
        [] k = "f"   -> toggle_follow
        [] k = "C"   -> clear_history
        [] k = "/"   -> start_search
        [] k = "c-o" -> start_saveas
    /\ UNCHANGED <<mouse, size>>

\* Shift-up / shift-down extend the selection by a line.
KeyVisualSelect(l) ==
    /\ focus = "content"
    /\ selection' = selection \cup {l}
    /\ lastMove' = FALSE
    /\ afterDrag' = (afterDrag /\ button = "up")
    /\ UNCHANGED <<button, drag_start, drag_stop, curDrag, ui, size>>

\* Alt-Ctrl-f turns the search into a filter, Alt-Ctrl-r clears filters.
KeyFilter(on) ==
    /\ focus = "content"
    /\ filtering_on' = on
    /\ UNCHANGED <<mouse, focus, search_bar_active, saveas_dialog_active,
                   table_view, wrap_lines, follow, size>>

\* The search bar or the save-as dialog closes itself (outside this file)
\* and gives the focus back to the log lines.
CloseSearch ==
    /\ search_bar_active /\ search_bar_active' = FALSE /\ focus' = "content"
    /\ UNCHANGED <<mouse, saveas_dialog_active, table_view, wrap_lines,
                   follow, filtering_on, size>>
CloseSaveas ==
    /\ saveas_dialog_active /\ saveas_dialog_active' = FALSE
    /\ focus' = "content"
    /\ UNCHANGED <<mouse, search_bar_active, table_view, wrap_lines, follow,
                   filtering_on, size>>

\* The user focuses another pane.
FocusAway ==
    /\ focus # "elsewhere" /\ focus' = "elsewhere"
    /\ UNCHANGED <<mouse, search_bar_active, saveas_dialog_active, table_view,
                   wrap_lines, follow, filtering_on, size>>

\* A render pass: update_pane_size(width, height); a zero width or height
\* leaves that dimension's bookkeeping alone.
Render(w, h) ==
    /\ IF w # 0 THEN /\ last_w' = current_w /\ current_w' = w
                 ELSE UNCHANGED <<last_w, current_w>>
    /\ IF h # 0 THEN /\ last_h' = current_h /\ current_h' = ContentHeight(h)
                 ELSE UNCHANGED <<last_h, current_h>>
    /\ UNCHANGED <<mouse, ui>>

Next ==
    \/ Press \/ ReleaseOnContent \/ ReleaseAway
    \/ \E l \in Lines : MouseMove(l) \/ KeyVisualSelect(l)
    \/ \E b \in Buttons : ReleaseOnToolbar(b)
    \/ \E k \in {"w", "t", "f", "C", "/", "c-o"} : KeyToggle(k)
    \/ \E on \in BOOLEAN : KeyFilter(on)
    \/ CloseSearch \/ CloseSaveas \/ FocusAway
    \/ \E w \in Widths, h \in Heights : Render(w, h)

Spec == Init /\ [][Next]_vars

-----------------------------------------------------------------------------

\* The types; the two drag flags encode three states: no drag yet
\* (FALSE, FALSE), dragging (TRUE, FALSE) and drag finished (TRUE, TRUE).
TypeOK ==
    /\ button \in {"up", "down"}
    /\ <<drag_start, drag_stop>> \in {<<FALSE, FALSE>>, <<TRUE, FALSE>>,
                                      <<TRUE, TRUE>>}
    /\ selection \subseteq Lines /\ curDrag \subseteq Lines
    /\ lastMove \in BOOLEAN /\ afterDrag \in BOOLEAN
    /\ focus \in {"content", "search", "saveas", "elsewhere"}
    /\ {search_bar_active, saveas_dialog_active, table_view, wrap_lines,
        follow, filtering_on} \subseteq BOOLEAN
    /\ current_w \in Widths /\ last_w \in Widths \cup {-1}

\* While the mouse drags over the log lines, every line it has passed
\* since the button went down is selected (mouse_handler, MOUSE_MOVE).
SelectionIncludesCurrentDrag ==
    lastMove => curDrag \subseteq selection

\* A drag that follows an earlier one replaces its selection: while
\* dragging, only the lines of this drag are selected ("If a previous mouse
\* drag was completed, clear the selection", mouse_handler).
SelectionIsCurrentDrag ==
    (lastMove /\ afterDrag) => selection = curDrag

=============================================================================
