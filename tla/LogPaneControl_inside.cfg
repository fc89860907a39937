CONSTANTS
    Lines = {1, 2}
    Widths = {0, 80}
    Heights = {0, 4}
    ReleaseTargets = {"content"}
    ToolbarHeight = 1
SPECIFICATION Spec
INVARIANT
    SelectionIsCurrentDrag
