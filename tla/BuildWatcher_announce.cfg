CONSTANTS
    p1 = p1  p2 = p2  p3 = p3  p4 = p4
    r1 = r1  r2 = r2  r3 = r3
    NoPath = NoPath
    Paths <- Small_Paths
    Matching <- Small_Matching
    GitReturnCode <- Small_GitReturnCode
    EventTypes <- Small_EventTypes
    Recipes <- MC_Recipes
    Enabled <- MC_Enabled
    Workers = 2
    Restart = TRUE
    MaxPresses = 3
SPECIFICATION Spec
INVARIANT BuildAnnouncesChange
