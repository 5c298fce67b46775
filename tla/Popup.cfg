SPECIFICATION Spec
CONSTANTS
    l1 = l1
    l2 = l2
    Presentations <- MCPresentations
    Anchors <- MCAnchors
    Area <- MCArea
    Dpis = {96, 144}
INVARIANTS
    TypeOK
    SurfaceIsWanted
    SelectionIsInList
    EverythingIsDrawn
    WellPlaced
