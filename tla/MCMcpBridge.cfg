SPECIFICATION Spec
CONSTANTS
    Control <- MCControl
    ok1 = ok1
    ok2 = ok2
    label = label
    menu = menu
    Place = {p1, p2}
    Nowhere = Nowhere
    Ident <- MCIdent
    Tier <- MCTier
    Order <- MCOrder
    Deep = {menu}
    Lettered = {label, menu}
    OcrId = "ocr-1"
    MaxElements = 1
    Window = {"Editor", "Dialog"}
    Filters <- MCFilters
    Caps = {0, 1}
    MaxBatch = 2
INVARIANTS BatchHonest StopLetsOneThrough ClickFollowsId CutIsTold
