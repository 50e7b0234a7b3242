SPECIFICATION Spec
CONSTANTS
    root = root
    sub = sub
    bad = bad
    Dirs <- SomeDirs
    Root = root
    Names = {1, 2, 3}
    FirstFiles <- Few
    FirstId = 4
    Unlistable = {bad}
    PageSize = 1
    Slots = {1, 2, 3, 4, 5, 6}
    Patience = 1
    MaxEvents = 3
INVARIANTS
    IdleIsNotBusy
    Fresh
    RowsMatch
    SumIsTotal
    UnmaskedIsShown
PROPERTIES
    AllButNew
    Quiets
