SPECIFICATION Spec
CONSTANTS
    Files = {f, g}
    Slots = {1, 2}
    MaxTyped = 2
    MaxTime = 1
    MaxEvents = 3
SYMMETRY SameFiles
INVARIANTS
    OneFile
    KeptOrWarned
PROPERTIES
    TextGoesHome
    RefusedForOthers
