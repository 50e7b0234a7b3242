SPECIFICATION Spec
CONSTANTS
    home = home
    sub = sub
    a = a
    b = b
    Home = home
    Sub = sub
    Names = {a, b}
    FirstFiles <- Some
    Selections <- OneOrTwo
    MaxUploads = 3
    MaxEvents = 2
INVARIANTS
    RefusedWhole
    StoredIsListed
    CounterRight
PROPERTIES
    OverwritesAsked
    Drains
