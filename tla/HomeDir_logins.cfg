SPECIFICATION Spec
CONSTANTS
    Requests = {r1, r2, r3}
    MaxFaults = 2
INVARIANTS
    TypeOK
    OneBuilder
    MadeInOrder
    BuilderUnopposed
PROPERTIES
    BuiltOnceOrAbandoned
    Answered
    FirstLoginBuilds
