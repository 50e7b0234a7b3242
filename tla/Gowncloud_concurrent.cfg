SPECIFICATION Spec
CONSTANTS
    a = a  b = b  u = u  v = v  org = org
    Users <- TwoUsers
    Names <- TwoNames
    StartsWith <- BStartsWithA
    EndsWith <- NoPairs
    TrimmedAway <- NoPairs
    EndsTrimmed <- NoPairs
    FilesPrefix <- JustA
    Targets <- TwoUsers
    GroupTargets <- NoGroups
    Requests = {r1, r2}
    Ops <- AllOps
    Rels <- FewRels
    InitTree <- HalfTree
    InitNodes <- HalfRows
    InitShares <- AShared
    InitFavorites <- AFavorite
    InitNextId <- TreeNextId
    MaxStarts = 2
    MaxFaults = 1
INVARIANTS
    TypeOK
    HomesIntact
PROPERTIES
    OwnerGoesAlong
    Answered
