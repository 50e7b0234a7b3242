SPECIFICATION Spec
CONSTANTS
    a = a  b = b  u = u  v = v  org = org
    Users <- OneUser
    Names <- TwoNames
    StartsWith <- NoPairs
    EndsWith <- NoPairs
    TrimmedAway <- NoPairs
    EndsTrimmed <- NoPairs
    FilesPrefix <- NoPairs
    Targets <- UsersAndGroup
    GroupTargets <- NoGroups
    Requests = {r1, r2, r3}
    Ops <- CreateOps
    Rels <- CreateRels
    InitTree <- Tree
    InitNodes <- TreeRows
    InitShares <- NoShares
    InitFavorites <- AFavorite
    InitNextId <- TreeNextId
    MaxStarts = 3
    MaxFaults = 1
INVARIANTS
    SyncUnlessTorn
    MadeTopDown
