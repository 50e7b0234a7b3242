SPECIFICATION Spec
CONSTANTS
    a = a  b = b  u = u  v = v  org = org
    Users <- OneUser
    Names <- TwoNames
    StartsWith <- NoPairs
    EndsWith <- NoPairs
    TrimmedAway <- NoPairs
    EndsTrimmed <- NoPairs
    FilesPrefix <- NoPairs
    Targets <- UsersAndGroup
    GroupTargets <- NoGroups
    Requests = {r1}
    Ops <- TrashOps
    Rels <- FewRels
    InitTree <- Tree
    InitNodes <- TreeRows
    InitShares <- NoShares
    InitFavorites <- AFavorite
    InitNextId <- TreeNextId
    MaxStarts = 6
    MaxFaults = 0
INVARIANTS
    SyncUnlessTorn
    TrashRestorable
