SPECIFICATION Spec
CONSTANTS
    a = a  b = b  u = u  v = v  org = org
    Users <- TwoUsers
    Names <- TwoNames
    StartsWith <- NoPairs
    EndsWith <- NoPairs
    TrimmedAway <- NoPairs
    EndsTrimmed <- NoPairs
    FilesPrefix <- NoPairs
    Targets <- UsersAndGroup
    GroupTargets <- BothInGroup
    Requests = {r1}
    Ops <- AllShareOps
    Rels <- DeepRels
    InitTree <- Tree
    InitNodes <- TreeRows
    InitShares <- NoShares
    InitFavorites <- AFavorite
    InitNextId <- TreeNextId
    MaxStarts = 5
    MaxFaults = 0
    ListedTargets <- ListsGroup
INVARIANTS
    HomesListable
    FavoriteIdentifies
PROPERTIES
    JustUnshared
