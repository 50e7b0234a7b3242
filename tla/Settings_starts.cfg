SPECIFICATION Spec
CONSTANTS
    Dirs = {"gowncloud-data", "gowncloud-data/", "data", "data/", "/"}
    WithSlash <- Slashes
    DefaultDir = "gowncloud-data"
    RootDir = "/"
    Versions = {"1", "2"}
    Unset = ""
    MaxStarts = 3
    MaxFaults = 1
    MaxCrashes = 1
CHECK_DEADLOCK FALSE
INVARIANTS
    KnownRootServed
PROPERTIES
    PreviousUsed
