SPECIFICATION FairSpec
CONSTANTS
    a = a
    b = b
    relative = relative
    bare = bare
    unknown = unknown
    roundabout = roundabout
    percent = percent
    NoUri = NoUri
    Malformed = Malformed
    Uris = {a, b}
    Specs = {relative, bare, unknown}
    Denotes <- Targets
    Written = {a, b, relative, bare, unknown, roundabout, percent}
    Canonical <- Spelled
    Imports = {i1, i2}
    MaxModules = 3
INVARIANTS
    OneModulePerKey
    AlreadyResolved
PROPERTIES
    ImportsSettle
CHECK_DEADLOCK FALSE
