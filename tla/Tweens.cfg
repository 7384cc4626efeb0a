SPECIFICATION FairSpec
CONSTANTS
    x = x
    y = y
    s1 = s1
    s2 = s2
    Scopes = {s1, s2}
    Props = {x, y}
    Targets <- TwoScopes
    Named <- Names
    Requests <- SomeRequests
    MaxTweens = 3
    MaxTime = 2
    MaxDepth = 3
INVARIANTS
    EachOncePerFrame
    OneDriver
    CompletedOnce
PROPERTIES
    TweensEnd
CHECK_DEADLOCK FALSE
