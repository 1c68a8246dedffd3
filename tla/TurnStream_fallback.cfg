CONSTANTS
    u1 = u1
    u2 = u2
    small = small
    large = large
    NoModel = NoModel
    Upstreams <- MCUpstreams
    Models <- MCModels
    FallbackModels <- MCFallbacks
    DefaultModel = NoModel
    Listings <- MCListings
    MaxCandidates = 2
    MaxDeltas = 1
SPECIFICATION LiveSpec
INVARIANTS OneModelShown
CHECK_DEADLOCK FALSE
