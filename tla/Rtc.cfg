SPECIFICATION FairSpec
CONSTANTS
    Freqs = {2, 32, 1024}
    MaxDepth = 2
INVARIANT RateSet
INVARIANT ReadIsFresh
PROPERTY ReadReturns
