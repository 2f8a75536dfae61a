SPECIFICATION Spec
CONSTANTS
    Freqs = {2, 3}
    MaxDepth = 0
INVARIANT RateSet
