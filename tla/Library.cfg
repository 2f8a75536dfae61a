SPECIFICATION Spec
CONSTANTS
    SIZE = 12
    WIDTH = 8
INVARIANT BlockExact
INVARIANT StringExact
INVARIANT NumberShown
