SPECIFICATION Spec
CONSTANTS
    Messages = {m1, m2}
    Sizes = {2, 20, 21}
INVARIANTS
    InBounds
