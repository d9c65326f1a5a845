SPECIFICATION Spec
CONSTANTS
    Messages = {m1, m2, m3, m4}
    Sizes = {2, 10, 20}
INVARIANTS
    InBounds
    EmptyAgrees
    Balance
PROPERTIES
    Implements
