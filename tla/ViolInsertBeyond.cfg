CONSTANTS
    Loadable = {1, 2, 3, 4, 5, 6}
    Epsilon = 2
    Span = 2
SPECIFICATION Spec
INVARIANT InsertAssert
