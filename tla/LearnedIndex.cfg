CONSTANTS
    Loadable = {1, 2, 3, 4, 5, 6, 15, 21, 22, 23, 24, 25}
    Epsilon = 2
    Span = 2
SPECIFICATION Spec
INVARIANTS SegmentsAreMaximal  RightModel  LoadFits
