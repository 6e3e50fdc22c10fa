SPECIFICATION Spec
CONSTANTS
    Key = {1, 2, 3, 4, 5, 6, 7}
    Value = {v1, v2}
    SynAddr = {s1}
    Span = 3
    Nil = Nil
INVARIANTS ArraysMatchImages
