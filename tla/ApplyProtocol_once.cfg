SPECIFICATION Spec
CONSTANTS
    p1 = p1
    p2 = p2
    c1 = c1
    c2 = c2
    v1 = v1
    v2 = v2
    v3 = v3
    Cells = {c1, c2}
    Values = {v1, v2}
    Patches = {p1, p2, r1}
    Rollbacks = {r1}
    Source <- MCSource
    NoPatch = NoPatch
INVARIANT RecordedOnce
\* The repair of a block ends when its patches are used up.
CHECK_DEADLOCK FALSE
