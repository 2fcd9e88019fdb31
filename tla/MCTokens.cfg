\* Two requests in flight, one failure, one restart.
CONSTANTS
    Codes = {c1}
    Pairs = {p1, p2, p3}
    Reqs = {r1, r2}
    MaxOver = 2
    MaxLapses = 1
    MaxRestarts = 2
    None = None
SYMMETRY MCSymmetry
SPECIFICATION Spec
INVARIANT SingleUse
INVARIANT OldAccessEnds
INVARIANT SessionSurvives
CHECK_DEADLOCK FALSE
