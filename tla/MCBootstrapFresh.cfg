\* The first start fails before the marker is written.
CONSTANTS
    Sources = {"default"}
    MayFailEarly = TRUE
    MaxStarts = 4
SPECIFICATION Spec
INVARIANT FreshStaysClosed
CHECK_DEADLOCK FALSE
