SPECIFICATION TransformSpec
CONSTANTS
    D = 2
    Basis <- MCBasis
    Jobs <- MCJobs
INVARIANT OutputsAreTransforms
INVARIANT MarkersOnce
CHECK_DEADLOCK FALSE
