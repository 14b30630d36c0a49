CONSTANTS
    p1 = p1
    p2 = p2
    Process = {p1, p2}
    Jobs <- MCJobs
    Exports <- MCExports
SPECIFICATION Spec
INVARIANTS Delivered NothingLeft DuplicatesStopped
PROPERTY PrivateArtifacts
