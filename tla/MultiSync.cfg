CONSTANTS
    Nodes = {1, 2, 3}
    NoNode = 0
    FirstPrimary = 1
    NodeCount = 1
    Strict = FALSE
    MaxWal = 2
    MaxFailovers = 1
SPECIFICATION Spec
INVARIANT CandidatesHoldCommits
