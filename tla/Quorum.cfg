CONSTANTS
    Nodes = {1, 2, 3}
    NoNode = 0
    FirstPrimary = 1
    Setups <- MCSetups
    MaxQuorum = 4
SPECIFICATION Spec
INVARIANT QuorumsOverlap
INVARIANT CommitSurvives
 
