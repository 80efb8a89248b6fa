SPECIFICATION FairSpec
CONSTANTS
    Nodes = {n1, n2}
    Templates <- Named
    Absent = Absent
    NoNode = NoNode
    MaxLag = 1
    MaxUid = 1
    MaxBehind = 1
    Lagging = {"pods"}
    Faults = {"unready", "fail"}
INVARIANT RunningMeansBothReady
PROPERTY DeletionCompletes
PROPERTY StopConverges
PROPERTY StartConverges
