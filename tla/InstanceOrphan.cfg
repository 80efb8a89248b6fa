SPECIFICATION Spec
CONSTANTS
    Nodes = {n1}
    Templates <- Plain
    Absent = Absent
    NoNode = NoNode
    MaxLag = 1
    MaxUid = 1
    MaxBehind = 1
    Lagging = {"pods"}
    Faults = {}
PROPERTY DeletionWaitsForPods
