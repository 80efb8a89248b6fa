SPECIFICATION Spec
CONSTANTS
    Nodes = {n1, n2}
    Templates <- Plain
    Absent = Absent
    NoNode = NoNode
    MaxLag = 1
    MaxUid = 1
    MaxBehind = 1
    Lagging = {}
    Faults = {"evict"}
INVARIANT ConsumerOnProviderNode
SYMMETRY NodeSymmetry
