SPECIFICATION Spec
CONSTANTS
    Nodes = {n1}
    Templates <- Plain
    Absent = Absent
    NoNode = NoNode
    MaxLag = 1
    MaxUid = 2
    MaxBehind = 1
    Lagging = {"sci", "pods"}
    Faults = {"unready", "evict"}
INVARIANT TypeOK
INVARIANT RestsOnlyWhenSettled
INVARIANT RunningMeansBothReady
INVARIANT StoppedMeansProviderOnly
PROPERTY ProviderOutlivesStop
PROPERTY ImplementsContract
