SPECIFICATION Spec
CONSTANTS
    HostPathPrefix <- VarLib
    Namespace = "stoppablecontainer"
    Name = "web"
    None = None
    MaxPods = 2
    MaxRestarts = 2
    MaxMounts = 2
    Nodes <- OnlyContainerd
    Drivers = {"binary"}
    Containers <- PlainCommand
    Faults = {"replace"}
CHECK_DEADLOCK FALSE
INVARIANT MarkerMeansMounted
