SPECIFICATION Spec
CONSTANTS
    HostPathPrefix <- VarLib
    Namespace = "stoppablecontainer"
    Name = "web"
    None = None
    MaxPods = 1
    MaxRestarts = 2
    MaxMounts = 2
    Nodes <- OnlyContainerd
    Drivers = {"binary"}
    Containers <- PlainCommand
    Faults = {}
CHECK_DEADLOCK FALSE
INVARIANT MountedOncePerPod
