SPECIFICATION FairSpec
CONSTANTS
    HostPathPrefix <- Unset
    Namespace = "default"
    Name = "web"
    None = None
    MaxPods = 1
    MaxRestarts = 2
    MaxMounts = 2
    Nodes <- OnlyContainerd
    Drivers = {"binary"}
    Containers <- PlainCommand
    Faults = {"timeout"}
CHECK_DEADLOCK FALSE
PROPERTY RequestAnswered
