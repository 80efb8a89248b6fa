SPECIFICATION FairSpec
CONSTANTS
    HostPathPrefix <- VarLib
    Namespace = "stoppablecontainer"
    Name = "web"
    None = None
    MaxPods = 2
    MaxRestarts = 2
    MaxMounts = 2
    Nodes <- OneOff
    Drivers = {"binary", "script"}
    Containers <- PlainCommand
    Faults = {"timeout", "mountFails", "kill", "replace"}
CHECK_DEADLOCK FALSE
PROPERTY RequestAnswered
PROPERTY ProviderServes
PROPERTY ConsumerComesUp
