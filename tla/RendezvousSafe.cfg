SPECIFICATION Spec
CONSTANTS
    HostPathPrefix <- VarLib
    Namespace = "stoppablecontainer"
    Name = "web"
    None = None
    MaxPods = 1
    MaxRestarts = 2
    MaxMounts = 2
    Nodes <- OneOff
    Drivers = {"binary", "script"}
    Containers <- QuotedCommands
    Faults = {"writeFails", "mountFails", "procFails", "kill", "agentCrash"}
CHECK_DEADLOCK FALSE
INVARIANT TypeOK
INVARIANT MarkerMeansMounted
INVARIANT ReadyOnlyWhereSupported
INVARIANT ConsumerRunsUserCommand
