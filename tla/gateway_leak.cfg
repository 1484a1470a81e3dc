SPECIFICATION Spec
CONSTANTS
    Reqs = {r1}
    Paths <- MCPaths
    Configs <- TwoConfigs
    AuthEnabled = FALSE
    MaxLoads = 3
INVARIANT RemovedRoutesNotProbed
