SPECIFICATION Spec
CONSTANTS
    Reqs = {r1}
    Paths <- MCPaths
    Configs <- MCConfigs
    AuthEnabled = TRUE
    MaxLoads = 3
INVARIANT ServedRoutesHealthy
INVARIANT RoutedToLongest
INVARIANT ServesOneConfig
