CONSTANTS
    s1 = s1
    s2 = s2
    hA = hA
    hB = hB
    a1 = a1
    a2 = a2
    a3 = a3
    m1 = m1
    m2 = m2
    m3 = m3
    m4 = m4
    None = None
    Services <- MCServices
    Monitors <- MCMonitors
    Hosts <- TwoHosts
    Aliases <- TwoHostAliases
    Hosts <- TwoHosts
    Aliases <- TwoHostAliases
    Targets <- TwoHostTargets
    MaxWorkers = 1
    MaxFlips = 2
    MaxNotifies = 2
SPECIFICATION FairSpec
PROPERTY LoopEventuallyRuns
