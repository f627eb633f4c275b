CONSTANTS
    s1 = s1
    s2 = s2
    hA = hA
    hB = hB
    a1 = a1
    a2 = a2
    a3 = a3
    m1 = m1
    m2 = m2
    m3 = m3
    m4 = m4
    None = None
    Services <- MCServices
    Monitors <- MCMonitors
    Hosts <- TwoHosts
    Aliases <- TwoHostAliases
    Hosts <- OverlapHosts
    Aliases <- OverlapAliases
    Targets <- OverlapTargets
    MaxWorkers = 2
    MaxFlips = 2
    MaxNotifies = 2
SPECIFICATION Spec
SYMMETRY MonitorSymmetry
INVARIANT AliasesAgree
