CONSTANTS
    p1 = p1
    p2 = p2
    p3 = p3
    NoOwner = NoOwner
    Plugins <- MCPlugins
SPECIFICATION Spec
SYMMETRY PluginSymmetry
INVARIANT LiveServicesHoldCurrentContainer
