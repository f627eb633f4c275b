------------------------ MODULE MC_ContainerLifecycle ------------------------
EXTENDS ContainerLifecycle, TLC

CONSTANTS p1, p2, p3

MCPlugins == {p1, p2, p3}
PluginSymmetry == Permutations(MCPlugins)
=============================================================================
