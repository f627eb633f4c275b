------------------------- MODULE MC_MonitorRegistry -------------------------
EXTENDS MonitorRegistry, TLC

CONSTANTS s1, s2, hA, hB, a1, a2, a3, m1, m2, m3, m4

MCMonitors == {m1, m2, m3, m4}
MCServices == {s1, s2}

\* One host, known to the plugins under the overlapping alias sets
\* {a1, a2} and {a2, a3}.
OverlapHosts == {hA}
OverlapAliases == {a1, a2, a3}
OverlapTargets == {[host |-> hA, aliases |-> {a1, a2}],
                   [host |-> hA, aliases |-> {a2, a3}]}

\* Two hosts with one alias each.
TwoHosts == {hA, hB}
TwoHostAliases == {a1, a2}
TwoHostTargets == {[host |-> hA, aliases |-> {a1}],
                   [host |-> hB, aliases |-> {a2}]}

MonitorSymmetry == Permutations(MCMonitors)
=============================================================================
