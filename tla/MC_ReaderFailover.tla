------------------------- MODULE MC_ReaderFailover -------------------------
(* Three hosts, so that the priority list has two batches (a pair and a   *)
(* single host), and two calls on one handler, so that the second call    *)
(* sees what the first left in the shared event and connections.  One    *)
(* dialect whose handler counts only eNet as a network error, and a       *)
(* custom handler that also counts eAuth as one.                          *)
EXTENDS ReaderFailover, TLC

CONSTANTS h1, h2, h3, d1, hDialect, hCustom, eNet, eAuth

MCHosts == {h1, h2, h3}
HostSymmetry == Permutations(MCHosts)

MCHandlers == {hDialect, hCustom}
MCDialectHandler == d1 :> hDialect
MCNetworkErrors == (hDialect :> {eNet}) @@ (hCustom :> {eNet, eAuth})
====
