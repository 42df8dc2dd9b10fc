----------------------------- MODULE MCMetrics -----------------------------
(* Objects for the model checker.                                          *)
EXTENDS MetricsCollector

Thing(kind, n) == [kind |-> kind, name |-> n, namespace |-> "kcp"]

\* Two of a kind with phases, and one of a kind without.
SomeObjects == {Thing("shard", "a"), Thing("shard", "b"), Thing("kubeconfig", "a")}

SomePhases == {"", "Running"}

=============================================================================
