--------------------------- MODULE MCPGStateWrite ---------------------------
(* Model-checking instance of PGStateWrite: two clusters and one component *)
(* give two deployments on different clusters (the clusters upsert does not *)
(* serialise them) and the same component (the components insert does).    *)
EXTENDS PGStateWrite, TLC

CONSTANTS w1, w2, c1, c2, p1, v1, v2

MCClusters   == {c1, c2}
MCComponents == {p1}
MCConfigs    == {v1, v2}
OneWriter    == {w1}
TwoWriters   == {w1, w2}

\* Writers, configurations and clusters are interchangeable model values.
Symmetry == Permutations(TwoWriters) \cup Permutations(MCConfigs)
            \cup Permutations(MCClusters)
=============================================================================
