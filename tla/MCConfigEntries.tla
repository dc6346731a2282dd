--------------------------- MODULE MCConfigEntries ---------------------------
(* A small instance of ConfigEntries.                                       *)
EXTENDS ConfigEntries, TLC

CONSTANTS b1, h1, h2, e1, e2, k1, k2, k3

MCBoxes == {b1}
MCHosts == {h1, h2}
MCEntries == {e1, e2}
MCTokens == {k1, k2, k3}
Symmetry == Permutations(MCHosts) \cup Permutations(MCEntries) \cup Permutations(MCTokens)
=============================================================================
