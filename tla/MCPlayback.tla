----------------------------- MODULE MCPlayback -----------------------------
(* A small instance of Playback.                                            *)
EXTENDS Playback, TLC

CONSTANTS k1, k2

MCKeys == {k1, k2}
MCLevels == {1, 4}
Symmetry == Permutations(MCKeys)
=============================================================================
