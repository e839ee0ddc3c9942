---------------------------- MODULE MCKimchiStubs ----------------------------
(* A small instance of the native bindings for TLC.                         *)
EXTENDS KimchiStubs, TLC

CONSTANTS t1, t2, s1, v1, i1, k1

MCThreads == {t1, t2}
MCSrs == {s1}
MCVectors == {v1}
MCIndexes == {i1}
MCKeys == {k1}

Symmetry == Permutations(MCThreads)
=============================================================================
