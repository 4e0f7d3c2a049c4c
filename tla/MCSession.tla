----------------------------- MODULE MCSession -----------------------------
EXTENDS Session, TLC
CONSTANTS t1, t2, root, plain
TabSymmetry == Permutations({t1, t2})
=============================================================================
