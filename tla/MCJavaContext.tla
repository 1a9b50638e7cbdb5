---------------------------- MODULE MCJavaContext ----------------------------
EXTENDS JavaContext

CONSTANTS t1, t2

Symmetry == Permutations(Thread)
=============================================================================
