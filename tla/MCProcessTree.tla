---------------------------- MODULE MCProcessTree ----------------------------
(* Model-checking instance of ProcessTree: the harts are model values and  *)
(* interchangeable, so runs with two harts use symmetry over them.        *)
EXTENDS ProcessTree, TLC

(* Exit codes tried: a normal exit and the -1 that exec failure passes.    *)
MCExitCodes == {0, -1}

HartSymmetry == Permutations(Cores)

=============================================================================
