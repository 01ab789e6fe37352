------------------------- MODULE MCServiceControl -------------------------
EXTENDS ServiceControl, TLC

ReqSymmetry == Permutations(Req)
===========================================================================
