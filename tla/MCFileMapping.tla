---------------------------- MODULE MCFileMapping ----------------------------
(***************************************************************************)
(* Two threads, with fewer descriptors and addresses than they could use,  *)
(* so that numbers and addresses are soon used again.                      *)
(***************************************************************************)
EXTENDS FileMapping, TLC

CONSTANTS t1, t2, f1, f2, x1, x2

MCThreads == {t1, t2}
MCFds == {f1, f2}
MCAddrs == {x1, x2}
Symmetric == Permutations(MCThreads) \cup Permutations(MCFds) \cup Permutations(MCAddrs)
=============================================================================
