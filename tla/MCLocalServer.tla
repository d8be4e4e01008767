---------------------------- MODULE MCLocalServer ----------------------------
(* Small instances of LocalServer: daemons and inodes are only compared.   *)
EXTENDS LocalServer, TLC

Symmetry == Permutations(Daemons) \cup Permutations(Inodes)
=============================================================================
