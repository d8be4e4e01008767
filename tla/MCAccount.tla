------------------------------ MODULE MCAccount ------------------------------
(* Small instances of Account: the Keychain and kernel treat keys alike.   *)
EXTENDS Account, TLC

KeySymmetry == Permutations(Keys)
=============================================================================
