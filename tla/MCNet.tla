------------------------------- MODULE MCNet --------------------------------
(* The instance of Net that TLC checks: hosts and addresses are alike.       *)
EXTENDS Net, TLC

NetSymmetry == Permutations(Hosts) \cup Permutations(Macs)
=============================================================================
