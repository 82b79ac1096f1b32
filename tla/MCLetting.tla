------------------------------ MODULE MCLetting -------------------------------
EXTENDS Letting, TLC

InstanceSymmetry == Permutations(Requests) \cup Permutations(Leases)
=============================================================================
