----------------------------- MODULE MCNetwork ------------------------------
(* Instances of Network for TLC: clients are interchangeable.              *)
EXTENDS Network, TLC

Clients == Permutations(Client)

=============================================================================
