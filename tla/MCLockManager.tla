---------------------------- MODULE MCLockManager ----------------------------
(* Instances of LockManager for TLC. *)
EXTENDS LockManager, TLC

Symmetry ==
    Permutations(LockId) \cup Permutations(Client) \cup Permutations(Resource)
        \cup Permutations(Node)
=============================================================================
