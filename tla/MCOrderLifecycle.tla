-------------------------- MODULE MCOrderLifecycle --------------------------
(* Instances of OrderLifecycle for TLC. *)
EXTENDS OrderLifecycle, TLC

CONSTANTS o1, o2, h1, h2, s1, s2

HandlerSymmetry == Permutations({h1, h2})
=============================================================================
