---------------------------- MODULE MCRedisStream ----------------------------
(***************************************************************************)
(* Instances of RedisTimely.                                               *)
(***************************************************************************)
EXTENDS RedisTimely, TLC

Symmetry == Permutations(Proc)
=============================================================================
