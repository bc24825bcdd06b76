-------------------------- MODULE MCRedisJobStore --------------------------
(* A small instance of RedisJobStore for TLC.                              *)
EXTENDS RedisJobStore, TLC

AnyConsumer == Permutations(Consumers)
=============================================================================
