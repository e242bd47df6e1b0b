-------------------------------- MODULE MCRedis --------------------------------
(***************************************************************************)
(* Small instances of RedisStore for TLC.                                  *)
(***************************************************************************)
EXTENDS RedisStore, TLC

CONSTANTS d1, d2, r1, r2

(* No bound on how long a task holds its row: no run reaches this time.    *)
Unbounded == 1000

Interchangeable == Permutations(Replicas)

SomeReasons == {NoReason, "timeout", "non_retryable_4xx"}
===============================================================================
