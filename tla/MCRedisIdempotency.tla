------------------------ MODULE MCRedisIdempotency -------------------------
(* Instance of RedisIdempotency for TLC: requests are interchangeable.      *)
EXTENDS RedisIdempotency, TLC

RequestSymmetry == Permutations(Requests) \cup Permutations(Fingerprints)
=============================================================================
