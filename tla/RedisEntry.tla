----------------------------- MODULE RedisEntry -----------------------------
(***************************************************************************)
(* What the two read-through caches in redis have in common: an entry is   *)
(* there or not.  It is written with a time to live and is gone some time  *)
(* after that (infra/redis_client.py, redis.set(key, value, ex = ttl)).    *)
(***************************************************************************)
EXTENDS ChatRequests

\* What redis.get returns for a key that is absent or expired.
CONSTANT NoEntry
=============================================================================
