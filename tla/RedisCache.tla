----------------------------- MODULE RedisCache -----------------------------
(***************************************************************************)
(* The cache of openst (src/src/cache.py): every error of Redis is        *)
(* swallowed, so a read degrades to a miss and a write to nothing, and     *)
(* callers never see an exception.                                         *)
(*                                                                         *)
(* Redis itself is external.  It may become unreachable at any moment, may *)
(* come back with or without its data, and expires entries as time passes. *)
(* One Tick is one unit of time; a stored entry carries the units it has   *)
(* left, so no absolute clock is needed.                                   *)
(***************************************************************************)
EXTENDS Naturals

CONSTANTS Keys,    \* cache keys
          Values,  \* what the routes store under a key
          Miss,    \* Python's None, the answer of a read that finds nothing
          MaxTTL   \* the longest time to live any route asks for

VARIABLES redisUp,  \* Redis answers within the socket timeouts
          store     \* the contents of Redis

cacheVars == <<redisUp, store>>

Absent == [val |-> Miss, left |-> 0]

Entries == {Absent} \cup [val : Values, left : 1 .. MaxTTL]

TypeOK ==
  /\ redisUp \in BOOLEAN
  /\ store \in [Keys -> Entries]

Init ==
  /\ redisUp = TRUE
  /\ store = [k \in Keys |-> Absent]

-----------------------------------------------------------------------------
(* The operations of RedisCache. *)

(* get: a RedisError is treated as a miss. *)
Get(k) == IF redisUp THEN store[k].val ELSE Miss

(* set: SETEX.  A RedisError is swallowed; when it was a timeout on the    *)
(* reply the write may nevertheless have happened.                         *)
Set(k, v, ttl) ==
  /\ \/ store' = [store EXCEPT ![k] = [val |-> v, left |-> ttl]]
     \/ ~redisUp /\ store' = store
  /\ UNCHANGED redisUp

(* ping: a RedisError is reported as FALSE. *)
Ping == redisUp

-----------------------------------------------------------------------------
(* The Redis server and the network to it. *)

Fail ==
  /\ redisUp
  /\ redisUp' = FALSE
  /\ UNCHANGED store

Recover ==
  /\ ~redisUp
  /\ redisUp' = TRUE
  /\ \/ UNCHANGED store
     \/ store' = [k \in Keys |-> Absent]

Aged(e) == IF e.left > 1 THEN [e EXCEPT !.left = @ - 1] ELSE Absent

(* Expiry goes on while openst cannot reach Redis. *)
Tick ==
  /\ store' = [k \in Keys |-> Aged(store[k])]
  /\ UNCHANGED redisUp

=============================================================================
