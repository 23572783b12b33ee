------------------------------ MODULE StateStore ------------------------------
(***************************************************************************)
(* What pkg/state makes of Redis: a map from keys to values, here a        *)
(* function whose domain is the keys that exist, read and written one key  *)
(* at a time or several keys at once, with no transaction around a read    *)
(* and the write that follows it.  Each service of hotelApp has a Redis of *)
(* its own, so a component has one such map per service.                   *)
(*                                                                         *)
(* Source: src/hotelApp/pkg/state/state.go.                                *)
(***************************************************************************)
EXTENDS Sequences

Empty == [k \in {} |-> {}]

\* GetState succeeds, and returns kv[k], only for a key that exists.
Found(kv, k) == k \in DOMAIN kv

SetState(kv, k, v) == [x \in DOMAIN kv \union {k} |-> IF x = k THEN v ELSE kv[x]]

\* One missing key fails the whole read; the values come in the order of the keys.
BulkFound(kv, keys) == \A i \in DOMAIN keys : keys[i] \in DOMAIN kv

GetBulkState(kv, keys) == [i \in DOMAIN keys |-> kv[keys[i]]]

\* Mutant: what was stored before is lost.
SetBulkStateAlone(kv, kvs, done) == [x \in done |-> kvs[x]]

\* The pipeline is not a transaction: when it fails, any of its keys may have been set.
SetBulkState(kv, kvs, done) ==
  [x \in DOMAIN kv \union done |-> IF x \in done THEN kvs[x] ELSE kv[x]]
=============================================================================
