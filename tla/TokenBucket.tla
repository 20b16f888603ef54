----------------------------- MODULE TokenBucket -----------------------------
(***************************************************************************)
(* class TokenBucket of packages/api/src/application/rateLimit.ts as       *)
(* operators over its Map: a function from client ids to buckets, None     *)
(* where the Map has no entry.  cfg is its RateLimitConfig without         *)
(* windowMs, which both limiters share.  Tokens are counted in units of    *)
(* 1/Window, so that refill() is exact where the code divides; one token,  *)
(* the cost of every request, is Window units.                             *)
(***************************************************************************)
EXTENDS Integers, FiniteSets

CONSTANTS
  Window,       \* windowMs
  MaxBuckets,   \* the 10,000 of prune()
  None

ASSUME WindowAssumption  == Window \in Nat \ {0}
ASSUME BucketsAssumption == MaxBuckets \in Nat

Bucket == [tokens : Nat, last : Nat]

ASSUME NoBucketAssumption == None \notin Bucket

\* What the constructor accepts.
Limits == [capacity : Nat \ {0}, refill : Nat \ {0}]

Full(cfg) == cfg.capacity * Window

Refilled(b, cfg, t) ==
  LET tokens == b.tokens + (t - b.last) * cfg.refill IN
  IF t <= b.last THEN b
  ELSE [tokens |-> IF tokens <= Full(cfg) THEN tokens ELSE Full(cfg), last |-> t]

Stale(b, t) == b # None /\ t - b.last > 2 * Window

PruneAny(bs, t) ==    \* mutant: the age of a bucket is not looked at
  IF Cardinality({c \in DOMAIN bs : bs[c] # None}) <= MaxBuckets THEN bs
  ELSE [c \in DOMAIN bs |-> IF bs[c] # None /\ t > bs[c].last THEN None ELSE bs[c]]

Prune(bs, t) ==
  IF Cardinality({c \in DOMAIN bs : bs[c] # None}) <= MaxBuckets THEN bs
  ELSE [c \in DOMAIN bs |-> IF Stale(bs[c], t) THEN None ELSE bs[c]]

RefreshedEmpty(bs, c, cfg, t) ==    \* mutant: a new bucket starts empty
  IF bs[c] # None THEN [bs EXCEPT ![c] = Refilled(bs[c], cfg, t)]
  ELSE Prune([bs EXCEPT ![c] = [tokens |-> 0, last |-> t]], t)

\* tryConsume() up to the comparison with the cost.
Refreshed(bs, c, cfg, t) ==
  IF bs[c] # None THEN [bs EXCEPT ![c] = Refilled(bs[c], cfg, t)]
  ELSE Prune([bs EXCEPT ![c] = [tokens |-> Full(cfg), last |-> t]], t)

RetryFloor(b, cfg) == (Window - b.tokens) \div cfg.refill    \* mutant: floor for ceil

\* retryAfterMs(), for the bucket of a request that was refused.
RetryAfter(b, cfg) == (Window - b.tokens + cfg.refill - 1) \div cfg.refill
=============================================================================
