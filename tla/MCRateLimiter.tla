--------------------------- MODULE MCRateLimiter ---------------------------
(* Instances of RateLimiter for TLC: a route with per-client quotas and one  *)
(* with a global quota.                                                      *)
EXTENDS RateLimiter, TLC

IpQuota(limit, period) == [type |-> "IP", limit |-> limit, period |-> period]
KeyQuota(limit, period) == [type |-> "Key", limit |-> limit, period |-> period]
GlobalQuota(limit, period) == [type |-> "Global", limit |-> limit, period |-> period]

GlobalRoutes == {<<>>, <<GlobalQuota(1, 2)>>}
ClientRoutes == {<<IpQuota(1, 2), KeyQuota(1, 2)>>, <<KeyQuota(1, 1)>>}
NoCustom == {<<>>}
SomeCustom == {<<>>, <<KeyQuota(2, 2)>>}

RequestSymmetry == Permutations(Requests)
============================================================================
