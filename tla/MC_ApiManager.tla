---------------------------- MODULE MC_ApiManager ----------------------------
(* Model-checking instance of ApiManager: two concurrent requests, one    *)
(* tenant, one route id and one fragment name; a TTL of one tick and a    *)
(* clock of three ticks so that a cached config can outlive its TTL.      *)
EXTENDS ApiManager, TLC

CONSTANTS r1, r2, t1, x1, f1

MCReqs == {r1, r2}
MCTenants == {t1}
MCRouteIds == {x1}
MCFragmentIds == {f1}

\* Request slots are interchangeable.
ReqSymmetry == Permutations(MCReqs)
=============================================================================
