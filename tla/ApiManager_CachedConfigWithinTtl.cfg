CONSTANTS
    r1 = r1
    r2 = r2
    t1 = t1
    x1 = x1
    f1 = f1
    NoReq = NoReq
    Reqs <- MCReqs
    Tenants <- MCTenants
    RouteIds <- MCRouteIds
    FragmentIds <- MCFragmentIds
    TTL = 1
    MaxTime = 3
SYMMETRY ReqSymmetry
SPECIFICATION Spec
INVARIANT CachedConfigWithinTtl
\* Whether requests can stop is the subject of the run of RequestsComplete.
CHECK_DEADLOCK FALSE
