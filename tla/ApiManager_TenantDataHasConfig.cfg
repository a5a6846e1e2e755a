CONSTANTS
    r1 = r1
    r2 = r2
    t1 = t1
    x1 = x1
    f1 = f1
    NoReq = NoReq
    Reqs <- MCReqs
    Tenants <- MCTenants
    RouteIds <- MCRouteIds
    FragmentIds <- MCFragmentIds
    TTL = 1
    MaxTime = 0
SYMMETRY ReqSymmetry
SPECIFICATION Spec
\* A send request for a tenant without config leaves the APIManager mutex
\* locked, after which every later send request blocks; that hang is the
\* subject of the run of RequestsComplete.
INVARIANT TenantDataHasConfig
\* Time plays no part in this property.
CHECK_DEADLOCK FALSE
