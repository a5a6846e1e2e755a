----------------------------- MODULE ApiManager -----------------------------
(***************************************************************************)
(* The HTTP control plane of src/unnamed/part_000 (package app): the      *)
(* handlers that read or change shared state, run concurrently by the     *)
(* HTTP server, one goroutine per request.                                *)
(*                                                                         *)
(* Shared state:                                                          *)
(*   - the APIManager's own mutex (a.Lock in sendEventHandler);           *)
(*   - the TenantCache: per tenant the cached tenant config and the time  *)
(*     it was cached (only OpenEventApi of the config is kept);           *)
(*   - the tenant store (tenantStorer): per tenant no config, or a config *)
(*     whose OpenEventApi is true ("open") or false ("closed");           *)
(*   - the routes of the routing table manager, as (tenant, routeId);    *)
(*   - the fragments of the routing table manager, as (tenant, name).     *)
(* A request slot serves one request at a time; Arrive picks the handler  *)
(* and its inputs.  Tenant-id validation, body parsing and the HTTP        *)
(* response are stateless early returns and are left out.                 *)
(***************************************************************************)
EXTENDS Integers

CONSTANTS
    Reqs,       \* request slots (concurrent HTTP requests)
    Tenants,    \* tenant ids (orgId, appId)
    RouteIds,   \* route ids
    FragmentIds,\* fragment names
    TTL,        \* TENANT_CACHE_TTL_SECS, in clock ticks
    MaxTime,    \* bound of the clock
    NoReq       \* model value: the mutex is free

ASSUME TTL \in Nat /\ MaxTime \in Nat /\ NoReq \notin Reqs

Time == 0..MaxTime
StoreStates == {"none", "open", "closed"}
Kinds == {"send", "addRoute", "removeRoute", "setConfig", "deleteConfig",
          "addFragment", "removeFragment"}
Request == [kind : Kinds, tenant : Tenants, route : RouteIds,
            fragment : FragmentIds, token : BOOLEAN, open : BOOLEAN]

VARIABLES
    pc,         \* pc[r]: the step request slot r is at
    req,        \* req[r]: the handler and inputs of r's request
    cfgOpen,    \* cfgOpen[r]: OpenEventApi of the tenant config r obtained
    apiLock,    \* holder of the APIManager mutex, or NoReq
    cache,      \* cache[t]: [present, open, ts] of the TenantCache entry
    store,      \* store[t]: the tenant config in the tenant store
    routes,     \* routes held by the routing table manager
    fragments,  \* fragments held by the routing table manager
    now,        \* time.Now().Unix()
    changedAt,  \* history: when store[t] last changed
    staleRead   \* history: a send request used a tenant config that differs
                \*   from the store's and has done so for longer than TTL

vars == <<pc, req, cfgOpen, apiLock, cache, store, routes, fragments, now,
          changedAt, staleRead>>

Init ==
    /\ pc = [r \in Reqs |-> "idle"]
    /\ req = [r \in Reqs |-> CHOOSE q \in Request : TRUE]
    /\ cfgOpen = [r \in Reqs |-> FALSE]
    /\ apiLock = NoReq
    /\ cache = [t \in Tenants |-> [present |-> FALSE, open |-> FALSE, ts |-> 0]]
    /\ store \in [Tenants -> StoreStates]
    /\ routes = {}
    /\ fragments = {}
    /\ now = 0
    /\ changedAt = [t \in Tenants |-> 0]
    /\ staleRead = FALSE

-----------------------------------------------------------------------------
(* TenantCache.GetTenant: an entry older than the TTL is deleted and      *)
(* reported as a miss.                                                    *)
CacheExpired(t) == cache[t].present /\ now - cache[t].ts > TTL

CacheHit(t) == cache[t].present /\ ~CacheExpired(t)

(* TenantCache.SetTenant: the config is cached with Ts = now.             *)
CacheSet(t, open) == [present |-> TRUE, open |-> open, ts |-> now]

(* The store state a cached config stands for.                          *)
StoreOf(open) == IF open THEN "open" ELSE "closed"

NoEntry == [present |-> FALSE, open |-> FALSE, ts |-> 0]

(* The first step of each handler.                                        *)
FirstPc == [send |-> "sendLock", addRoute |-> "addCheck",
            removeRoute |-> "removeRoute", setConfig |-> "setConfig",
            deleteConfig |-> "delCheck", addFragment |-> "addFragCheck",
            removeFragment |-> "removeFragment"]

(* A new request reaches slot r.                                          *)
Arrive(r) ==
    /\ pc[r] = "idle"
    /\ \E q \in Request :
         /\ req' = [req EXCEPT ![r] = q]
         /\ pc' = [pc EXCEPT ![r] = FirstPc[q.kind]]
    /\ UNCHANGED <<cfgOpen, apiLock, cache, store, routes, fragments, now, changedAt,
                   staleRead>>

(* a.Lock() in sendEventHandler.                                          *)
SendLock(r) ==
    /\ pc[r] = "sendLock"
    /\ apiLock = NoReq
    /\ apiLock' = r
    /\ pc' = [pc EXCEPT ![r] = "sendCache"]
    /\ UNCHANGED <<req, cfgOpen, cache, store, routes, fragments, now, changedAt,
                   staleRead>>

(* Under the mutex: GetTenant (an expired entry is deleted) and on a miss *)
(* tenantStorer.GetConfig.  When the store has no config the handler      *)
(* responds with the error and returns WITHOUT a.Unlock().  The store is  *)
(* read here; SetTenant stamps the entry in a later step, and the         *)
(* unlocked config handlers and the clock may run in between.             *)
SendCache(r) ==
    LET t == req[r].tenant IN
    /\ pc[r] = "sendCache"
    /\ IF CacheHit(t)
          THEN /\ cfgOpen' = [cfgOpen EXCEPT ![r] = cache[t].open]
               /\ apiLock' = NoReq
               /\ pc' = [pc EXCEPT ![r] = "sendAuth"]
               /\ staleRead' = (staleRead \/ (StoreOf(cache[t].open) # store[t]
                                               /\ now - changedAt[t] > TTL))
               /\ UNCHANGED cache
          ELSE /\ cache' = [cache EXCEPT ![t] = NoEntry]
               /\ IF store[t] = "none"
                     THEN /\ pc' = [pc EXCEPT ![r] = "idle"]
                          /\ UNCHANGED cfgOpen
                     ELSE /\ cfgOpen' = [cfgOpen EXCEPT ![r] = store[t] = "open"]
                          /\ pc' = [pc EXCEPT ![r] = "sendSetTenant"]
               /\ UNCHANGED <<apiLock, staleRead>>
    /\ UNCHANGED <<req, store, routes, fragments, now, changedAt>>

(* SetTenant caches the config read by GetConfig with Ts = time.Now();    *)
(* then a.Unlock().                                                        *)
SendSetTenant(r) ==
    /\ pc[r] = "sendSetTenant"
    /\ cache' = [cache EXCEPT ![req[r].tenant] =
                    CacheSet(req[r].tenant, cfgOpen[r])]
    /\ apiLock' = NoReq
    /\ pc' = [pc EXCEPT ![r] = "sendAuth"]
    /\ UNCHANGED <<req, cfgOpen, store, routes, fragments, now, changedAt,
                   staleRead>>

(* Without OpenEventApi the bearer token is verified; a bad token ends    *)
(* the request.                                                           *)
SendAuth(r) ==
    /\ pc[r] = "sendAuth"
    /\ pc' = [pc EXCEPT ![r] =
                IF cfgOpen[r] \/ req[r].token THEN "sendRoute" ELSE "idle"]
    /\ UNCHANGED <<req, cfgOpen, apiLock, cache, store, routes, fragments, now, changedAt,
                   staleRead>>

(* routingTableMgr.GetRoute, then RouteEvent; either way the request ends.*)
SendRoute(r) ==
    /\ pc[r] = "sendRoute"
    /\ pc' = [pc EXCEPT ![r] = "idle"]
    /\ UNCHANGED <<req, cfgOpen, apiLock, cache, store, routes, fragments, now, changedAt,
                   staleRead>>

(* addRouteHandler: tenantStorer.GetConfig must find the tenant.          *)
AddCheck(r) ==
    /\ pc[r] = "addCheck"
    /\ pc' = [pc EXCEPT ![r] =
                IF store[req[r].tenant] = "none" THEN "idle" ELSE "addRoute"]
    /\ UNCHANGED <<req, cfgOpen, apiLock, cache, store, routes, fragments, now, changedAt,
                   staleRead>>

(* addRouteHandler: routingTableMgr.AddRoute registers the route.         *)
AddRouteStep(r) ==
    /\ pc[r] = "addRoute"
    /\ routes' = routes \cup {<<req[r].tenant, req[r].route>>}
    /\ pc' = [pc EXCEPT ![r] = "idle"]
    /\ UNCHANGED <<req, cfgOpen, apiLock, cache, store, fragments, now, changedAt,
                   staleRead>>

(* removeRouteHandler: routingTableMgr.RemoveRoute (idempotent).          *)
RemoveRouteStep(r) ==
    /\ pc[r] = "removeRoute"
    /\ routes' = routes \ {<<req[r].tenant, req[r].route>>}
    /\ pc' = [pc EXCEPT ![r] = "idle"]
    /\ UNCHANGED <<req, cfgOpen, apiLock, cache, store, fragments, now, changedAt,
                   staleRead>>

(* The time at which the store's config for t last changed.             *)
ChangedAtAfter(t, s) ==
    [changedAt EXCEPT ![t] = IF s # store[t] THEN now ELSE changedAt[t]]

(* setTenantConfigHandler: tenantStorer.SetConfig.  The TenantCache is not *)
(* touched.                                                               *)
SetConfigStep(r) ==
    LET t == req[r].tenant
        s == IF req[r].open THEN "open" ELSE "closed"
    IN
    /\ pc[r] = "setConfig"
    /\ store' = [store EXCEPT ![t] = s]
    /\ changedAt' = ChangedAtAfter(t, s)
    /\ pc' = [pc EXCEPT ![r] = "idle"]
    /\ UNCHANGED <<req, cfgOpen, apiLock, cache, routes, fragments, now, staleRead>>

(* deleteTenantConfigHandler: GetAllTenantRoutes; a tenant with routes is *)
(* refused ("tenant has routes").                                         *)
DelCheck(r) ==
    /\ pc[r] = "delCheck"
    /\ pc' = [pc EXCEPT ![r] =
                IF \E x \in RouteIds : <<req[r].tenant, x>> \in routes
                THEN "idle" ELSE "delConfig"]
    /\ UNCHANGED <<req, cfgOpen, apiLock, cache, store, routes, fragments, now, changedAt,
                   staleRead>>

(* deleteTenantConfigHandler: tenantStorer.DeleteConfig.  The TenantCache *)
(* is not touched.                                                        *)
DelConfig(r) ==
    LET t == req[r].tenant IN
    /\ pc[r] = "delConfig"
    /\ store' = [store EXCEPT ![t] = "none"]
    /\ changedAt' = ChangedAtAfter(t, "none")
    /\ pc' = [pc EXCEPT ![r] = "idle"]
    /\ UNCHANGED <<req, cfgOpen, apiLock, cache, routes, fragments, now, staleRead>>

(* addFragmentHandler: tenantStorer.GetConfig must find the tenant; then *)
(* a body that does not parse, a fragment name that differs from the URL *)
(* id, or no name at all ends the request before AddFragment.            *)
AddFragCheck(r) ==
    /\ pc[r] = "addFragCheck"
    /\ \E bodyOk \in BOOLEAN :
         pc' = [pc EXCEPT ![r] =
                  IF store[req[r].tenant] # "none" /\ bodyOk
                  THEN "addFragment" ELSE "idle"]
    /\ UNCHANGED <<req, cfgOpen, apiLock, cache, store, routes, fragments, now,
                   changedAt, staleRead>>

(* addFragmentHandler: routingTableMgr.AddFragment stores the fragment.  *)
AddFragmentStep(r) ==
    /\ pc[r] = "addFragment"
    /\ fragments' = fragments \cup {<<req[r].tenant, req[r].fragment>>}
    /\ pc' = [pc EXCEPT ![r] = "idle"]
    /\ UNCHANGED <<req, cfgOpen, apiLock, cache, store, routes, now, changedAt,
                   staleRead>>

(* removeFragmentHandler: routingTableMgr.RemoveFragment (idempotent).   *)
RemoveFragmentStep(r) ==
    /\ pc[r] = "removeFragment"
    /\ fragments' = fragments \ {<<req[r].tenant, req[r].fragment>>}
    /\ pc' = [pc EXCEPT ![r] = "idle"]
    /\ UNCHANGED <<req, cfgOpen, apiLock, cache, store, routes, now, changedAt,
                   staleRead>>

(* The clock advances.                                                    *)
Tick ==
    /\ now < MaxTime
    /\ now' = now + 1
    /\ UNCHANGED <<pc, req, cfgOpen, apiLock, cache, store, routes, fragments, changedAt,
                   staleRead>>

-----------------------------------------------------------------------------
RouteStep(r) ==
    \/ SendLock(r) \/ SendCache(r) \/ SendSetTenant(r) \/ SendAuth(r) \/ SendRoute(r)
    \/ AddCheck(r) \/ AddRouteStep(r) \/ RemoveRouteStep(r)
    \/ SetConfigStep(r) \/ DelCheck(r) \/ DelConfig(r)

FragmentStep(r) ==
    AddFragCheck(r) \/ AddFragmentStep(r) \/ RemoveFragmentStep(r)

Next ==
    \/ \E r \in Reqs : Arrive(r) \/ RouteStep(r) \/ FragmentStep(r)
    \/ Tick

(* Every request goroutine is scheduled; a goroutine waiting for the      *)
(* mutex gets it if it is free infinitely often (sync.Mutex starvation    *)
(* mode).  New requests and the clock are not forced.                     *)
Fairness ==
    \A r \in Reqs :
        /\ SF_vars(SendLock(r))
        /\ WF_vars(SendCache(r) \/ SendSetTenant(r) \/ SendAuth(r)
                   \/ SendRoute(r) \/ AddCheck(r) \/ AddRouteStep(r) \/ RemoveRouteStep(r) \/ SetConfigStep(r)
                   \/ DelCheck(r) \/ DelConfig(r) \/ FragmentStep(r))

Spec == Init /\ [][Next]_vars /\ Fairness

-----------------------------------------------------------------------------
(* PROPERTIES *)

(* The TenantCache bounds staleness: the tenant config sendEventHandler   *)
(* takes from the cache (and so its OpenEventApi, which decides whether   *)
(* the JWT is checked) is the store's config, or the store changed at     *)
(* most TTL ago (a revoked OpenEventApi or a deleted tenant).             *)
CachedConfigWithinTtl == ~staleRead

(* addRouteHandler and addFragmentHandler refuse a tenant without config *)
(* and deleteTenantConfigHandler refuses a tenant that has routes: every  *)
(* route and every fragment belongs to a tenant that has a config.       *)
TenantDataHasConfig ==
    \A d \in routes \cup fragments : store[d[1]] # "none"

(* Every request handled by a goroutine eventually completes.             *)
RequestsComplete == \A r \in Reqs : (pc[r] # "idle") ~> (pc[r] = "idle")

=============================================================================
