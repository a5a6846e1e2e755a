----------------------------- MODULE RouteTable -----------------------------
(***************************************************************************)
(* What a routing table manager promises about its table of routes         *)
(* (spec 4.5 and the RoutingTableManager interface): a map from route hash *)
(* to routing table entry.                                                 *)
(*   - AddRoute of a valid entry stores it under its hash; adding a route  *)
(*     with the same hash again changes nothing else (idempotent by hash). *)
(*   - RemoveRoute of a valid entry removes its hash.                      *)
(*   - ReplaceAllRoutes makes the table hold exactly the given routes.     *)
(*   - A missing or invalid entry is rejected and the table is unchanged   *)
(*     (spec 7, InvalidConfig: no state change).                           *)
(* Queries do not change the table.  call is the interface: the last     *)
(* operation and its argument, so that a step is judged against the call  *)
(* that caused it.                                                         *)
(***************************************************************************)
EXTENDS Sequences, Functions, TLC

CONSTANTS
    Entries,   \* routing table entries (model values)
    Hashes,    \* route hashes
    Hash,      \* Hash[e]: entry.Hash()
    Valid,     \* entries whose Validate() returns nil
    MaxInput,  \* longest entry list given to ReplaceAllRoutes
    Nil        \* a missing entry

VARIABLES table, call

Inputs == Entries \cup {Nil}

\* Entry lists ReplaceAllRoutes may be called with.
EntryLists == UNION {[1..n -> Inputs] : n \in 0..MaxInput}

\* The route a list of entries leaves under hash h: the last one with that hash.
LastWith(es, h) ==
    es[CHOOSE i \in DOMAIN es : Hash[es[i]] = h /\
                                \A j \in DOMAIN es : Hash[es[j]] = h => j <= i]

Init == table = <<>> /\ call = <<"none">>

Put(e) ==
    /\ call' = <<"add", e>>
    /\ table' = IF e \in Valid THEN (Hash[e] :> e) @@ table ELSE table

Delete(e) ==
    /\ call' = <<"remove", e>>
    /\ table' = IF e \in Valid THEN Restrict(table, DOMAIN table \ {Hash[e]})
                                ELSE table

ReplaceAll(es) ==
    /\ call' = <<"replace", es>>
    /\ table' = IF \A i \in DOMAIN es : es[i] \in Valid
                 THEN [h \in {Hash[es[i]] : i \in DOMAIN es} |-> LastWith(es, h)]
                 ELSE table

Read ==
    /\ call' = <<"read">>
    /\ UNCHANGED table

Next ==
    \/ \E e \in Inputs : Put(e) \/ Delete(e)
    \/ \E es \in EntryLists : ReplaceAll(es)
    \/ Read

Spec == Init /\ [][Next]_<<table, call>>
=============================================================================
