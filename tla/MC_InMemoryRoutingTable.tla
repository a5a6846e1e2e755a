----------------------- MODULE MC_InMemoryRoutingTable -----------------------
(* Instantiation of InMemoryRoutingTable for TLC: four entries, two of     *)
(* which are the same route (same hash) and one of which fails Validate(). *)
EXTENDS InMemoryRoutingTable

CONSTANTS e1, e2, e3, e4, h1, h2, h3, p1, p2

MCEntries == {e1, e2, e3, e4}
MCHashes == {h1, h2, h3}
MCHash == (e1 :> h1) @@ (e2 :> h1) @@ (e3 :> h2) @@ (e4 :> h3)
MCValid == {e1, e2, e3}
MCPlugins == {p1, p2}
MCSrc == (e1 :> p1) @@ (e2 :> p1) @@ (e3 :> p1) @@ (e4 :> p2)
MCDst == (e1 :> p1) @@ (e2 :> p1) @@ (e3 :> p2) @@ (e4 :> p2)
=============================================================================
