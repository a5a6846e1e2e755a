------------------------- MODULE InMemoryRoutingTable -------------------------
(***************************************************************************)
(* InMemoryRoutingTableManager of src/cmd/main.go (lines 112-215): a       *)
(* routing table kept in a Go map from entry.Hash() to *RoutingTableEntry. *)
(*                                                                         *)
(* The manager has no lock; it is used by one goroutine, so every method   *)
(* is one atomic step.  Entries are model values; their hash, validity and *)
(* source/destination plugins are constants.  Go map iteration order is    *)
(* unspecified, so a loop over the map visits the entries in any order.    *)
(* call is the last method called and its argument; answer is the slice   *)
(* the last query returned, expected the routes it was asked for (history *)
(* variables read by the properties).                                      *)
(***************************************************************************)
EXTENDS Integers, Sequences, SequencesExt, Functions, TLC

CONSTANTS
    Entries, Hashes, Hash, Valid, MaxInput,
    Plugins,   \* plugin configurations, compared by Plugin.Hash()
    Src,       \* Src[e]: entry.Source
    Dst,       \* Dst[e]: entry.Destination
    Nil        \* the nil *RoutingTableEntry

VARIABLES index, call, answer, expected

vars == <<index, call, answer, expected>>

EntryLists == UNION {[1..n -> Entries] : n \in 0..MaxInput}

TypeOK ==
    /\ DOMAIN index \subseteq Hashes
    /\ \A h \in DOMAIN index : index[h] \in Entries
    /\ answer \in Seq(Entries \cup {Nil})
    /\ expected \subseteq Entries

\* NewInMemoryRoutingTableManager: an empty index.
Init ==
    /\ index = <<>>
    /\ call = <<"none">>
    /\ answer = <<>>
    /\ expected = {}

\* A slice of n nil entries (make([]*RoutingTableEntry, n)).
Nils(n) == [i \in 1..n |-> Nil]

\* Mutant: a route whose hash is already stored is not overwritten.
AddRouteKeepExisting(e) ==
    /\ call' = <<"add", e>>
    /\ \/ e # Nil /\ e \in Valid /\ index' = index @@ (Hash[e] :> e)
       \/ (e = Nil \/ e \notin Valid) /\ UNCHANGED index
    /\ UNCHANGED <<answer, expected>>

\* AddRoute: reject a nil or invalid entry, else index[entry.Hash()] = entry.
AddRoute(e) ==
    /\ call' = <<"add", e>>
    /\ \/ e # Nil /\ e \in Valid /\ index' = (Hash[e] :> e) @@ index
       \/ (e = Nil \/ e \notin Valid) /\ UNCHANGED index
    /\ UNCHANGED <<answer, expected>>

\* Mutant: the map slot is set to nil instead of being deleted.
RemoveRouteSetsNil(e) ==
    /\ call' = <<"remove", e>>
    /\ \/ e # Nil /\ e \in Valid /\ index' = (Hash[e] :> Nil) @@ index
       \/ (e = Nil \/ e \notin Valid) /\ UNCHANGED index
    /\ UNCHANGED <<answer, expected>>

\* RemoveRoute: reject a nil or invalid entry, else delete(index, entry.Hash()).
RemoveRoute(e) ==
    /\ call' = <<"remove", e>>
    /\ \/ e # Nil /\ e \in Valid /\ index' = Restrict(index, DOMAIN index \ {Hash[e]})
       \/ (e = Nil \/ e \notin Valid) /\ UNCHANGED index
    /\ UNCHANGED <<answer, expected>>

\* The loop of ReplaceAllRoutes over entries: it returns at the first
\* invalid entry and otherwise deletes each entry's hash from the index.
RECURSIVE ReplaceLoop(_, _)
ReplaceLoop(idx, es) ==
    IF es = <<>> \/ Head(es) \notin Valid THEN idx
    ELSE ReplaceLoop(Restrict(idx, DOMAIN idx \ {Hash[Head(es)]}), Tail(es))

\* ReplaceAllRoutes: the index is replaced by a new empty map, then the loop.
ReplaceAllRoutes(es) ==
    /\ call' = <<"replace", es>>
    /\ index' = ReplaceLoop(<<>>, es)
    /\ UNCHANGED <<answer, expected>>

\* The routes of the index.
Routes == Range(index)

\* GetAllRoutes: tbl := make(len); every iteration writes tbl[idx] with idx
\* never incremented, so the last entry visited lands in tbl[0].
GetAllRoutes ==
    /\ \E last \in Routes \cup {Nil} :
         /\ (last = Nil) <=> (Routes = {})
         /\ answer' = [i \in 1..Cardinality(Routes) |->
                          IF i = 1 THEN last ELSE Nil]
    /\ expected' = Routes
    /\ call' = <<"read">>
    /\ UNCHANGED index

\* GetRoutesBySourcePlugin / ByDestinationPlugin (and GetRoutesForEvent,
\* which asks by the event's source): tbl := make(len) and then the matching
\* entries are appended, in map order.
GetRoutesByPlugin(of, p) ==
    LET match == {r \in Routes : of[r] = p}
    IN  /\ \E order \in SetToSeqs(match) :
             answer' = Nils(Cardinality(Routes)) \o order
        /\ expected' = match
        /\ call' = <<"read">>
        /\ UNCHANGED index

Queries ==
    \/ GetAllRoutes
    \/ \E p \in Plugins : GetRoutesByPlugin(Src, p) \/ GetRoutesByPlugin(Dst, p)

\* Every operation but ReplaceAllRoutes.
NextWithoutReplace ==
    \/ \E e \in Entries \cup {Nil} : AddRoute(e) \/ RemoveRoute(e)
    \/ Queries

Next ==
    \/ NextWithoutReplace
    \/ \E es \in EntryLists : ReplaceAllRoutes(es)

Spec == Init /\ [][Next]_vars

SpecWithoutReplace == Init /\ [][NextWithoutReplace]_vars

-----------------------------------------------------------------------------
(***************************************************************************)
(* Properties.                                                             *)
(***************************************************************************)

\* The in-memory manager implements the abstract routing table of spec 4.5:
\* its index, read as a map from hash to route, changes only as AddRoute,
\* RemoveRoute and ReplaceAllRoutes of the abstract table allow.
Abstract == INSTANCE RouteTable WITH table <- index

RouteTableRefined == Abstract!Spec

\* Every query (GetAllRoutes, GetRoutesBySourcePlugin, ...) returns exactly
\* the routes of the table it was asked for, each once, and no nil entry.
QueryAnswersTable ==
    /\ Len(answer) = Cardinality(expected)
    /\ ToSet(answer) = expected
=============================================================================
