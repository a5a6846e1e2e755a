---------------------------- MODULE EventPipeline ----------------------------
(***************************************************************************)
(* One event through a route: the filter chain [split, modify] and the     *)
(* Discord sender, with the event acknowledgement tree underneath and the  *)
(* event's deadline racing them.                                           *)
(*                                                                         *)
(*   - split  (src/pkg/filter/split/split.go, Filter)                      *)
(*   - modify (src/pkg/filter/modify/modify.go, Filter)                    *)
(*   - Discord sender (src/pkg/plugins/discord/sender.go, NewSender, Send) *)
(*   - test sender plugin (src/pkg/plugin/manager/testplugins/sender/      *)
(*     plugin.go): NewPluginer, NewSender, Send                            *)
(*   - ack tree, chain executor and deadline: pkg/event and the route      *)
(*     pipeline are not part of the source here; they follow spec 4.1,     *)
(*     4.3 and 4.4.                                                        *)
(*                                                                         *)
(* The route is built first: its two filters and its sender are made by   *)
(* their constructors, and a constructor error rejects the route.  Then    *)
(* the receiver emits one event.                                           *)
(* The chain and the sender run on one goroutine (spec 5), so they are one *)
(* process (pc); the deadline is a timer on another goroutine.  A panic    *)
(* crashes the process: nothing runs after it.                             *)
(*                                                                         *)
(* Payloads are abstracted to what the filters and the sender tell apart:  *)
(* "null", a lower- or upper-case string, a number, an object whose        *)
(* "content" field is one of those or absent, and arrays of those.         *)
(***************************************************************************)
EXTENDS Integers, Sequences, SequencesExt, FiniteSets

CONSTANTS
    RootPayloads,  \* payloads a receiver may emit
    MaxArray,      \* longest array among RootPayloads
    SplitPath,     \* split config.Path ("" or "content")
    ModifyPaths,   \* modify's allPaths: config.Path followed by config.Paths
    ToUpper,       \* *config.ToUpper
    ToLower,       \* *config.ToLower
    Nil            \* a nil interface{} returned by GetPathValue

Strings == {"lower", "upper"}
Scalars == Strings \cup {"num"}

\* Every payload is a record of the same shape: a tag, the "content" field of
\* an object, and the elements of an array.
Scalar(x) == [tag |-> x, content |-> "absent", elems |-> <<>>]
Obj(c) == [tag |-> "obj", content |-> c, elems |-> <<>>]
Arr(es) == [tag |-> "arr", content |-> "absent", elems |-> es]
Null == Scalar("null")

Elements == {Scalar(x) : x \in Scalars} \cup {Obj(c) : c \in Scalars \cup {"absent"}}
Arrays == {Arr(es) : es \in UNION {[1..n -> Elements] : n \in 1..MaxArray}}
Values == {Null} \cup Elements \cup Arrays

ASSUME RootPayloads \subseteq Values

Nodes == 0..MaxArray      \* node 0 is the root event, the others its clones
Root == 0

VARIABLES
    pc,        \* "build", "rejected", "emit", "split", "clone", "modify",
               \*   "send", "done", "crashed"
    sender,    \* the route's sender plugin: "none", "discord", "test"
    k,         \* split's loop position in the array
    self,      \* self[n]: event n's own Ack/Nack: "none" (not created),
               \*   "open", "acked", "nacked"
    parent,    \* parent[n]: the node n was cloned from
    payload,   \* payload[n]: the payload of event n
    outq,      \* events the chain emitted and has not yet sent
    rootState, \* the root's terminal state: "open", "acked", "nacked"
    splitOut   \* history: payloads split emitted, in order

vars == <<pc, sender, k, self, parent, payload, outq, rootState, splitOut>>

TypeOK ==
    /\ pc \in {"build", "rejected", "emit", "split", "clone", "modify", "send",
               "done", "crashed"}
    /\ sender \in {"none", "discord", "test"}
    /\ k \in 1..(MaxArray + 1)
    /\ self \in [Nodes -> {"none", "open", "acked", "nacked"}]
    /\ parent \in [Nodes -> Nodes]
    /\ payload \in [Nodes -> Values]
    /\ outq \in Seq(Nodes)
    /\ rootState \in {"open", "acked", "nacked"}
    /\ splitOut \in Seq(Elements)

-----------------------------------------------------------------------------
(* Payload navigation: event.GetPathValue / SetPathValue on the abstract   *)
(* payloads, for the paths "" (the root) and "content".                    *)

GetPathValue(v, p) ==
    IF p = "" THEN (IF v = Null THEN Nil ELSE v)
    ELSE IF v.tag = "obj" /\ v.content # "absent" THEN Scalar(v.content) ELSE Nil

SetPathValue(v, p, x) ==
    IF p = "" THEN x ELSE [v EXCEPT !.content = x.tag]

IsArray(x) == x # Nil /\ x.tag = "arr"

-----------------------------------------------------------------------------
(* The acknowledgement tree (spec 4.1).  A node is acked when its own Ack  *)
(* was called and all its children are acked; the root terminates once:    *)
(* nacked as soon as any node is nacked, acked when the whole tree is.     *)

Children(s, n) == {c \in Nodes \ {Root} : s[c] # "none" /\ parent[c] = n}

\* Mutant: a node counts as acked once its own Ack was called, whatever
\* its children did.
TreeAckedSelfOnly(s, n) == s[n] = "acked"

RECURSIVE TreeAcked(_, _)
TreeAcked(s, n) == s[n] = "acked" /\ \A c \in Children(s, n) : TreeAcked(s, c)

\* The root's state once the node states are s.
Settled(s) ==
    IF rootState # "open" THEN rootState
    ELSE IF \E n \in Nodes : s[n] = "nacked" THEN "nacked"
    ELSE IF TreeAcked(s, Root) THEN "acked"
    ELSE "open"

\* Event n terminates with result r ("acked" or "nacked"), starting from the
\* node states s; a second terminal call on the same event is ignored, and
\* the root callback fires when the root leaves "open".
TerminateFrom(s, n, r) ==
    LET s2 == IF s[n] = "open" THEN [s EXCEPT ![n] = r] ELSE s
    IN  /\ self' = s2
        /\ rootState' = Settled(s2)

Terminate(n, r) == TerminateFrom(self, n, r)

-----------------------------------------------------------------------------
(* Building the route.  A filter config either makes NewConfig and        *)
(* Validate succeed or makes NewFilter fail; a sender config records      *)
(* whether it decodes (yaml.Unmarshal of a string or []byte; a            *)
(* SenderConfig value always does) and whether it passes Validate.        *)

FilterConfigs == {"valid", "invalid"}

SenderConfigs ==
    [plugin : {"discord", "test"}, parses : BOOLEAN, valid : BOOLEAN]

\* split.NewFilter: an error from NewConfig (InvalidConfigError) or from
\* Validate, else the filter.
SplitNewFilter(c) == c = "valid"

\* modify.NewFilter: the same two errors, else the filter.
ModifyNewFilter(c) == c = "valid"

\* discord.NewSender: a decode error (InvalidConfigError) or a Validate
\* error, else the sender; initPlugin's error is ignored, and
\* discordgo.New does not fail for a token string.
DiscordNewSender(c) == c.parses /\ c.valid

\* The test plugin's NewSender returns the plugin itself and nil,
\* whatever the sender config: it never rejects a route.
TestNewSender(c) == TRUE

NewSenderOk(c) ==
    IF c.plugin = "discord" THEN DiscordNewSender(c) ELSE TestNewSender(c)

BuildRoute ==
    /\ pc = "build"
    /\ \E sc, mc \in FilterConfigs, dc \in SenderConfigs :
         IF SplitNewFilter(sc) /\ ModifyNewFilter(mc) /\ NewSenderOk(dc)
            THEN pc' = "emit" /\ sender' = dc.plugin
            ELSE pc' = "rejected" /\ UNCHANGED sender
    /\ UNCHANGED <<k, self, parent, payload, outq, rootState, splitOut>>

\* The receiver emits the root event with one of its payloads.
Emit ==
    /\ pc = "emit"
    /\ \E v \in RootPayloads : payload' = [payload EXCEPT ![Root] = v]
    /\ self' = [self EXCEPT ![Root] = "open"]
    /\ pc' = "split"
    /\ UNCHANGED <<sender, k, parent, outq, rootState, splitOut>>

-----------------------------------------------------------------------------
(* split.Filter                                                            *)

\* The array split works on.
SplitArray == GetPathValue(payload[Root], SplitPath)

\* Lines 58-67: a nil object or a non-array at config.Path Nacks the event.
SplitCheck ==
    /\ pc = "split"
    /\ \/ /\ IsArray(SplitArray)
          /\ pc' = "clone" /\ k' = 1
          /\ UNCHANGED <<self, rootState>>
       \/ /\ ~IsArray(SplitArray)
          /\ Terminate(Root, "nacked")
          /\ pc' = "done" /\ UNCHANGED k
    /\ UNCHANGED <<sender, parent, payload, outq, splitOut>>

\* Node states after clone c of the root was created.
Created(c) == [self EXCEPT ![c] = "open"]

\* Mutant: SetPayload is given the whole array instead of its element.
SplitCloneWholeArray ==
    /\ pc = "clone" /\ k <= Len(SplitArray.elems)
    /\ self' = Created(k)
    /\ parent' = [parent EXCEPT ![k] = Root]
    /\ payload' = [payload EXCEPT ![k] = SplitArray]
    /\ splitOut' = Append(splitOut, SplitArray)
    /\ k' = k + 1
    /\ UNCHANGED <<sender, pc, rootState, outq>>

\* Lines 68-80, one iteration: Clone the event (a new child in the ack
\* tree) and SetPayload(p).  Either call may fail: the original is Nacked
\* and Filter returns nil, dropping the clones already made.
SplitClone ==
    /\ pc = "clone" /\ k <= Len(SplitArray.elems)
    /\ \/ \* Clone fails
          /\ Terminate(Root, "nacked")
          /\ pc' = "done" /\ UNCHANGED <<k, parent, payload, splitOut>>
       \/ \* Clone succeeds, SetPayload fails
          /\ TerminateFrom(Created(k), Root, "nacked")
          /\ parent' = [parent EXCEPT ![k] = Root]
          /\ pc' = "done" /\ UNCHANGED <<k, payload, splitOut>>
       \/ \* both succeed
          /\ self' = Created(k)
          /\ parent' = [parent EXCEPT ![k] = Root]
          /\ payload' = [payload EXCEPT ![k] = SplitArray.elems[k]]
          /\ splitOut' = Append(splitOut, SplitArray.elems[k])
          /\ k' = k + 1
          /\ UNCHANGED <<pc, rootState>>
    /\ UNCHANGED <<sender, outq>>

\* Mutant: the loop is left one element early.
SplitEndEarly ==
    /\ pc = "clone"
    /\ k = Len(SplitArray.elems)
    /\ Terminate(Root, "acked")
    /\ outq' = [i \in 1..(k - 1) |-> i]
    /\ pc' = "modify"
    /\ UNCHANGED <<sender, k, parent, payload, splitOut>>

\* Line 81: after the loop the original is Acked and the clones emitted.
SplitEnd ==
    /\ pc = "clone"
    /\ k = Len(SplitArray.elems) + 1
    /\ Terminate(Root, "acked")
    /\ outq' = [i \in 1..(k - 1) |-> i]
    /\ pc' = "modify"
    /\ UNCHANGED <<sender, k, parent, payload, splitOut>>

-----------------------------------------------------------------------------
(* modify.Filter (lines 56-91): for every path, a string value is upper-   *)
(* or lower-cased in place; nil or a non-string is skipped.  The event     *)
(* itself is returned.                                                     *)

ModifyAt(v, p) ==
    LET obj == GetPathValue(v, p)
    IN  IF obj = Nil \/ obj.tag \notin Strings THEN v
        ELSE IF ToUpper THEN SetPathValue(v, p, Scalar("upper"))
        ELSE IF ToLower THEN SetPathValue(v, p, Scalar("lower"))
        ELSE v

ModifyPayload(v) == FoldLeft(ModifyAt, v, ModifyPaths)

Modify ==
    /\ pc = "modify" /\ outq # <<>>
    /\ payload' = [payload EXCEPT ![Head(outq)] = ModifyPayload(@)]
    /\ pc' = "send"
    /\ UNCHANGED <<sender, k, self, parent, outq, rootState, splitOut>>

-----------------------------------------------------------------------------
(* Discord Sender.Send (lines 107-127).  payload.(map[string]interface{})  *)
(* is an unchecked type assertion: on anything but an object it panics.    *)
(* A "content" that is not a string Nacks; otherwise the Discord API call  *)
(* succeeds (Ack) or fails (Nack).                                         *)

DiscordSend ==
    LET n == Head(outq)
        v == payload[n]
    IN  /\ pc = "send" /\ sender = "discord"
        /\ \/ /\ v.tag # "obj"
              /\ pc' = "crashed"
              /\ UNCHANGED <<self, rootState, outq>>
           \/ /\ v.tag = "obj" /\ v.content \notin Strings
              /\ Terminate(n, "nacked")
              /\ outq' = Tail(outq) /\ pc' = "modify"
           \/ /\ v.tag = "obj" /\ v.content \in Strings
              /\ \E r \in {"acked", "nacked"} : Terminate(n, r)
              /\ outq' = Tail(outq) /\ pc' = "modify"
        /\ UNCHANGED <<sender, k, parent, payload, splitOut>>

\* The test plugin's Send (plugin.go 101-103) returns nil: it neither acks
\* nor nacks the event.
TestSend ==
    /\ pc = "send" /\ sender = "test"
    /\ outq' = Tail(outq) /\ pc' = "modify"
    /\ UNCHANGED <<sender, k, self, parent, payload, rootState, splitOut>>

\* The chain has sent every event it emitted.
ChainDone ==
    /\ pc = "modify" /\ outq = <<>>
    /\ pc' = "done"
    /\ UNCHANGED <<sender, k, self, parent, payload, outq, rootState, splitOut>>

\* The root's deadline (the event context's timeout, spec 4.1 and 5): if
\* the root has not terminated, it is nacked with a timeout.  The timer
\* starts with the event and dies with the process.
Deadline ==
    /\ self[Root] # "none" /\ pc # "crashed" /\ rootState = "open"
    /\ rootState' = "nacked"
    /\ UNCHANGED <<sender, pc, k, self, parent, payload, outq, splitOut>>

Init ==
    /\ pc = "build" /\ sender = "none" /\ k = 1
    /\ self = [n \in Nodes |-> "none"]
    /\ parent = [n \in Nodes |-> Root]
    /\ payload = [n \in Nodes |-> Null]
    /\ outq = <<>>
    /\ rootState = "open" /\ splitOut = <<>>

Next ==
    \/ BuildRoute \/ Emit
    \/ SplitCheck \/ SplitClone \/ SplitEnd
    \/ Modify \/ DiscordSend \/ TestSend \/ ChainDone
    \/ Deadline

Spec == Init /\ [][Next]_vars

-----------------------------------------------------------------------------
(***************************************************************************)
(* Properties.                                                             *)
(***************************************************************************)

\* The root is acked only if every event of its tree was acked: no clone
\* that split made, sent or dropped is still open or nacked (spec 8, ack
\* tree).  This is what lets a receiver delete an acked message.
RootAckedOnlyIfAllAcked ==
    rootState = "acked" => \A n \in Nodes : self[n] \in {"none", "acked"}

\* When split acked the original, it emitted one event per array element,
\* in order, each carrying that element as payload (spec 8, split).
SplitEmitsElements ==
    self[Root] = "acked" => splitOut = SplitArray.elems

\* Event processing never panics the pipeline (spec 7: event-processing
\* errors attach to the event's ack tree and never panic the pipeline).
NoPanic == pc # "crashed"
=============================================================================
