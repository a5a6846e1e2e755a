---------------------------- MODULE SqsReceiver ----------------------------
(***************************************************************************)
(* The SQS receiver plugin of src/pkg/plugins/sqs/receiver.go.             *)
(*                                                                         *)
(* Four actors share the receiver struct:                                  *)
(*   - the caller's goroutine running Receive (rcvPc), which sets r.done   *)
(*     and r.next, starts the poll goroutine and blocks on <-r.done;       *)
(*   - the poll goroutine (pollPc): ReceiveMessage, one Trigger per        *)
(*     message, batchDone.Wait(), DeleteMessageBatch, and a deferred       *)
(*     send on r.done when it returns;                                     *)
(*   - the caller of StopReceiving (stopPc), which sends on r.done while   *)
(*     holding the receiver's lock;                                        *)
(*   - the route pipeline, which terminates each triggered event with Ack  *)
(*     or Nack (a sender's answer, or the 10 s event-context timeout).     *)
(* The queue itself is abstracted to a state per message.                  *)
(* r.done is an unbuffered channel: a send completes only in a rendezvous  *)
(* with the single receive in Receive.                                     *)
(***************************************************************************)
EXTENDS Integers, Sequences, FiniteSets

CONSTANTS
    Messages,      \* the messages in the SQS queue (model values)
    BadMessages,   \* messages whose body is not JSON (json.Unmarshal fails)
    MaxBatch       \* MaxNumberOfMessages of ReceiveMessage (10 in the code)

ASSUME BadMessages \subseteq Messages /\ MaxBatch \in Nat \ {0}

VARIABLES
    rcvPc,     \* Receive: "notcalled", "waiting" (on <-r.done), "returned"
    pollPc,    \* poll goroutine: "none", "poll", "trigger", "wait", "delete",
               \*   "exitLock", "exitSend", "exited"
    stopPc,    \* StopReceiving: "idle", "lock", "send", "returned"
    lock,      \* holder of the receiver's sync.Mutex: "free", "poller", "stopper"
    doneSet,   \* r.done != nil
    qstate,    \* qstate[m]: "visible", "inflight" or "deleted" in the queue
    batch,     \* sqsResp.Messages of the current poll
    idx,       \* position in batch of the next message the loop handles
    entries,   \* message ids put into the delete batch (the ids map)
    outcome,   \* outcome[i]: event of batch[i]: "none","pending","acked","nacked"
    wg,        \* counter of batchDone (sync.WaitGroup)
    lost       \* history: messages deleted from the queue after a Nack

vars == <<rcvPc, pollPc, stopPc, lock, doneSet, qstate, batch, idx, entries,
          outcome, wg, lost>>

Outcomes == {"none", "pending", "acked", "nacked"}

TypeOK ==
    /\ rcvPc \in {"notcalled", "waiting", "returned"}
    /\ pollPc \in {"none", "poll", "trigger", "wait", "delete", "exitLock",
                   "exitSend", "exited"}
    /\ stopPc \in {"idle", "lock", "send", "returned"}
    /\ lock \in {"free", "poller", "stopper"}
    /\ doneSet \in BOOLEAN
    /\ qstate \in [Messages -> {"visible", "inflight", "deleted"}]
    /\ batch \in Seq(Messages) /\ Len(batch) <= MaxBatch
    /\ idx \in 1..(MaxBatch + 1)
    /\ entries \subseteq Messages
    /\ outcome \in [1..Len(batch) -> Outcomes]
    /\ wg \in Int
    /\ lost \subseteq Messages

Init ==
    /\ rcvPc = "notcalled"
    /\ pollPc = "none"
    /\ stopPc = "idle"
    /\ lock = "free"
    /\ doneSet = FALSE
    /\ qstate = [m \in Messages |-> "visible"]
    /\ batch = <<>>
    /\ idx = 1
    /\ entries = {}
    /\ outcome = <<>>
    /\ wg = 0
    /\ lost = {}

-----------------------------------------------------------------------------
(* Receive(next), up to <-r.done: under the lock r.done = make(chan) and   *)
(* r.next = next; then the AWS session is created.  A session or          *)
(* credentials error returns that error with r.done already set and no    *)
(* poll goroutine; otherwise the goroutine starts and Receive blocks.      *)
ReceiveStart ==
    /\ rcvPc = "notcalled"
    /\ lock = "free"
    /\ doneSet' = TRUE
    /\ \/ /\ rcvPc' = "waiting"
          /\ pollPc' = "poll"
       \/ /\ rcvPc' = "returned"
          /\ UNCHANGED pollPc
    /\ UNCHANGED <<stopPc, lock, qstate, batch, idx, entries, outcome, wg,
                   lost>>

(* Mutant: ReceiveMessage hands back one message more than               *)
(* MaxNumberOfMessages.                                                  *)
PollMessagesOffByOne ==
    /\ pollPc = "poll"
    /\ \/ \E n \in 0..(MaxBatch + 1) :
            \E b \in [1..n -> {m \in Messages : qstate[m] = "visible"}] :
                /\ batch' = b
                /\ qstate' = [m \in Messages |->
                                IF \E i \in 1..n : b[i] = m THEN "inflight"
                                ELSE qstate[m]]
                /\ outcome' = [i \in 1..n |-> "none"]
                /\ wg' = n
                /\ idx' = 1
                /\ entries' = {}
                /\ pollPc' = IF n = 0 THEN "wait" ELSE "trigger"
       \/ /\ pollPc' = "exitLock"
          /\ UNCHANGED <<qstate, batch, idx, entries, outcome, wg>>
    /\ UNCHANGED <<rcvPc, stopPc, lock, doneSet, lost>>

(* Mutant: batchDone.Add counts distinct message ids (len(entries))      *)
(* instead of len(sqsResp.Messages).                                     *)
PollMessagesAddUnique ==
    /\ pollPc = "poll"
    /\ \/ \E n \in 0..MaxBatch :
            \E b \in [1..n -> {m \in Messages : qstate[m] = "visible"}] :
                /\ batch' = b
                /\ qstate' = [m \in Messages |->
                                IF \E i \in 1..n : b[i] = m THEN "inflight"
                                ELSE qstate[m]]
                /\ outcome' = [i \in 1..n |-> "none"]
                /\ wg' = Cardinality({b[i] : i \in 1..n})
                /\ idx' = 1
                /\ entries' = {}
                /\ pollPc' = IF n = 0 THEN "wait" ELSE "trigger"
       \/ /\ pollPc' = "exitLock"
          /\ UNCHANGED <<qstate, batch, idx, entries, outcome, wg>>
    /\ UNCHANGED <<rcvPc, stopPc, lock, doneSet, lost>>

(* svc.ReceiveMessage: up to MaxBatch visible messages, possibly none and *)
(* possibly the same message twice (the code dedups entries by id), which *)
(* become in flight; batchDone.Add(len(sqsResp.Messages)).  An error ends *)
(* the goroutine ("return // pause and continue? logging?").              *)
PollMessages ==
    /\ pollPc = "poll"
    /\ \/ \E n \in 0..MaxBatch :
            \E b \in [1..n -> {m \in Messages : qstate[m] = "visible"}] :
                /\ batch' = b
                /\ qstate' = [m \in Messages |->
                                IF \E i \in 1..n : b[i] = m THEN "inflight"
                                ELSE qstate[m]]
                /\ outcome' = [i \in 1..n |-> "none"]
                /\ wg' = n
                /\ idx' = 1
                /\ entries' = {}
                /\ pollPc' = IF n = 0 THEN "wait" ELSE "trigger"
       \/ /\ pollPc' = "exitLock"
          /\ UNCHANGED <<qstate, batch, idx, entries, outcome, wg>>
    /\ UNCHANGED <<rcvPc, stopPc, lock, doneSet, lost>>

(* Mutant: the event is created and triggered only for the first        *)
(* occurrence of an id, inside the "if !ids[...]" block.                 *)
TriggerFirstOccurrenceOnly ==
    /\ pollPc = "trigger"
    /\ batch[idx] \notin BadMessages
    /\ lock = "free"
    /\ entries' = entries \cup {batch[idx]}
    /\ outcome' = IF batch[idx] \in entries THEN outcome
                   ELSE [outcome EXCEPT ![idx] = "pending"]
    /\ idx' = idx + 1
    /\ pollPc' = IF idx = Len(batch) THEN "wait" ELSE "trigger"
    /\ UNCHANGED <<rcvPc, stopPc, lock, doneSet, qstate, batch, wg, lost>>

(* One iteration of the loop over sqsResp.Messages with a JSON body: the *)
(* id joins the delete entries, the event is created with ack callbacks  *)
(* that call batchDone.Done, and r.Trigger(e) reads r.next under the lock *)
(* and hands the event to the pipeline.                                  *)
TriggerMessage ==
    /\ pollPc = "trigger"
    /\ batch[idx] \notin BadMessages
    /\ lock = "free"
    /\ entries' = entries \cup {batch[idx]}
    /\ outcome' = [outcome EXCEPT ![idx] = "pending"]
    /\ idx' = idx + 1
    /\ pollPc' = IF idx = Len(batch) THEN "wait" ELSE "trigger"
    /\ UNCHANGED <<rcvPc, stopPc, lock, doneSet, qstate, batch, wg, lost>>

(* json.Unmarshal of a message body fails: the goroutine returns in the  *)
(* middle of the batch, with no Wait and no delete.                      *)
UnmarshalFail ==
    /\ pollPc = "trigger"
    /\ batch[idx] \in BadMessages
    /\ pollPc' = "exitLock"
    /\ UNCHANGED <<rcvPc, stopPc, lock, doneSet, qstate, batch, idx, entries,
                   outcome, wg, lost>>

(* batchDone.Wait() returns once the counter is zero; the batch is       *)
(* deleted only if it has entries.                                       *)
BatchWait ==
    /\ pollPc = "wait"
    /\ wg = 0
    /\ pollPc' = IF entries # {} THEN "delete" ELSE "poll"
    /\ UNCHANGED <<rcvPc, stopPc, lock, doneSet, qstate, batch, idx, entries,
                   outcome, wg, lost>>

(* The messages of a batch whose event was Nacked.                       *)
NackedInBatch == {batch[i] : i \in {j \in DOMAIN outcome : outcome[j] = "nacked"}}

(* svc.DeleteMessageBatch(entries): every entry leaves the queue, whether *)
(* its event was acked or nacked.  An error ends the goroutine.           *)
DeleteBatch ==
    /\ pollPc = "delete"
    /\ \/ /\ qstate' = [m \in Messages |->
                          IF m \in entries THEN "deleted" ELSE qstate[m]]
          /\ lost' = lost \cup (entries \cap NackedInBatch)
          /\ pollPc' = "poll"
       \/ /\ pollPc' = "exitLock"
          /\ UNCHANGED <<qstate, lost>>
    /\ UNCHANGED <<rcvPc, stopPc, lock, doneSet, batch, idx, entries, outcome,
                   wg>>

(* The deferred function of the goroutine: r.Lock(); if r.done != nil,    *)
(* send on it (still holding the lock); r.Unlock().                      *)
PollerExitLock ==
    /\ pollPc = "exitLock"
    /\ lock = "free"
    /\ IF doneSet
          THEN /\ lock' = "poller"
               /\ pollPc' = "exitSend"
          ELSE /\ pollPc' = "exited"
               /\ UNCHANGED lock
    /\ UNCHANGED <<rcvPc, stopPc, doneSet, qstate, batch, idx, entries,
                   outcome, wg, lost>>

(* The deferred send meets <-r.done in Receive, which returns nil.       *)
PollerExitSend ==
    /\ pollPc = "exitSend"
    /\ rcvPc = "waiting"
    /\ rcvPc' = "returned"
    /\ pollPc' = "exited"
    /\ lock' = "free"
    /\ UNCHANGED <<stopPc, doneSet, qstate, batch, idx, entries, outcome, wg,
                   lost>>

-----------------------------------------------------------------------------
(* StopReceiving(ctx): r.Lock(); if r.done != nil send on it; r.Unlock(). *)
(* The ctx is not used.                                                  *)
StopCall ==
    /\ stopPc = "idle"
    /\ stopPc' = "lock"
    /\ UNCHANGED <<rcvPc, pollPc, lock, doneSet, qstate, batch, idx, entries,
                   outcome, wg, lost>>

StopLock ==
    /\ stopPc = "lock"
    /\ lock = "free"
    /\ IF doneSet
          THEN /\ lock' = "stopper"
               /\ stopPc' = "send"
          ELSE /\ stopPc' = "returned"
               /\ UNCHANGED lock
    /\ UNCHANGED <<rcvPc, pollPc, doneSet, qstate, batch, idx, entries,
                   outcome, wg, lost>>

StopSend ==
    /\ stopPc = "send"
    /\ rcvPc = "waiting"
    /\ rcvPc' = "returned"
    /\ stopPc' = "returned"
    /\ lock' = "free"
    /\ UNCHANGED <<pollPc, doneSet, qstate, batch, idx, entries, outcome, wg,
                   lost>>

-----------------------------------------------------------------------------
(* The pipeline terminates a triggered event: Ack and Nack both run the  *)
(* receiver's callback, which calls batchDone.Done().                    *)
EventAck(i) ==
    /\ i \in DOMAIN outcome
    /\ outcome[i] = "pending"
    /\ outcome' = [outcome EXCEPT ![i] = "acked"]
    /\ wg' = wg - 1
    /\ UNCHANGED <<rcvPc, pollPc, stopPc, lock, doneSet, qstate, batch, idx,
                   entries, lost>>

EventNack(i) ==
    /\ i \in DOMAIN outcome
    /\ outcome[i] = "pending"
    /\ outcome' = [outcome EXCEPT ![i] = "nacked"]
    /\ wg' = wg - 1
    /\ UNCHANGED <<rcvPc, pollPc, stopPc, lock, doneSet, qstate, batch, idx,
                   entries, lost>>

(* The 10 s VisibilityTimeout of an undeleted in-flight message elapses. *)
VisibilityExpire(m) ==
    /\ qstate[m] = "inflight"
    /\ qstate' = [qstate EXCEPT ![m] = "visible"]
    /\ UNCHANGED <<rcvPc, pollPc, stopPc, lock, doneSet, batch, idx, entries,
                   outcome, wg, lost>>

-----------------------------------------------------------------------------
Poller ==
    \/ PollMessages \/ TriggerMessage \/ UnmarshalFail \/ BatchWait
    \/ DeleteBatch \/ PollerExitLock \/ PollerExitSend

Stopper == StopCall \/ StopLock \/ StopSend

Pipeline == \E i \in 1..MaxBatch : EventAck(i) \/ EventNack(i)

Next ==
    \/ ReceiveStart
    \/ Poller
    \/ Stopper
    \/ Pipeline
    \/ \E m \in Messages : VisibilityExpire(m)

(* Each goroutine is scheduled (weak fairness on its steps).  Every      *)
(* triggered event terminates: the event context times out after 10 s if *)
(* no sender answers.  The caller may never call StopReceiving, and the  *)
(* queue's visibility timeout is not relied on.                          *)
Fairness ==
    /\ WF_vars(ReceiveStart)
    /\ WF_vars(TriggerMessage) /\ WF_vars(UnmarshalFail) /\ WF_vars(BatchWait)
    /\ WF_vars(PollerExitLock) /\ WF_vars(PollerExitSend)
    /\ WF_vars(StopLock) /\ WF_vars(StopSend)
    /\ \A i \in 1..MaxBatch : WF_vars(EventAck(i) \/ EventNack(i))

Spec == Init /\ [][Next]_vars /\ Fairness

-----------------------------------------------------------------------------
(* PROPERTIES *)

(* The batch is deleted from the queue only after the event of every     *)
(* message in it was acked or nacked: batchDone counts every message,    *)
(* duplicates included, and every callback calls Done exactly once, so   *)
(* the counter never goes negative and Wait never returns early.         *)
DeleteAfterAllTerminated ==
    /\ wg >= 0
    /\ pollPc = "delete" =>
         \A i \in DOMAIN outcome : outcome[i] \in {"acked", "nacked"}

(* batchDone.Wait() always returns: every message of a batch that was    *)
(* fully triggered gets an event whose callback runs, so the poll loop   *)
(* never blocks for good on a batch.                                     *)
BatchWaitReturns == (pollPc = "wait") ~> (pollPc # "wait")

(* At-least-once delivery: a message whose event was nacked stays in the *)
(* queue (and is received again after the visibility timeout).           *)
NackedMessageKept == lost = {}


(* StopReceiving stops the receiver (spec 4.4: when the receiver's last  *)
(* holder leaves, its Receive goroutine terminates): once it is called,  *)
(* StopReceiving returns, Receive returns, and the poll goroutine has    *)
(* ended, so no event reaches the pipeline any more.  Broken if the poll *)
(* loop never looks at r.done, if StopReceiving blocks on r.done after   *)
(* Receive has gone, or if it returns before Receive has set r.done.     *)
StopReceivingStops ==
    (stopPc # "idle") ~>
        (stopPc = "returned" /\ rcvPc = "returned" /\ pollPc \in {"none", "exited"})

(* A RECEIVER ERROR is logged and polling continues (spec 9 prescribes   *)
(* log-and-continue with a bounded backoff, not terminate): the poll     *)
(* goroutine never ends on a ReceiveMessage, Unmarshal or               *)
(* DeleteMessageBatch error.                                             *)
PollerSurvivesErrors == pollPc \notin {"exitLock", "exitSend", "exited"}
=============================================================================
