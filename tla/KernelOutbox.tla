---------------------------- MODULE KernelOutbox ----------------------------
(***************************************************************************)
(* The outbox of the platform kernel (src/internal/platform/kernel/        *)
(* outbox.go) and its one consumer, the webhook fan-out                    *)
(* (src/internal/webhooks/service.go, ProcessOutbox).                      *)
(*                                                                         *)
(* A row is written in the transaction of the change it announces.  The    *)
(* processors of the topic "webhook.event" list the rows that are due,     *)
(* claim them one UPDATE at a time, and turn each one into a stored event  *)
(* and one delivery for every subscription that is active at that moment.  *)
(* Rows of other topics share the table and have no consumer.              *)
(*                                                                         *)
(* A row is named by its id, its place in the table.  An event has the     *)
(* name of the row that carries it, because Publish makes an event of its  *)
(* own for every row.                                                      *)
(***************************************************************************)
EXTENDS Naturals, Sequences, FiniteSets

CONSTANTS
  Processors,     \* callers of ProcessOutbox: the ticker of the API server and a platform job
  Subscriptions,  \* webhook subscriptions of the tenant
  BatchSize,      \* rows one call may claim
  MaxAttempts,    \* attempts of a row before it is failed
  MaxEvents,      \* bound: webhook events published
  MaxFaults       \* bound: failed statements and crashes

ASSUME OutboxAssumption ==
  /\ BatchSize \in Nat \ {0}
  /\ MaxAttempts \in Nat \ {0}
  /\ MaxEvents \in Nat /\ MaxFaults \in Nat

VARIABLES
  outbox,      \* platform_outbox_events, in the order of their ids
  proc,        \* what each caller of ProcessOutbox holds in memory
  events,      \* webhook_outbox_events: rows whose event was stored
  deliveries,  \* webhook_deliveries with replay key "original": <<event, subscription>>
  faults       \* failed statements and crashes so far

outboxVars == <<outbox, proc, events, deliveries, faults>>

-----------------------------------------------------------------------------
Topics == {"webhook.event", "relay.circuit.transition"}
OutboxStatus == {"pending", "processing", "done", "failed"}

Row == [topic : Topics, status : OutboxStatus, attempts : 0 .. MaxAttempts, due : BOOLEAN]

Ids == DOMAIN outbox

\* INSERT INTO platform_outbox_events: pending, no attempts, due at once.
Enqueue(topic) ==
  outbox' = Append(outbox, [topic |-> topic, status |-> "pending", attempts |-> 0, due |-> TRUE])

\* What a call of ProcessOutbox holds: the ids the SELECT returned and that are
\* still to be claimed, and the rows it claimed, as it read them.
Idle == [pc |-> "idle", ids |-> {}, claimed |-> {}]

HeldBy(p) == {c.id : c \in proc[p].claimed}

\* The row the call is working on: claimed rows are processed in the order of
\* their ids.
Items(p) == {c \in proc[p].claimed : \A d \in proc[p].claimed : c.id <= d.id}

Fault == faults < MaxFaults /\ faults' = faults + 1

OutboxInit ==
  /\ outbox = <<>>
  /\ proc = [p \in Processors |-> Idle]
  /\ events = {} /\ deliveries = {}
  /\ faults = 0

-----------------------------------------------------------------------------
(* Publishers, and time.                                                   *)

Published == {i \in Ids : outbox[i].topic = "webhook.event"}

\* A business change commits together with its webhook event.
Publish ==
  /\ Cardinality(Published) < MaxEvents
  /\ Enqueue("webhook.event")
  /\ UNCHANGED <<proc, events, deliveries, faults>>

\* The backoff of a row that was put back is over: next_attempt_at <= now.
BecomesDue(i) ==
  /\ i \in Ids /\ ~outbox[i].due
  /\ outbox' = [outbox EXCEPT ![i].due = TRUE]
  /\ UNCHANGED <<proc, events, deliveries, faults>>

-----------------------------------------------------------------------------
(* ClaimTopicBatch.                                                        *)

\* Mutant: a row that was tried before is never claimed again.
ClaimableNew(i) ==
  /\ outbox[i].status = "pending"
  /\ outbox[i].attempts = 0
  /\ outbox[i].topic = "webhook.event"

\* WHERE status = 'pending' AND next_attempt_at <= now AND topic = ...
Claimable(i) ==
  /\ outbox[i].status = "pending"
  /\ outbox[i].due
  /\ outbox[i].topic = "webhook.event"

\* ORDER BY id ASC LIMIT BatchSize
FirstClaimable ==
  {i \in Ids : Claimable(i) /\ Cardinality({j \in Ids : j < i /\ Claimable(j)}) < BatchSize}

ListClaimable(p) ==
  /\ proc[p].pc = "idle"
  /\ FirstClaimable # {}
  /\ proc' = [proc EXCEPT ![p].pc = "claim", ![p].ids = FirstClaimable]
  /\ UNCHANGED <<outbox, events, deliveries, faults>>

\* The call after the id i of its list is dealt with: it goes on claiming, or
\* starts on what it claimed, or has nothing to do.
AfterClaim(p, i, claimed) ==
  LET rest == proc[p].ids \ {i} IN
  proc' = [proc EXCEPT ![p] =
    IF rest # {} THEN [pc |-> "claim", ids |-> rest, claimed |-> claimed]
    ELSE IF claimed # {} THEN [pc |-> "work", ids |-> {}, claimed |-> claimed]
    ELSE Idle]

\* The guard of the UPDATE: AND status = 'pending'.
Unclaimed(i) == outbox[i].status = "pending"

\* UPDATE ... SET status = 'processing' WHERE id = ... AND status = 'pending'
ClaimRow(p) ==
  /\ proc[p].pc = "claim"
  /\ \E i \in proc[p].ids :
       /\ \A j \in proc[p].ids : i <= j
       /\ \/ /\ Unclaimed(i)
             /\ outbox' = [outbox EXCEPT ![i].status = "processing"]
             /\ AfterClaim(p, i, proc[p].claimed \union {[id |-> i, attempts |-> outbox[i].attempts]})
          \/ /\ ~Unclaimed(i)
             /\ AfterClaim(p, i, proc[p].claimed)
             /\ UNCHANGED outbox
  /\ UNCHANGED <<events, deliveries, faults>>

\* The UPDATE fails: the call returns without the rows it has already claimed.
ClaimFails(p) ==
  /\ proc[p].pc = "claim"
  /\ Fault
  /\ proc' = [proc EXCEPT ![p] = Idle]
  /\ UNCHANGED <<outbox, events, deliveries>>

\* The row is claimed but cannot be read back: it is skipped.
ReadClaimedFails(p) ==
  /\ proc[p].pc = "claim"
  /\ Fault
  /\ \E i \in proc[p].ids :
       /\ \A j \in proc[p].ids : i <= j
       /\ Unclaimed(i)
       /\ outbox' = [outbox EXCEPT ![i].status = "processing"]
       /\ AfterClaim(p, i, proc[p].claimed)
  /\ UNCHANGED <<events, deliveries>>

-----------------------------------------------------------------------------
(* ProcessOutbox: one transaction for every claimed row.                   *)

\* Mutant: an answered row ends the call.
NextItemReturns(p, c) == proc' = [proc EXCEPT ![p] = Idle]

\* The loop goes on to the next claimed row.
NextItem(p, c) ==
  LET rest == proc[p].claimed \ {c} IN
  proc' = [proc EXCEPT ![p] =
    IF rest = {} THEN Idle ELSE [pc |-> "work", ids |-> {}, claimed |-> rest]]

ToRetry(p) == proc' = [proc EXCEPT ![p].pc = "retry"]

\* Mutant: a repetition fans the event out again.
FanoutAgain(i) ==
  /\ events' = events \union {i}
  /\ \E matches \in SUBSET Subscriptions : deliveries' = deliveries \union ({i} \X matches)

\* InsertEventAndFanoutTx: the event is inserted once; only the transaction that
\* inserts it writes deliveries, one for each subscription that is active and asks
\* for the event at that moment.
InsertEventAndFanout(i) ==
  /\ events' = events \union {i}
  /\ IF i \in events
     THEN UNCHANGED deliveries
     ELSE \E matches \in SUBSET Subscriptions : deliveries' = deliveries \union ({i} \X matches)

MarkDone(i) == outbox' = [outbox EXCEPT ![i].status = "done"]

FanOut(p) ==
  /\ proc[p].pc = "work"
  /\ \E c \in Items(p) : InsertEventAndFanout(c.id) /\ MarkDone(c.id) /\ NextItem(p, c)
  /\ UNCHANGED faults

\* The transaction commits, but the answer to COMMIT is lost.
FanOutUnknown(p) ==
  /\ proc[p].pc = "work"
  /\ Fault
  /\ \E c \in Items(p) : InsertEventAndFanout(c.id) /\ MarkDone(c.id)
  /\ ToRetry(p)

\* A statement of the transaction fails, or the envelope is not valid.
FanOutFails(p) ==
  /\ proc[p].pc = "work"
  /\ Fault
  /\ ToRetry(p)
  /\ UNCHANGED <<outbox, events, deliveries>>

\* No transaction can be opened: the call returns and drops the rest of its batch.
BeginFails(p) ==
  /\ proc[p].pc = "work"
  /\ Fault
  /\ proc' = [proc EXCEPT ![p] = Idle]
  /\ UNCHANGED <<outbox, events, deliveries>>

\* The row is put back, with a backoff, or ends.
PutBack(c, status) ==
  outbox' = [outbox EXCEPT ![c.id].status = status, ![c.id].attempts = c.attempts + 1, ![c.id].due = FALSE]

AfterFailure(c) == IF c.attempts + 1 >= MaxAttempts THEN "failed" ELSE "pending"

\* MarkRetry writes the row by its id alone, whatever its status is.
MarkRetry(p) ==
  /\ proc[p].pc = "retry"
  /\ \E c \in Items(p) : PutBack(c, AfterFailure(c)) /\ NextItem(p, c)
  /\ UNCHANGED <<events, deliveries, faults>>

\* MarkRetry fails; its error is discarded.
MarkRetryFails(p) ==
  /\ proc[p].pc = "retry"
  /\ Fault
  /\ \E c \in Items(p) : NextItem(p, c)
  /\ UNCHANGED <<outbox, events, deliveries>>

\* The process dies: what it held in memory is gone.
ProcessorCrash(p) ==
  /\ proc[p].pc # "idle"
  /\ Fault
  /\ proc' = [proc EXCEPT ![p] = Idle]
  /\ UNCHANGED <<outbox, events, deliveries>>

ProcessOutbox(p) == ListClaimable(p) \/ ClaimRow(p) \/ FanOut(p) \/ MarkRetry(p)

OutboxStep ==
  \/ Publish
  \/ \E i \in Ids : BecomesDue(i)
  \/ \E p \in Processors :
       \/ ListClaimable(p) \/ ClaimRow(p) \/ ClaimFails(p) \/ ReadClaimedFails(p)
       \/ FanOut(p) \/ FanOutUnknown(p) \/ FanOutFails(p) \/ BeginFails(p)
       \/ MarkRetry(p) \/ MarkRetryFails(p)
       \/ ProcessorCrash(p)

=============================================================================
