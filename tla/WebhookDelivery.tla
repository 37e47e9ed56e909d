-------------------------- MODULE WebhookDelivery --------------------------
(***************************************************************************)
(* Webhook deliveries: an event is fanned out to the subscriptions of its  *)
(* tenant as delivery rows; processors (the ticker of every server process *)
(* and the platform job) lease batches of rows, post them to the endpoint  *)
(* one after the other and record each result under the lease token.       *)
(* Administrators update, suspend and replay meanwhile.                    *)
(*                                                                         *)
(* Each SQL statement is one step.  A processor holds at most one lease of *)
(* a row at a time, so the owner of a lease stands for its random token.   *)
(* The log of attempts is written and never read, and is left out; so is   *)
(* the kernel outbox in front of FanOut.                                   *)
(***************************************************************************)
EXTENDS Integers, FiniteSets

CONSTANTS
    Events,
    Subs,         \* subscriptions of the events' tenant, to all of them
    Processors,
    NoRow,
    NoOwner,      \* lease_token is ''
    NoSub,
    MaxAttempts,  \* maxAttempts of the service
    SuspendAfter, \* suspendAfter of the service
    MaxReplays,   \* bound: manual replays in all
    MaxTaken,     \* bound: leases of a row that expire under a live processor
    MaxCrashes,   \* bound: crashes and failing statements
    MaxAdmin      \* bound: updates of subscriptions

ASSUME SetsAssumption == IsFiniteSet(Events) /\ IsFiniteSet(Subs) /\ IsFiniteSet(Processors)
ASSUME LimitsAssumption == MaxAttempts \in Nat \ {0} /\ SuspendAfter \in Nat \ {0}
ASSUME BoundsAssumption ==
    MaxReplays \in Nat /\ MaxTaken \in Nat /\ MaxCrashes \in Nat /\ MaxAdmin \in Nat

\* The unique index on event, subscription and replay key: each row has at
\* most one manual replay, so a row is known by the replays it descends from.
Rows == Events \X Subs \X (0..MaxReplays)
Sub(d) == d[2]
ReplayOf(d) == <<d[1], d[2], d[3] + 1>>

ASSUME NamesAssumption == NoRow \notin Rows /\ NoOwner \notin Processors /\ NoSub \notin Subs

VARIABLES
    fanned,       \* events of webhook_outbox_events
    \* webhook_deliveries
    status,
    attempts,
    due,          \* next_attempt_at is NULL or past
    leaseOwner,
    leaseExpired,
    \* webhook_subscriptions
    active,
    suspended,
    deleted,
    failures,     \* failure_count, up to SuspendAfter
    \* each processor
    pc,
    todo,         \* rows its SELECT returned and it has not tried to lease yet
    batch,        \* rows it has leased and not started yet
    seen,         \* AttemptCount of the rows it has leased
    current,
    result,
    sawSuspended,
    \* an administrator between reading a subscription and writing it
    admin,
    \* history
    posts,        \* requests sent to the endpoint
    accepted,     \* rows a 2xx of the endpoint was read for
    taken,        \* times an expired lease was taken over
    crashes,
    updates

rowVars == <<status, attempts, due, leaseOwner, leaseExpired>>
subVars == <<active, suspended, deleted, failures>>
processorVars == <<pc, todo, batch, seen, current, result, sawSuspended>>
historyVars == <<posts, accepted, taken, crashes, updates>>
vars == <<fanned, rowVars, subVars, processorVars, admin, historyVars>>

Settled == {"delivered", "terminal"}
Status == {"absent", "pending", "retrying", "processing"} \cup Settled
AdminIdle == [op |-> "none", sub |-> NoSub, suspended |-> FALSE, failures |-> 0, fresh |-> FALSE]
\* fresh: the version of the subscription is the one that was read.
Administrations ==
    [op : {"none", "update", "reactivate"}, sub : Subs \cup {NoSub},
     suspended : BOOLEAN, failures : 0..SuspendAfter, fresh : BOOLEAN]

\* What a delivery or a fan-out asks of a subscription.
Receives(s) == active[s] /\ ~suspended[s] /\ ~deleted[s]

TypeOK ==
    /\ fanned \subseteq Events
    /\ status \in [Rows -> Status]
    /\ attempts \in [Rows -> Nat]
    /\ due \in [Rows -> BOOLEAN]
    /\ leaseOwner \in [Rows -> Processors \cup {NoOwner}]
    /\ leaseExpired \in [Rows -> BOOLEAN]
    /\ active \in [Subs -> BOOLEAN]
    /\ suspended \in [Subs -> BOOLEAN]
    /\ deleted \in [Subs -> BOOLEAN]
    /\ failures \in [Subs -> 0..SuspendAfter]
    /\ pc \in [Processors -> {"idle", "batch", "posting", "recording", "resetting", "reading",
                              "counting", "stopping"}]
    /\ todo \in [Processors -> SUBSET Rows]
    /\ batch \in [Processors -> SUBSET Rows]
    /\ seen \in [Processors -> [Rows -> Nat]]
    /\ current \in [Processors -> Rows \cup {NoRow}]
    /\ result \in [Processors -> {"none", "delivered", "retryable", "refused"}]
    /\ sawSuspended \in [Processors -> BOOLEAN]
    /\ admin \in Administrations
    /\ posts \in [Rows -> Nat]
    /\ accepted \subseteq Rows
    /\ taken \in [Rows -> Nat]
    /\ crashes \in Nat
    /\ updates \in Nat
    /\ \A p \in Processors : pc[p] \notin {"idle", "batch"} => current[p] \in Rows
    /\ admin.op # "none" => admin.sub \in Subs

\* The subscriptions have been created.
Init ==
    /\ fanned = {}
    /\ status = [d \in Rows |-> "absent"]
    /\ attempts = [d \in Rows |-> 0]
    /\ due = [d \in Rows |-> FALSE]
    /\ leaseOwner = [d \in Rows |-> NoOwner]
    /\ leaseExpired = [d \in Rows |-> FALSE]
    /\ active = [s \in Subs |-> TRUE]
    /\ suspended = [s \in Subs |-> FALSE]
    /\ deleted = [s \in Subs |-> FALSE]
    /\ failures = [s \in Subs |-> 0]
    /\ pc = [p \in Processors |-> "idle"]
    /\ todo = [p \in Processors |-> {}]
    /\ batch = [p \in Processors |-> {}]
    /\ seen = [p \in Processors |-> [d \in Rows |-> 0]]
    /\ current = [p \in Processors |-> NoRow]
    /\ result = [p \in Processors |-> "none"]
    /\ sawSuspended = [p \in Processors |-> FALSE]
    /\ admin = AdminIdle
    /\ posts = [d \in Rows |-> 0]
    /\ accepted = {}
    /\ taken = [d \in Rows |-> 0]
    /\ crashes = 0
    /\ updates = 0

----------------------------------------------------------------------------
(* The rows: fan-out and manual replay.                                    *)

Insert(D) ==
    /\ status' = [d \in Rows |-> IF d \in D THEN "pending" ELSE status[d]]
    /\ due' = [d \in Rows |-> d \in D \/ due[d]]
    /\ UNCHANGED <<attempts, leaseOwner, leaseExpired>>

\* InsertEventAndFanoutTx, one transaction.
FanOut(e) ==
    /\ e \notin fanned
    /\ fanned' = fanned \cup {e}
    /\ Insert({<<e, s, 0>> : s \in {s \in Subs : Receives(s)}})
    /\ UNCHANGED <<subVars, processorVars, admin, historyVars>>

\* ReplayForTenant: the row is read first, but a terminal row stays terminal.
Replay(d) ==
    /\ status[d] = "terminal"
    /\ Cardinality({r \in Rows : r[3] > 0 /\ status[r] # "absent"}) < MaxReplays
    /\ status[ReplayOf(d)] = "absent"
    /\ Insert({ReplayOf(d)})
    /\ UNCHANGED <<fanned, subVars, processorVars, admin, historyVars>>

----------------------------------------------------------------------------
(* A processor leases a batch.                                             *)

Idle(p) ==
    /\ pc' = [pc EXCEPT ![p] = "idle"]
    /\ todo' = [todo EXCEPT ![p] = {}]
    /\ batch' = [batch EXCEPT ![p] = {}]
    /\ seen' = [seen EXCEPT ![p] = [d \in Rows |-> 0]]
    /\ current' = [current EXCEPT ![p] = NoRow]
    /\ result' = [result EXCEPT ![p] = "none"]
    /\ sawSuspended' = [sawSuspended EXCEPT ![p] = FALSE]

\* Mutant: rows whose processor is gone are not leased again.
ClaimableNew(d) == status[d] \in {"pending", "retrying"} /\ due[d]

Claimable(d) ==
    \/ status[d] \in {"pending", "retrying"} /\ due[d]
    \/ status[d] = "processing" /\ leaseExpired[d]

\* The SELECT of ClaimDeliveries, whose LIMIT is beyond these instances.
SelectDue(p) ==
    /\ pc[p] = "idle"
    /\ \E d \in Rows : Claimable(d)
    /\ pc' = [pc EXCEPT ![p] = "batch"]
    /\ todo' = [todo EXCEPT ![p] = {d \in Rows : Claimable(d)}]
    /\ UNCHANGED <<fanned, rowVars, subVars, batch, seen, current, result, sawSuspended,
                   admin, historyVars>>

\* Mutant: the UPDATE relies on the SELECT.
StillSelected(d) == TRUE

\* The UPDATE rechecks the conditions of the SELECT, at the SELECT's time: it
\* succeeds no more often than here.
StillClaimable(d) == Claimable(d)

Claim(p, d) ==
    /\ pc[p] = "batch" /\ d \in todo[p]
    /\ StillClaimable(d)
    /\ todo' = [todo EXCEPT ![p] = @ \ {d}]
    /\ batch' = [batch EXCEPT ![p] = @ \cup {d}]
    /\ seen' = [seen EXCEPT ![p][d] = attempts[d]]
    /\ status' = [status EXCEPT ![d] = "processing"]
    /\ leaseOwner' = [leaseOwner EXCEPT ![d] = p]
    /\ leaseExpired' = [leaseExpired EXCEPT ![d] = FALSE]
    /\ taken' = IF status[d] = "processing" /\ leaseExpired[d]
                THEN [taken EXCEPT ![d] = @ + 1] ELSE taken
    /\ UNCHANGED <<fanned, attempts, due, subVars, pc, current, result, sawSuspended, admin,
                   posts, accepted, crashes, updates>>

LoseClaim(p, d) ==
    /\ pc[p] = "batch" /\ d \in todo[p]
    /\ ~StillClaimable(d)
    /\ todo' = [todo EXCEPT ![p] = @ \ {d}]
    /\ pc' = [pc EXCEPT ![p] = IF todo[p] = {d} /\ batch[p] = {} THEN "idle" ELSE "batch"]
    /\ UNCHANGED <<fanned, rowVars, subVars, batch, seen, current, result, sawSuspended,
                   admin, historyVars>>

----------------------------------------------------------------------------
(* deliver, for one row of the batch after the other.                      *)

GoTo(p, step) ==
    /\ pc' = [pc EXCEPT ![p] = step]
    /\ UNCHANGED <<todo, batch, seen, current, result, sawSuspended>>

\* deliver returns, with or without an error.
GoNext(p) ==
    /\ pc' = [pc EXCEPT ![p] = IF batch[p] = {} THEN "idle" ELSE "batch"]
    /\ seen' = [seen EXCEPT ![p] = [d \in Rows |-> IF d \in batch[p] THEN @[d] ELSE 0]]
    /\ current' = [current EXCEPT ![p] = NoRow]
    /\ result' = [result EXCEPT ![p] = "none"]
    /\ sawSuspended' = [sawSuspended EXCEPT ![p] = FALSE]
    /\ UNCHANGED <<todo, batch>>

\* The next row of the batch: the event, the subscription, the destination and
\* the secret are read and checked.  A failing read counts as a refusal, like
\* an unfit subscription.
Check(p) ==
    /\ pc[p] = "batch" /\ todo[p] = {}
    /\ \E d \in batch[p] :
        /\ current' = [current EXCEPT ![p] = d]
        /\ batch' = [batch EXCEPT ![p] = @ \ {d}]
        /\ \/ /\ Receives(Sub(d))
              /\ pc' = [pc EXCEPT ![p] = "posting"]
              /\ UNCHANGED result
           \/ /\ pc' = [pc EXCEPT ![p] = "recording"]
              /\ result' = [result EXCEPT ![p] = "refused"]
    /\ UNCHANGED <<fanned, rowVars, subVars, todo, seen, sawSuspended, admin, historyVars>>

Succeeds(answer) == answer = "2xx"

\* "retry" is 408, 425, 429 or 5xx; "lost" a connection or an answer that is
\* lost, or an answer that is too long.
Post(p) ==
    LET d == current[p] IN
    /\ pc[p] = "posting"
    /\ posts' = [posts EXCEPT ![d] = @ + 1]
    /\ \E answer \in {"2xx", "3xx", "4xx", "retry", "lost"} :
        /\ accepted' = IF answer = "2xx" THEN accepted \cup {d} ELSE accepted
        /\ result' = [result EXCEPT ![p] =
                        IF Succeeds(answer) THEN "delivered"
                        ELSE IF answer \in {"retry", "lost"} THEN "retryable" ELSE "refused"]
    /\ pc' = [pc EXCEPT ![p] = "recording"]
    /\ UNCHANGED <<fanned, rowVars, subVars, todo, batch, seen, current, sawSuspended, admin,
                   taken, crashes, updates>>

\* The guard of CompleteDelivery.
Fenced(p) == status[current[p]] = "processing" /\ leaseOwner[current[p]] = p

\* Mutant: one attempt more.
PastLastAttempt(p) == seen[p][current[p]] + 1 > MaxAttempts

LastAttempt(p) == seen[p][current[p]] + 1 >= MaxAttempts

Outcome(p) ==
    IF result[p] = "delivered" THEN "delivered"
    ELSE IF result[p] = "refused" \/ LastAttempt(p) THEN "terminal" ELSE "retrying"

\* CompleteDelivery.
Record(p) ==
    /\ pc[p] = "recording"
    /\ Fenced(p)
    /\ status' = [status EXCEPT ![current[p]] = Outcome(p)]
    /\ attempts' = [attempts EXCEPT ![current[p]] = @ + 1]
    /\ due' = [due EXCEPT ![current[p]] = Outcome(p) # "retrying"]
    /\ leaseOwner' = [leaseOwner EXCEPT ![current[p]] = NoOwner]
    /\ leaseExpired' = [leaseExpired EXCEPT ![current[p]] = FALSE]
    /\ GoTo(p, IF result[p] = "delivered" THEN "resetting" ELSE "reading")
    /\ UNCHANGED <<fanned, subVars, admin, historyVars>>

\* ErrLeaseLost.
RecordRefused(p) ==
    /\ pc[p] = "recording"
    /\ ~Fenced(p)
    /\ GoNext(p)
    /\ UNCHANGED <<fanned, rowVars, subVars, admin, historyVars>>

\* The version of s changes under an administrator who has read it.
Bump(s) == admin' = [admin EXCEPT !.fresh = @ /\ admin.sub # s]

ResetFailures(p) ==
    LET s == Sub(current[p]) IN
    /\ pc[p] = "resetting"
    /\ IF failures[s] # 0 /\ ~deleted[s]
       THEN failures' = [failures EXCEPT ![s] = 0] /\ Bump(s)
       ELSE UNCHANGED <<failures, admin>>
    /\ GoNext(p)
    /\ UNCHANGED <<fanned, rowVars, active, suspended, deleted, historyVars>>

\* finishFailure reads the subscription before it counts the failure.
ReadSubscription(p) ==
    LET s == Sub(current[p]) IN
    /\ pc[p] = "reading"
    /\ IF deleted[s]
       THEN GoNext(p)
       ELSE /\ pc' = [pc EXCEPT ![p] = "counting"]
            /\ sawSuspended' = [sawSuspended EXCEPT ![p] = suspended[s]]
            /\ UNCHANGED <<todo, batch, seen, current, result>>
    /\ UNCHANGED <<fanned, rowVars, subVars, admin, historyVars>>

RecordFailure(p) ==
    LET s == Sub(current[p]) IN
    /\ pc[p] = "counting"
    /\ IF deleted[s]
       THEN GoNext(p) /\ UNCHANGED <<failures, suspended, admin>>
       ELSE /\ failures' = [failures EXCEPT ![s] = IF @ = SuspendAfter THEN @ ELSE @ + 1]
            /\ suspended' = [suspended EXCEPT ![s] = @ \/ failures[s] + 1 >= SuspendAfter]
            /\ Bump(s)
            /\ IF sawSuspended[p] THEN GoTo(p, "stopping") ELSE GoNext(p)
    /\ UNCHANGED <<fanned, rowVars, active, deleted, historyVars>>

\* Mutant: the row is stopped whatever became of it.
StoppableAnyway(d) == TRUE

Stoppable(d) == status[d] = "retrying"

\* The row of a subscription that is suspended is not retried.
StopRetrying(p) ==
    /\ pc[p] = "stopping"
    /\ IF Stoppable(current[p])
       THEN /\ status' = [status EXCEPT ![current[p]] = "terminal"]
            /\ due' = [due EXCEPT ![current[p]] = TRUE]
       ELSE UNCHANGED <<status, due>>
    /\ GoNext(p)
    /\ UNCHANGED <<fanned, attempts, leaseOwner, leaseExpired, subVars, admin, historyVars>>

----------------------------------------------------------------------------
(* Administrators.  An update is a read and a write guarded by the version *)
(* that was read.                                                          *)

ReadForUpdate(s, op) ==
    /\ admin.op = "none" /\ ~deleted[s] /\ updates < MaxAdmin
    /\ admin' = [op |-> op, sub |-> s, suspended |-> suspended[s], failures |-> failures[s],
                 fresh |-> TRUE]
    /\ updates' = updates + 1
    /\ UNCHANGED <<fanned, rowVars, subVars, processorVars, posts, accepted, taken, crashes>>

\* Mutant: the last writer wins.
AnyVersion == TRUE

VersionMatches == admin.fresh

\* UpdateSubscription of the repository, for UpdateSubscription, Disable and
\* RotateSecretForTenant ("update") and for ReactivateForTenant.
UpdateSubscription ==
    LET s == admin.sub IN
    /\ admin.op # "none"
    /\ admin' = AdminIdle
    /\ \/ /\ VersionMatches
          /\ \E a \in BOOLEAN :
              /\ admin.op = "reactivate" => a
              /\ active' = [active EXCEPT ![s] = a]
          /\ suspended' = [suspended EXCEPT ![s] = admin.op = "update" /\ admin.suspended]
          /\ failures' = [failures EXCEPT ![s] = IF admin.op = "update" THEN admin.failures ELSE 0]
       \/ ~VersionMatches /\ UNCHANGED <<active, suspended, failures>>
    /\ UNCHANGED <<fanned, rowVars, deleted, processorVars, historyVars>>

DeleteSubscription(s) ==
    /\ ~deleted[s]
    /\ active' = [active EXCEPT ![s] = FALSE]
    /\ deleted' = [deleted EXCEPT ![s] = TRUE]
    /\ UNCHANGED <<fanned, rowVars, suspended, failures, processorVars, admin, historyVars>>

----------------------------------------------------------------------------
(* Time and failures.                                                      *)

BackoffElapses(d) ==
    /\ status[d] = "retrying" /\ ~due[d]
    /\ due' = [due EXCEPT ![d] = TRUE]
    /\ UNCHANGED <<fanned, status, attempts, leaseOwner, leaseExpired, subVars, processorVars,
                   admin, historyVars>>

Attends(p, d) == d \in batch[p] \/ (current[p] = d /\ pc[p] \in {"posting", "recording"})

LeaseExpires(d) ==
    /\ status[d] = "processing" /\ ~leaseExpired[d]
    /\ (\E p \in Processors : leaseOwner[d] = p /\ Attends(p, d)) => taken[d] < MaxTaken
    /\ leaseExpired' = [leaseExpired EXCEPT ![d] = TRUE]
    /\ UNCHANGED <<fanned, status, attempts, due, leaseOwner, subVars, processorVars, admin,
                   historyVars>>

\* InsertAttempt fails, and the row keeps its lease.
Drop(p, d) ==
    /\ batch' = [batch EXCEPT ![p] = @ \ {d}]
    /\ seen' = [seen EXCEPT ![p][d] = 0]
    /\ pc' = [pc EXCEPT ![p] = IF batch[p] = {d} THEN "idle" ELSE "batch"]
    /\ UNCHANGED <<todo, current, result, sawSuspended>>

\* A statement fails: ClaimDeliveries gives up the rest of the batch and what
\* it has leased, deliver only its row.
StatementFails(p) ==
    /\ crashes < MaxCrashes /\ crashes' = crashes + 1
    /\ \/ pc[p] = "batch" /\ todo[p] # {} /\ Idle(p)
       \/ /\ pc[p] = "batch" /\ todo[p] = {}
          /\ \E d \in batch[p] : Drop(p, d)
       \/ /\ pc[p] \in {"recording", "resetting", "reading", "counting", "stopping"}
          /\ GoNext(p)
    /\ UNCHANGED <<fanned, rowVars, subVars, admin, posts, accepted, taken, updates>>

Crash(p) ==
    /\ crashes < MaxCrashes /\ crashes' = crashes + 1
    /\ pc[p] # "idle"
    /\ Idle(p)
    /\ UNCHANGED <<fanned, rowVars, subVars, admin, posts, accepted, taken, updates>>

DeliveryStep(p) ==
    \/ Check(p)
    \/ Post(p)
    \/ Record(p)
    \/ RecordRefused(p)
    \/ ResetFailures(p)
    \/ ReadSubscription(p)
    \/ RecordFailure(p)
    \/ StopRetrying(p)

ProcessorStep(p) ==
    \/ SelectDue(p)
    \/ \E d \in Rows : Claim(p, d) \/ LoseClaim(p, d)
    \/ DeliveryStep(p)

AdminStep ==
    \/ \E s \in Subs : DeleteSubscription(s) \/ ReadForUpdate(s, "update")
                       \/ ReadForUpdate(s, "reactivate")
    \/ UpdateSubscription
    \/ \E d \in Rows : Replay(d)

Next ==
    \/ \E e \in Events : FanOut(e)
    \/ \E p \in Processors : ProcessorStep(p) \/ StatementFails(p) \/ Crash(p)
    \/ \E d \in Rows : BackoffElapses(d) \/ LeaseExpires(d)
    \/ AdminStep

Spec == Init /\ [][Next]_vars

\* Every processor ticks for as long as its process runs, a post is bounded by
\* the client's timeout, and time passes.
Fairness ==
    /\ \A p \in Processors : WF_vars(ProcessorStep(p))
    /\ \A d \in Rows : WF_vars(BackoffElapses(d)) /\ WF_vars(LeaseExpires(d))

FairSpec == Spec /\ Fairness
----------------------------------------------------------------------------
(* Properties.                                                             *)

\* An endpoint gets at most one request for each recorded attempt, one for the
\* attempt under way and one for each lease that expired and was taken over,
\* although a processor leases a whole batch at once and posts it one by one.
PostsBounded ==
    \A d \in Rows :
        posts[d] <= attempts[d] + taken[d] + (IF status[d] = "processing" THEN 1 ELSE 0)

\* No row is tried more often than maxAttempts allows, whichever processors
\* counted its attempts from which snapshots.
AttemptBudget ==
    \A d \in Rows :
        /\ attempts[d] <= MaxAttempts
        /\ status[d] \notin Settled => attempts[d] < MaxAttempts

\* A row is recorded delivered only if the endpoint accepted it.
DeliveredWasAccepted == \A d \in Rows : status[d] = "delivered" => d \in accepted

\* Neither a stale processor nor the suspension of the subscription changes a
\* row that has ended, so a replay never runs beside its original.
SettledFinal == [][\A d \in Rows : status[d] \in Settled => status'[d] = status[d]]_vars

\* Only the processor that holds the lease ends an attempt.
EndedByHolder ==
    [][\A d \in Rows :
         status[d] = "processing" /\ status'[d] # "processing" =>
             \E p \in Processors :
                 leaseOwner[d] = p /\ current[p] = d /\ pc[p] = "recording"]_vars

\* A suspension is lifted by a reactivation and by nothing else: not by a
\* success that comes late, nor by an update based on an older read.
SuspensionHolds ==
    [][\A s \in Subs :
         suspended[s] /\ ~suspended'[s] => admin.op = "reactivate" /\ admin.sub = s]_vars

Originals == {<<d[1], d[2]>> : d \in {d \in Rows : d[3] = 0 /\ status[d] # "absent"}}

Fanout == INSTANCE EventFanout WITH Subscriptions <- Subs, rows <- Originals

\* Leases, results, replays and administrators leave the fan-out of an event as
\* EventFanout promises it: no original delivery appears later or disappears.
FanoutContract == Fanout!FanoutSpec

\* While no process dies and no statement fails, a row that is leased is in the
\* hands of the processor whose token it carries, although a slow processor may
\* lose its rows to another one at any time.
LeaseAttended ==
    crashes = 0 => \A d \in Rows :
        status[d] = "processing" => \E p \in Processors : leaseOwner[d] = p /\ Attends(p, d)

\* Every delivery ends, whatever crashes and whatever administrators do.
DeliveryEnds == \A d \in Rows : status[d] = "pending" ~> status[d] \in Settled
=============================================================================
