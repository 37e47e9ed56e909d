----------------------------- MODULE MailQueue -----------------------------
(***************************************************************************)
(* The outbound mail queue of internal/coremail: the rows of the table     *)
(* coremail_queue, the delivery workers that lease them, the operator's    *)
(* actions on them and the failures that can separate a worker from the    *)
(* row it is working on.                                                   *)
(*                                                                         *)
(* The table is shared by the workers and the HTTP handlers; each SQL      *)
(* statement is one atomic step and two statements of one operation are    *)
(* two steps, because the queue passes a nil transaction everywhere.       *)
(*                                                                         *)
(* Time is abstract: leaseExpired[e] says that lease_expires_at is in the  *)
(* past and due[e] that next_attempt_at is.  Time passing is an action.    *)
(***************************************************************************)
EXTENDS Integers, FiniteSets, AttemptOutcome

CONSTANTS
    Entries,      \* rows of coremail_queue
    Workers,      \* delivery workers, each with a fixed worker id
    Priority,     \* [Entries -> Int], the column priority
    MaxAttempts,  \* [Entries -> Nat], min(max_attempts, RetryPolicy.MaxAttempts)
    NoEntry,      \* the worker holds no row
    NoWorker,     \* the column lease_owner is ''
    MaxReopened,  \* bound: operator actions that reopen one row
    MaxTaken,     \* bound: times a lease is taken from the worker at one row
    MaxCrashes    \* bound: process crashes or shutdowns

ASSUME EntriesAssumption == IsFiniteSet(Entries) /\ NoEntry \notin Entries
ASSUME WorkersAssumption == IsFiniteSet(Workers) /\ NoWorker \notin Workers
ASSUME PriorityAssumption == Priority \in [Entries -> Int]
ASSUME MaxAttemptsAssumption == MaxAttempts \in [Entries -> Nat \ {0}]
ASSUME BoundsAssumption ==
    MaxReopened \in Nat /\ MaxTaken \in Nat /\ MaxCrashes \in Nat

VARIABLES
    \* the row of each entry
    status,       \* "absent" until it is enqueued
    leaseOwner,
    leaseExpired,
    attemptCount,
    due,
    deleted,      \* deleted_at IS NOT NULL
    \* each worker, and the snapshot of the row it works from
    pc,
    entry,
    seenAttempts, \* AttemptCount of the snapshot
    result,       \* what the last delivery attempt returned
    \* history, read by the properties and by the bounds alone
    copies,       \* copies of the message handed to the recipient
    unsure,       \* those of them whose acceptance was not read
    reopened,     \* times an operator reopened a finished row
    taken,        \* times the lease was taken from a leased row
    crashes

rowVars == <<status, leaseOwner, leaseExpired, attemptCount, due, deleted>>
workerVars == <<pc, entry, seenAttempts, result>>
historyVars == <<copies, unsure, reopened, taken, crashes>>
vars == <<rowVars, workerVars, historyVars>>

Claimable == {"pending", "deferred"}
Settled == {"delivered", "bounced", "dead_letter", "cancelled"}
Status == {"absent", "leased"} \cup Claimable \cup Settled

Live(e) == status[e] # "absent" /\ ~deleted[e]

\* AttemptNumber of the worker: deliver adds one to the AttemptCount that the
\* lease has already incremented.
AttemptNumber(w) == seenAttempts[w] + 1

TypeOK ==
    /\ status \in [Entries -> Status]
    /\ leaseOwner \in [Entries -> Workers \cup {NoWorker}]
    /\ leaseExpired \in [Entries -> BOOLEAN]
    /\ attemptCount \in [Entries -> Nat]
    /\ due \in [Entries -> BOOLEAN]
    /\ deleted \in [Entries -> BOOLEAN]
    /\ pc \in [Workers -> {"idle", "claiming", "attempting", "reporting"}]
    /\ entry \in [Workers -> Entries \cup {NoEntry}]
    /\ seenAttempts \in [Workers -> Nat]
    /\ result \in [Workers -> Outcomes \cup {"none"}]
    /\ copies \in [Entries -> Nat]
    /\ unsure \in [Entries -> Nat]
    /\ reopened \in [Entries -> Nat]
    /\ taken \in [Entries -> Nat]
    /\ crashes \in Nat
    /\ \A w \in Workers : pc[w] # "idle" => entry[w] \in Entries

Init ==
    /\ status = [e \in Entries |-> "absent"]
    /\ leaseOwner = [e \in Entries |-> NoWorker]
    /\ leaseExpired = [e \in Entries |-> FALSE]
    /\ attemptCount = [e \in Entries |-> 0]
    /\ due = [e \in Entries |-> FALSE]
    /\ deleted = [e \in Entries |-> FALSE]
    /\ pc = [w \in Workers |-> "idle"]
    /\ entry = [w \in Workers |-> NoEntry]
    /\ seenAttempts = [w \in Workers |-> 0]
    /\ result = [w \in Workers |-> "none"]
    /\ copies = [e \in Entries |-> 0]
    /\ unsure = [e \in Entries |-> 0]
    /\ reopened = [e \in Entries |-> 0]
    /\ taken = [e \in Entries |-> 0]
    /\ crashes = 0

----------------------------------------------------------------------------
(* Producers: SMTP receive, submission, webmail send, JMAP, mail rules.    *)

Enqueue(e) ==
    /\ status[e] = "absent"
    /\ status' = [status EXCEPT ![e] = "pending"]
    /\ due' = [due EXCEPT ![e] = TRUE]
    /\ UNCHANGED <<leaseOwner, leaseExpired, attemptCount, deleted, workerVars, historyVars>>

----------------------------------------------------------------------------
(* The worker: LeaseNext (a SELECT, then a guarded UPDATE), the delivery   *)
(* attempt, and the statement that records its result.                     *)

Candidates == {e \in Entries : Live(e) /\ status[e] \in Claimable /\ due[e]}

\* The SELECT of LeaseNext.  Rows of one priority are ordered by
\* next_attempt_at and id, abstracted to a choice.
SelectCandidate(w) ==
    /\ pc[w] = "idle"
    /\ \E e \in Candidates :
        /\ \A f \in Candidates : Priority[f] <= Priority[e]
        /\ pc' = [pc EXCEPT ![w] = "claiming"]
        /\ entry' = [entry EXCEPT ![w] = e]
        /\ seenAttempts' = [seenAttempts EXCEPT ![w] = attemptCount[e]]
    /\ UNCHANGED <<rowVars, result, historyVars>>

GoIdle(w) ==
    /\ pc' = [pc EXCEPT ![w] = "idle"]
    /\ entry' = [entry EXCEPT ![w] = NoEntry]
    /\ seenAttempts' = [seenAttempts EXCEPT ![w] = 0]
    /\ result' = [result EXCEPT ![w] = "none"]

\* Mutant: the UPDATE trusts the SELECT.
TrustSelect(e) == Live(e)

\* Mutant: the UPDATE rechecks only that no other worker holds the row.
NotLeased(e) == Live(e) /\ status[e] # "leased"

\* What the UPDATE of LeaseNext rechecks: the status, but not next_attempt_at.
StillClaimable(e) == Live(e) /\ status[e] \in Claimable

\* The UPDATE of LeaseNext.  The worker goes on with the row it selected, not
\* with the row as it now is.
ClaimCandidate(w) ==
    LET e == entry[w] IN
    /\ pc[w] = "claiming"
    /\ StillClaimable(e)
    /\ status' = [status EXCEPT ![e] = "leased"]
    /\ leaseOwner' = [leaseOwner EXCEPT ![e] = w]
    /\ leaseExpired' = [leaseExpired EXCEPT ![e] = FALSE]
    /\ attemptCount' = [attemptCount EXCEPT ![e] = @ + 1]
    /\ pc' = [pc EXCEPT ![w] = "attempting"]
    /\ seenAttempts' = [seenAttempts EXCEPT ![w] = @ + 1]
    /\ UNCHANGED <<due, deleted, entry, result, historyVars>>

\* No row was updated: someone else got it.
LoseCandidate(w) ==
    /\ pc[w] = "claiming"
    /\ ~StillClaimable(entry[w])
    /\ GoIdle(w)
    /\ UNCHANGED <<rowVars, historyVars>>

\* deliver, up to the classification of its result: an attempt that keeps the
\* contract of AttemptOutcome, in one step.  DeliveryAttempt has the detail.
AttemptDelivery(w) ==
    /\ pc[w] = "attempting"
    /\ \E r \in Outcomes, n \in 0..MaxChain, u \in 0..MaxChain :
        /\ Owes(r, n, u)
        /\ result' = [result EXCEPT ![w] = r]
        /\ copies' = [copies EXCEPT ![entry[w]] = @ + n]
        /\ unsure' = [unsure EXCEPT ![entry[w]] = @ + u]
    /\ pc' = [pc EXCEPT ![w] = "reporting"]
    /\ UNCHANGED <<rowVars, entry, seenAttempts, reopened, taken, crashes>>

Reports(w, r) == pc[w] = "reporting" /\ result[w] = r /\ GoIdle(w)

\* AckDeliveredForOwner: the lease must still be this worker's.
HoldsLease(w) ==
    LET e == entry[w] IN Live(e) /\ status[e] = "leased" /\ leaseOwner[e] = w

ReportDelivered(w) ==
    /\ Reports(w, "delivered")
    /\ HoldsLease(w)
    /\ status' = [status EXCEPT ![entry[w]] = "delivered"]
    /\ UNCHANGED <<leaseOwner, leaseExpired, attemptCount, due, deleted, historyVars>>

\* ErrLeaseLost
ReportLeaseLost(w) ==
    /\ Reports(w, "delivered")
    /\ ~HoldsLease(w)
    /\ UNCHANGED <<rowVars, historyVars>>

\* The three other results are recorded by id alone, whoever holds the row.
Record(w, s) ==
    LET e == entry[w] IN
    /\ status' = [status EXCEPT ![e] = IF Live(e) THEN s ELSE @]
    /\ UNCHANGED <<leaseOwner, leaseExpired, attemptCount, deleted, historyVars>>

\* Mutant: off by one.
PastLastAttempt(w) == AttemptNumber(w) > MaxAttempts[entry[w]]

LastAttempt(w) == AttemptNumber(w) >= MaxAttempts[entry[w]]

\* DeferWithDiagnostics, with next_attempt_at in the future.
ReportDeferred(w) ==
    LET e == entry[w] IN
    /\ Reports(w, "tempfail")
    /\ ~LastAttempt(w)
    /\ Record(w, "deferred")
    /\ due' = [due EXCEPT ![e] = IF Live(e) THEN FALSE ELSE @]

\* Bounce (policy, loop, unreadable message) and BounceWithDiagnostics.
ReportBounced(w) ==
    /\ \/ Reports(w, "refused")
       \/ Reports(w, "permfail") /\ ~LastAttempt(w)
    /\ Record(w, "bounced")
    /\ UNCHANGED due

\* DeadLetterWithDiagnostics
ReportDeadLettered(w) ==
    /\ \E r \in {"tempfail", "permfail"} : Reports(w, r)
    /\ LastAttempt(w)
    /\ Record(w, "dead_letter")
    /\ UNCHANGED due

Report(w) ==
    \/ ReportDelivered(w)
    \/ ReportLeaseLost(w)
    \/ ReportDeferred(w)
    \/ ReportBounced(w)
    \/ ReportDeadLettered(w)

----------------------------------------------------------------------------
(* The administrator's handlers.                                           *)

\* AdminRetryNow
AdminRetryNow(e) ==
    /\ Live(e) /\ status[e] \in {"deferred", "bounced", "dead_letter"}
    /\ reopened[e] < MaxReopened
    /\ status' = [status EXCEPT ![e] = "pending"]
    /\ due' = [due EXCEPT ![e] = TRUE]
    /\ attemptCount' = [attemptCount EXCEPT ![e] = 0]
    /\ reopened' = [reopened EXCEPT ![e] = @ + 1]
    /\ UNCHANGED <<leaseOwner, leaseExpired, deleted, workerVars,
                   copies, unsure, taken, crashes>>

\* AdminDeadLetter
AdminDeadLetter(e) ==
    /\ Live(e) /\ status[e] \in {"pending", "deferred", "bounced"}
    /\ status' = [status EXCEPT ![e] = "dead_letter"]
    /\ UNCHANGED <<leaseOwner, leaseExpired, attemptCount, due, deleted,
                   workerVars, historyVars>>

\* Mutant: a finished row is cancelled too.
AdminCancelFinished(e) ==
    /\ Live(e) /\ status[e] \notin {"leased", "cancelled"}
    /\ status' = [status EXCEPT ![e] = "cancelled"]
    /\ UNCHANGED <<leaseOwner, leaseExpired, attemptCount, due, deleted,
                   workerVars, historyVars>>

\* AdminCancel
AdminCancel(e) ==
    /\ Live(e) /\ status[e] \in Claimable
    /\ status' = [status EXCEPT ![e] = "cancelled"]
    /\ UNCHANGED <<leaseOwner, leaseExpired, attemptCount, due, deleted,
                   workerVars, historyVars>>

\* The older handlers POST /queue/:id/retry and DELETE /queue/:id update the
\* row whatever its status.
RetryQueue(e) ==
    /\ Live(e)
    /\ IF status[e] = "leased"
       THEN /\ taken[e] < MaxTaken
            /\ taken' = [taken EXCEPT ![e] = @ + 1]
            /\ UNCHANGED reopened
       ELSE /\ reopened[e] < MaxReopened
            /\ reopened' = [reopened EXCEPT ![e] = @ + 1]
            /\ UNCHANGED taken
    /\ status' = [status EXCEPT ![e] = "pending"]
    /\ leaseOwner' = [leaseOwner EXCEPT ![e] = NoWorker]
    /\ leaseExpired' = [leaseExpired EXCEPT ![e] = FALSE]
    /\ due' = [due EXCEPT ![e] = TRUE]
    /\ UNCHANGED <<attemptCount, deleted, workerVars, copies, unsure, crashes>>

DeleteQueue(e) ==
    /\ Live(e)
    /\ deleted' = [deleted EXCEPT ![e] = TRUE]
    /\ UNCHANGED <<status, leaseOwner, leaseExpired, attemptCount, due,
                   workerVars, historyVars>>

----------------------------------------------------------------------------
(* Time and failures.                                                      *)

BackoffElapses(e) ==
    /\ status[e] \in Claimable /\ ~due[e]
    /\ due' = [due EXCEPT ![e] = TRUE]
    /\ UNCHANGED <<status, leaseOwner, leaseExpired, attemptCount, deleted,
                   workerVars, historyVars>>

\* The lease runs out because its holder is gone, or under a holder that is
\* slow; MaxTaken bounds how often the second happens.
LeaseExpires(e) ==
    /\ Live(e) /\ status[e] = "leased" /\ ~leaseExpired[e]
    /\ (\E w \in Workers : entry[w] = e) => taken[e] < MaxTaken
    /\ leaseExpired' = [leaseExpired EXCEPT ![e] = TRUE]
    /\ UNCHANGED <<status, leaseOwner, attemptCount, due, deleted,
                   workerVars, historyVars>>

\* A statement of the worker fails: the database is unavailable, or Stop has
\* cancelled the context it runs under.  The worker returns the error and
\* leaves the row as it is; a claim may have taken effect all the same.
StatementFails(w) ==
    /\ pc[w] \in {"claiming", "attempting", "reporting"}
    /\ crashes < MaxCrashes
    /\ crashes' = crashes + 1
    /\ GoIdle(w)
    /\ UNCHANGED <<rowVars, copies, unsure, reopened, taken>>

\* The process dies and starts again with the same worker ids.
CrashRestart ==
    /\ crashes < MaxCrashes
    /\ crashes' = crashes + 1
    /\ pc' = [w \in Workers |-> "idle"]
    /\ entry' = [w \in Workers |-> NoEntry]
    /\ seenAttempts' = [w \in Workers |-> 0]
    /\ result' = [w \in Workers |-> "none"]
    /\ UNCHANGED <<rowVars, copies, unsure, reopened, taken>>

\* Mutant: recovery skips the rows that are at their last attempt.
RecoverableBeforeLast(e) ==
    /\ Live(e) /\ status[e] = "leased" /\ leaseExpired[e]
    /\ attemptCount[e] < MaxAttempts[e] - 1

Recoverable(e) == Live(e) /\ status[e] = "leased" /\ leaseExpired[e]

\* One pass of StartRecoveryLoop: every expired lease goes back to pending.
ReleaseExpiredLeases ==
    LET R == {e \in Entries : Recoverable(e)} IN
    /\ R # {}
    /\ status' = [e \in Entries |-> IF e \in R THEN "pending" ELSE status[e]]
    /\ leaseOwner' = [e \in Entries |-> IF e \in R THEN NoWorker ELSE leaseOwner[e]]
    /\ leaseExpired' = [e \in Entries |-> IF e \in R THEN FALSE ELSE leaseExpired[e]]
    /\ taken' = [e \in Entries |-> IF e \in R THEN taken[e] + 1 ELSE taken[e]]
    /\ UNCHANGED <<attemptCount, due, deleted, workerVars,
                   copies, unsure, reopened, crashes>>

----------------------------------------------------------------------------
(* The program as the runtime module wires it (Spec), and with the         *)
(* recovery loop that the delivery package provides (RecoverySpec).        *)

WorkerStep(w) ==
    \/ SelectCandidate(w)
    \/ ClaimCandidate(w)
    \/ LoseCandidate(w)
    \/ AttemptDelivery(w)
    \/ Report(w)

OperatorStep(e) ==
    \/ AdminRetryNow(e)
    \/ AdminDeadLetter(e)
    \/ AdminCancel(e)
    \/ RetryQueue(e)
    \/ DeleteQueue(e)

Next ==
    \/ \E e \in Entries : Enqueue(e) \/ OperatorStep(e) \/ BackoffElapses(e) \/ LeaseExpires(e)
    \/ \E w \in Workers : WorkerStep(w) \/ StatementFails(w)
    \/ CrashRestart

RecoveryNext == Next \/ ReleaseExpiredLeases

Spec == Init /\ [][Next]_vars
RecoverySpec == Init /\ [][RecoveryNext]_vars

\* The worker loops run for as long as the process does, and time passes.
Fairness ==
    /\ \A w \in Workers : WF_vars(WorkerStep(w))
    /\ \A e \in Entries : WF_vars(BackoffElapses(e)) /\ WF_vars(LeaseExpires(e))

FairSpec == Spec /\ Fairness
FairRecoverySpec == RecoverySpec /\ Fairness /\ WF_vars(ReleaseExpiredLeases)
----------------------------------------------------------------------------
(* Properties.                                                             *)

InFlight(w, e) == pc[w] \in {"attempting", "reporting"} /\ entry[w] = e

\* As long as no lease was taken from it, a row with a delivery in flight is
\* leased by the worker that delivers it, so two workers never deliver one
\* row: neither the race between the SELECT and the UPDATE of LeaseNext nor
\* an administrator's action nor a restart breaks it.
LeaseExclusive ==
    \A e \in Entries, w \in Workers :
        taken[e] = 0 /\ InFlight(w, e) => status[e] = "leased" /\ leaseOwner[e] = w

\* A recipient gets one copy for each time the row was made available: once by
\* Enqueue, once for each operator retry of a finished row and once for each
\* lease taken from a worker, besides the copies whose acceptance was unknown.
CopiesBounded ==
    \A e \in Entries : copies[e] <= 1 + reopened[e] + taken[e] + unsure[e]

\* A row is reported delivered only when an attempt at it succeeded.
DeliveredHasCopy ==
    \A e \in Entries : status[e] = "delivered" => copies[e] > unsure[e]

\* The recipient of a row that is recorded delivered got one copy besides those
\* whose acceptance was not read, unless the row was made available again.
DeliveredOnce ==
    \A e \in Entries :
        status[e] = "delivered" /\ reopened[e] = 0 /\ taken[e] = 0 => copies[e] = 1 + unsure[e]

\* A row is left leased, with nobody delivering it, only by a crash, a shutdown or a
\* statement that failed: neither the worker that loses the race for a row, nor the
\* one whose lease was taken, nor an operator leaves one behind.
StrandedByFault ==
    \A e \in Entries :
        Live(e) /\ status[e] = "leased" =>
            (\E w \in Workers : leaseOwner[e] = w /\ InFlight(w, e)) \/ crashes > 0

\* The worker that claims with a snapshot another worker has overtaken believes
\* it is at an earlier attempt, so each worker but one can add an attempt to the
\* budget; each retry by an operator and each lost lease adds one too, and
\* nothing else does.
AttemptBudget ==
    \A e \in Entries :
        MaxAttempts[e] >= 2 =>
            attemptCount[e] <= (MaxAttempts[e] - 1) + (Cardinality(Workers) - 1)
                                   + reopened[e] + taken[e]

KeepsSettled ==
    \A e \in Entries :
        status[e] \in Settled /\ status'[e] # status[e] =>
            \/ reopened'[e] > reopened[e]
            \/ status[e] = "bounced" /\ status'[e] = "dead_letter"
            \/ taken[e] > 0

\* A finished row stays as it is unless an operator reopens it or dead-letters
\* a bounce; only a worker whose lease was taken can overwrite it.
SettledStable == [][KeepsSettled]_vars

ReleasedByHolder ==
    \A e \in Entries :
        status[e] = "leased" /\ status'[e] # "leased" =>
            \/ taken'[e] > 0
            \/ \E w \in Workers : InFlight(w, e) /\ leaseOwner[e] = w /\ pc'[w] = "idle"

\* A leased row is released by the report of its holder or by taking the
\* lease, never by AdminRetryNow, AdminDeadLetter or AdminCancel.
LeasedSettledByHolder == [][ReleasedByHolder]_vars

DeliveredByHolder ==
    \A e \in Entries :
        status[e] # "delivered" /\ status'[e] = "delivered" =>
            \E w \in Workers :
                /\ InFlight(w, e) /\ result[w] = "delivered"
                /\ status[e] = "leased" /\ leaseOwner[e] = w

\* A worker whose lease was taken cannot report the row delivered, even after
\* another worker has leased it (F6).
StaleAckRefused == [][DeliveredByHolder]_vars

\* A worker whose lease was taken and re-claimed by another worker cannot
\* complete the row, whatever its result is (F6).
StaleWorkerNeverCompletes ==
    [][\A w \in Workers, e \in Entries :
         InFlight(w, e) /\ pc'[w] = "idle" /\ status'[e] \in Settled \ {status[e]} =>
            leaseOwner[e] \in {w, NoWorker}]_vars

\* With the recovery loop running, every accepted message is delivered,
\* bounced, dead-lettered, cancelled or deleted, whatever crashes.
EventuallySettled ==
    \A e \in Entries :
        status[e] = "pending" ~> status[e] \in Settled \/ deleted[e]
=============================================================================
