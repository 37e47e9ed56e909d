--------------------------- MODULE PlatformJobs ---------------------------
(***************************************************************************)
(* The durable jobs of internal/platform/jobs: the rows of platform_jobs,  *)
(* the worker loop of each process that shares the database, the handlers  *)
(* it starts and the requests of the HTTP API.                             *)
(*                                                                         *)
(* Every statement on a row is guarded by its status and, for a worker, by *)
(* its lease (owner, token and lease_version).  A claim draws a new token  *)
(* and increments lease_version, and a release clears the token, so while  *)
(* a job is running the version alone tells the leases apart.              *)
(*                                                                         *)
(* ClaimOne, Fail and ManualRetry read a row and then update it under a    *)
(* guard that implies it has not changed in between: each is one step.     *)
(***************************************************************************)
EXTENDS Integers

CONSTANTS
    Jobs,        \* one per (idempotency_scope, idempotency_key)
    Workers,     \* one worker loop per process
    Keys,        \* Idempotency-Key of a manual retry
    MaxAttempts, \* [Jobs -> Nat], max_attempts
    NoLease, NoKey,
    MaxRetries,  \* bound: manual retries that requeue one job
    MaxCrashes   \* bound: worker crashes and failed statements

ASSUME NoLeaseAssumption == NoLease \notin [job : Jobs, version : Nat]
ASSUME NoKeyAssumption == NoKey \notin Keys
ASSUME MaxAttemptsAssumption == MaxAttempts \in [Jobs -> Nat \ {0}]
ASSUME BoundsAssumption == MaxRetries \in Nat /\ MaxCrashes \in Nat

VARIABLES
    \* the row of each job
    status,       \* "absent" until it is submitted
    runAfter,     \* run_after: "now" is past, "later" soon, "held" years ahead
    leaseVersion,
    leaseExpired, \* lease_expires_at is in the past
    attempt,
    asked,        \* cancellation_requested_at IS NOT NULL
    retryKey,     \* manual_retry_key
    progress,     \* lease_version of the run that last reported progress
    \* each worker
    pc,
    lease,        \* of the job it runs
    outcome,      \* what the handler returned
    expired,      \* the rows that RecoverExpired has read
    handlers,     \* leases of the handler goroutines alive in its process
    \* history
    recovered,    \* lease versions of each job that RecoverExpired revoked
    refused,      \* lease versions of each job whose result Complete refused
    retries,
    crashes

rowVars == <<status, runAfter, leaseVersion, leaseExpired, attempt, asked, retryKey, progress>>
workerVars == <<pc, lease, outcome, expired, handlers>>
historyVars == <<recovered, refused, retries, crashes>>
vars == <<rowVars, workerVars, historyVars>>

Leases == [job : Jobs, version : Nat]
Status == {"absent", "queued", "running", "succeeded", "failed", "cancelled"}

\* "unfit" is a result that may not be stored: it is longer than 64 KiB, is not
\* JSON or has a field for a secret.
Outcomes == {"ok", "unfit", "retryable", "fatal", "unregistered"}
Points == {"polling", "recovering", "claiming", "executing", "checking", "cancelling", "reporting"}

\* The worker is in RunOnce with a job.
Attends(w) == pc[w] \in {"executing", "checking", "cancelling", "reporting"}

TypeOK ==
    /\ status \in [Jobs -> Status]
    /\ runAfter \in [Jobs -> {"now", "later", "held"}]
    /\ leaseVersion \in [Jobs -> Nat]
    /\ leaseExpired \in [Jobs -> BOOLEAN]
    /\ attempt \in [Jobs -> Nat]
    /\ asked \in [Jobs -> BOOLEAN]
    /\ retryKey \in [Jobs -> Keys \cup {NoKey}]
    /\ progress \in [Jobs -> Nat]
    /\ pc \in [Workers -> Points]
    /\ lease \in [Workers -> Leases \cup {NoLease}]
    /\ outcome \in [Workers -> Outcomes \cup {"none"}]
    /\ expired \in [Workers -> SUBSET Leases]
    /\ handlers \in [Workers -> SUBSET Leases]
    /\ recovered \in [Jobs -> SUBSET Nat]
    /\ refused \in [Jobs -> SUBSET Nat]
    /\ retries \in [Jobs -> Nat]
    /\ crashes \in Nat
    /\ \A w \in Workers : Attends(w) => lease[w] \in Leases

Init ==
    /\ status = [j \in Jobs |-> "absent"]
    /\ runAfter = [j \in Jobs |-> "now"]
    /\ leaseVersion = [j \in Jobs |-> 0]
    /\ leaseExpired = [j \in Jobs |-> FALSE]
    /\ attempt = [j \in Jobs |-> 0]
    /\ asked = [j \in Jobs |-> FALSE]
    /\ retryKey = [j \in Jobs |-> NoKey]
    /\ progress = [j \in Jobs |-> 0]
    /\ pc = [w \in Workers |-> "polling"]
    /\ lease = [w \in Workers |-> NoLease]
    /\ outcome = [w \in Workers |-> "none"]
    /\ expired = [w \in Workers |-> {}]
    /\ handlers = [w \in Workers |-> {}]
    /\ recovered = [j \in Jobs |-> {}]
    /\ refused = [j \in Jobs |-> {}]
    /\ retries = [j \in Jobs |-> 0]
    /\ crashes = 0

----------------------------------------------------------------------------
(* The HTTP API and the importer.                                          *)

\* SubmitIdempotent.  A second submission with the key of this one finds the
\* row and changes nothing.  The importer submits its job held.
Submit(j) ==
    /\ status[j] = "absent"
    /\ status' = [status EXCEPT ![j] = "queued"]
    /\ \E t \in {"now", "held"} : runAfter' = [runAfter EXCEPT ![j] = t]
    /\ UNCHANGED <<leaseVersion, leaseExpired, attempt, asked, retryKey, progress,
                   workerVars, historyVars>>

\* Activate
Activate(j) ==
    /\ status[j] = "queued" /\ runAfter[j] # "now"
    /\ runAfter' = [runAfter EXCEPT ![j] = "now"]
    /\ UNCHANGED <<status, leaseVersion, leaseExpired, attempt, asked, retryKey, progress,
                   workerVars, historyVars>>

\* RequestCancellation: at once if the job is queued, else by its worker.
RequestCancellation(j) ==
    /\ status[j] \in {"queued", "running"}
    /\ status' = [status EXCEPT ![j] = IF @ = "queued" THEN "cancelled" ELSE @]
    /\ asked' = [asked EXCEPT ![j] = TRUE]
    /\ UNCHANGED <<runAfter, leaseVersion, leaseExpired, attempt, retryKey, progress,
                   workerVars, historyVars>>

\* ManualRetry.  A retry of a queued job with its own key is a replay that
\* changes nothing; any other status than failed is refused.
ManualRetry(j, k) ==
    /\ status[j] = "failed"
    /\ retries[j] < MaxRetries
    /\ status' = [status EXCEPT ![j] = "queued"]
    /\ runAfter' = [runAfter EXCEPT ![j] = "now"]
    /\ retryKey' = [retryKey EXCEPT ![j] = k]
    /\ retries' = [retries EXCEPT ![j] = @ + 1]
    /\ UNCHANGED <<leaseVersion, leaseExpired, attempt, asked, progress, workerVars,
                   recovered, refused, crashes>>

----------------------------------------------------------------------------
(* The worker loop: RecoverExpired, then RunOnce.                          *)

\* The worker holds the row under lease l.
Current(l) == status[l.job] = "running" /\ leaseVersion[l.job] = l.version

\* Mutant: off by one.
AttemptsNotExceeded(j) == attempt[j] <= MaxAttempts[j]

AttemptsLeft(j) == attempt[j] < MaxAttempts[j]

\* Where the job goes when an attempt at it is over.
EndAttempt(j, again) ==
    /\ status' = [status EXCEPT ![j] = IF again THEN "queued" ELSE "failed"]
    /\ runAfter' = [runAfter EXCEPT ![j] = IF again THEN "later" ELSE "now"]
    /\ leaseExpired' = [leaseExpired EXCEPT ![j] = FALSE]

\* Mutant: only a job with attempts left is worth recovering.
ExpiredWithAttempts == {j \in Jobs : status[j] = "running" /\ leaseExpired[j] /\ AttemptsLeft(j)}

Expired == {j \in Jobs : status[j] = "running" /\ leaseExpired[j]}

\* The SELECT of RecoverExpired (at most 50 rows: more are left to a later pass).
ReadExpired(w) ==
    /\ pc[w] = "polling"
    /\ expired' = [expired EXCEPT ![w] =
         {[job |-> j, version |-> leaseVersion[j]] : j \in Expired}]
    /\ pc' = [pc EXCEPT ![w] = "recovering"]
    /\ UNCHANGED <<rowVars, lease, outcome, handlers, historyVars>>

\* One UPDATE of RecoverExpired.  The row may have been released or renewed
\* since it was read; a renewed lease that has run out again counts as expired.
RecoverOne(w) ==
    /\ pc[w] = "recovering"
    /\ \E l \in expired[w] :
        /\ expired' = [expired EXCEPT ![w] = @ \ {l}]
        /\ IF Current(l) /\ leaseExpired[l.job]
           THEN /\ EndAttempt(l.job, AttemptsLeft(l.job))
                /\ leaseVersion' = [leaseVersion EXCEPT ![l.job] = @ + 1]
                /\ recovered' = [recovered EXCEPT ![l.job] = @ \cup {l.version}]
           ELSE UNCHANGED <<status, runAfter, leaseExpired, leaseVersion, recovered>>
    /\ UNCHANGED <<attempt, asked, retryKey, progress, pc, lease, outcome, handlers,
                   refused, retries, crashes>>

FinishRecovery(w) ==
    /\ pc[w] = "recovering" /\ expired[w] = {}
    /\ pc' = [pc EXCEPT ![w] = "claiming"]
    /\ UNCHANGED <<rowVars, lease, outcome, expired, handlers, historyVars>>

\* Mutant: the claim does not recheck the status.
ClaimableAgain(j) == status[j] \in {"queued", "running"} /\ runAfter[j] = "now" /\ ~asked[j]

\* Mutant: the claim ignores a cancellation request.
ClaimableAsked(j) == status[j] = "queued" /\ runAfter[j] = "now"

Claimable(j) == status[j] = "queued" /\ runAfter[j] = "now" /\ ~asked[j]

\* ClaimOne, oldest run_after first (abstracted to a choice), and the start of
\* the handler if its type is registered.
ClaimOne(w) ==
    /\ pc[w] = "claiming"
    /\ \E j \in Jobs :
        LET l == [job |-> j, version |-> leaseVersion[j] + 1] IN
        /\ Claimable(j)
        /\ status' = [status EXCEPT ![j] = "running"]
        /\ leaseVersion' = [leaseVersion EXCEPT ![j] = @ + 1]
        /\ leaseExpired' = [leaseExpired EXCEPT ![j] = FALSE]
        /\ attempt' = [attempt EXCEPT ![j] = @ + 1]
        /\ lease' = [lease EXCEPT ![w] = l]
        /\ \/ /\ pc' = [pc EXCEPT ![w] = "executing"]
              /\ handlers' = [handlers EXCEPT ![w] = @ \cup {l}]
              /\ UNCHANGED outcome
           \/ /\ pc' = [pc EXCEPT ![w] = "reporting"]
              /\ outcome' = [outcome EXCEPT ![w] = "unregistered"]
              /\ UNCHANGED handlers
    /\ UNCHANGED <<runAfter, asked, retryKey, progress, expired, historyVars>>

NothingToClaim(w) ==
    /\ pc[w] = "claiming" /\ ~\E j \in Jobs : Claimable(j)
    /\ pc' = [pc EXCEPT ![w] = "polling"]
    /\ UNCHANGED <<rowVars, lease, outcome, expired, handlers, historyVars>>

\* Heartbeat, every third of the lease; the lease it extends may have expired.
Heartbeat(w) ==
    /\ pc[w] = "executing" /\ Current(lease[w]) /\ ~asked[lease[w].job]
    /\ leaseExpired' = [leaseExpired EXCEPT ![lease[w].job] = FALSE]
    /\ UNCHANGED <<status, runAfter, leaseVersion, attempt, asked, retryKey, progress,
                   workerVars, historyVars>>

\* Mutant: the progress is written by id alone.
ReportProgressUnfenced(w) ==
    /\ \E l \in handlers[w] : progress' = [progress EXCEPT ![l.job] = l.version]
    /\ UNCHANGED <<status, runAfter, leaseVersion, leaseExpired, attempt, asked, retryKey,
                   workerVars, historyVars>>

\* SetProgress by a handler, be it one the worker no longer waits for.
ReportProgress(w) ==
    /\ \E l \in handlers[w] :
        /\ Current(l) /\ ~asked[l.job]
        /\ progress' = [progress EXCEPT ![l.job] = l.version]
    /\ UNCHANGED <<status, runAfter, leaseVersion, leaseExpired, attempt, asked, retryKey,
                   workerVars, historyVars>>

\* executeWithHeartbeat returns: with the handler's result, or without it on
\* the timeout of its type or when a heartbeat is refused or fails.
HandlerReturns(w) ==
    /\ pc[w] = "executing"
    /\ \E r \in Outcomes \ {"unregistered"} : outcome' = [outcome EXCEPT ![w] = r]
    /\ handlers' = [handlers EXCEPT ![w] = @ \ {lease[w]}]
    /\ pc' = [pc EXCEPT ![w] = "checking"]
    /\ UNCHANGED <<rowVars, lease, expired, historyVars>>

AbandonHandler(w) ==
    /\ pc[w] = "executing"
    /\ outcome' = [outcome EXCEPT ![w] = "retryable"]
    /\ pc' = [pc EXCEPT ![w] = "checking"]
    /\ UNCHANGED <<rowVars, lease, expired, handlers, historyVars>>

\* An abandoned handler notices that its context is done.
AbandonedHandlerEnds(w) ==
    /\ \E l \in handlers[w] :
        /\ ~(pc[w] = "executing" /\ lease[w] = l)
        /\ handlers' = [handlers EXCEPT ![w] = @ \ {l}]
    /\ UNCHANGED <<rowVars, pc, lease, outcome, expired, historyVars>>

\* CancellationRequested; a lost lease does not stop the worker here.
CheckCancellation(w) ==
    /\ pc[w] = "checking"
    /\ pc' = [pc EXCEPT ![w] =
         IF Current(lease[w]) /\ asked[lease[w].job] THEN "cancelling" ELSE "reporting"]
    /\ UNCHANGED <<rowVars, lease, outcome, expired, handlers, historyVars>>

EndRun(w) ==
    /\ pc' = [pc EXCEPT ![w] = "polling"]
    /\ lease' = [lease EXCEPT ![w] = NoLease]
    /\ outcome' = [outcome EXCEPT ![w] = "none"]

\* FinishCancellation
FinishCancellation(w) ==
    LET j == lease[w].job IN
    /\ pc[w] = "cancelling"
    /\ IF Current(lease[w]) /\ asked[j]
       THEN /\ status' = [status EXCEPT ![j] = "cancelled"]
            /\ leaseExpired' = [leaseExpired EXCEPT ![j] = FALSE]
       ELSE UNCHANGED <<status, leaseExpired>>
    /\ EndRun(w)
    /\ UNCHANGED <<runAfter, leaseVersion, attempt, asked, retryKey, progress,
                   expired, handlers, historyVars>>

\* Complete.  When the cancellation was requested after CheckCancellation the
\* worker returns ErrCancellationAsked and leaves the row running.
Complete(w) ==
    LET j == lease[w].job IN
    /\ pc[w] = "reporting" /\ outcome[w] = "ok"
    /\ IF Current(lease[w]) /\ ~asked[j]
       THEN /\ status' = [status EXCEPT ![j] = "succeeded"]
            /\ leaseExpired' = [leaseExpired EXCEPT ![j] = FALSE]
       ELSE UNCHANGED <<status, leaseExpired>>
    /\ EndRun(w)
    /\ UNCHANGED <<runAfter, leaseVersion, attempt, asked, retryKey, progress,
                   expired, handlers, historyVars>>

\* Complete returns before its statement: the row stays running.
RefuseResult(w) ==
    LET l == lease[w] IN
    /\ pc[w] = "reporting" /\ outcome[w] = "unfit"
    /\ refused' = [refused EXCEPT ![l.job] = @ \cup {l.version}]
    /\ EndRun(w)
    /\ UNCHANGED <<rowVars, expired, handlers, recovered, retries, crashes>>

\* Fail
Fail(w) ==
    LET j == lease[w].job IN
    /\ pc[w] = "reporting" /\ outcome[w] \notin {"ok", "unfit"}
    /\ Current(lease[w]) /\ ~asked[j]
    /\ EndAttempt(j, outcome[w] = "retryable" /\ AttemptsLeft(j))
    /\ EndRun(w)
    /\ UNCHANGED <<leaseVersion, attempt, asked, retryKey, progress, expired, handlers,
                   historyVars>>

\* Fail updates no row.  If a cancellation was requested the worker finishes
\* it, except for a job of an unregistered type.
FailRefused(w) ==
    /\ pc[w] = "reporting" /\ outcome[w] \notin {"ok", "unfit"}
    /\ ~(Current(lease[w]) /\ ~asked[lease[w].job])
    /\ IF asked[lease[w].job] /\ outcome[w] # "unregistered"
       THEN pc' = [pc EXCEPT ![w] = "cancelling"] /\ UNCHANGED <<lease, outcome>>
       ELSE EndRun(w)
    /\ UNCHANGED <<rowVars, expired, handlers, historyVars>>

----------------------------------------------------------------------------
(* Time and failures.                                                      *)

BackoffElapses(j) ==
    /\ status[j] = "queued" /\ runAfter[j] = "later"
    /\ runAfter' = [runAfter EXCEPT ![j] = "now"]
    /\ UNCHANGED <<status, leaseVersion, leaseExpired, attempt, asked, retryKey, progress,
                   workerVars, historyVars>>

LeaseExpires(j) ==
    /\ status[j] = "running" /\ ~leaseExpired[j]
    /\ leaseExpired' = [leaseExpired EXCEPT ![j] = TRUE]
    /\ UNCHANGED <<status, runAfter, leaseVersion, attempt, asked, retryKey, progress,
                   workerVars, historyVars>>

\* The process of w dies, or shuts down, and starts again.
CrashRestart(w) ==
    /\ pc[w] # "polling"
    /\ crashes < MaxCrashes
    /\ crashes' = crashes + 1
    /\ EndRun(w)
    /\ expired' = [expired EXCEPT ![w] = {}]
    /\ handlers' = [handlers EXCEPT ![w] = {}]
    /\ UNCHANGED <<rowVars, recovered, refused, retries>>

\* A statement fails.  CancellationRequested is not retried: the worker goes
\* on to report.  After any other statement it gives up the run or the pass.
StatementFails(w) ==
    /\ pc[w] \in {"recovering", "claiming", "checking", "cancelling", "reporting"}
    /\ crashes < MaxCrashes
    /\ crashes' = crashes + 1
    /\ CASE pc[w] = "checking" ->
              pc' = [pc EXCEPT ![w] = "reporting"] /\ UNCHANGED <<lease, outcome, expired>>
         [] pc[w] = "recovering" ->
              /\ pc' = [pc EXCEPT ![w] = "claiming"]
              /\ expired' = [expired EXCEPT ![w] = {}]
              /\ UNCHANGED <<lease, outcome>>
         [] OTHER -> EndRun(w) /\ UNCHANGED expired
    /\ UNCHANGED <<rowVars, handlers, recovered, refused, retries>>

----------------------------------------------------------------------------
RunStep(w) ==
    \/ HandlerReturns(w)
    \/ AbandonHandler(w)
    \/ CheckCancellation(w)
    \/ FinishCancellation(w)
    \/ Complete(w)
    \/ RefuseResult(w)
    \/ Fail(w)
    \/ FailRefused(w)

WorkerStep(w) ==
    \/ ReadExpired(w)
    \/ RecoverOne(w)
    \/ FinishRecovery(w)
    \/ ClaimOne(w)
    \/ NothingToClaim(w)
    \/ RunStep(w)

RequestStep(j) ==
    \/ Submit(j)
    \/ Activate(j)
    \/ RequestCancellation(j)
    \/ \E k \in Keys : ManualRetry(j, k)

Next ==
    \/ \E j \in Jobs : RequestStep(j) \/ BackoffElapses(j) \/ LeaseExpires(j)
    \/ \E w \in Workers :
        \/ WorkerStep(w)
        \/ Heartbeat(w)
        \/ ReportProgress(w)
        \/ AbandonedHandlerEnds(w)
        \/ CrashRestart(w)
        \/ StatementFails(w)

Spec == Init /\ [][Next]_vars

\* The loops run for as long as their process does, a handler ends or is
\* abandoned at the timeout of its type, and time passes.
Fairness ==
    /\ \A w \in Workers : WF_vars(WorkerStep(w))
    /\ \A j \in Jobs : WF_vars(BackoffElapses(j)) /\ WF_vars(LeaseExpires(j))

FairSpec == Spec /\ Fairness
----------------------------------------------------------------------------
(* Properties.                                                             *)

\* A worker loses the job it attends only when its lease has expired and
\* RecoverExpired has revoked it, and no two workers hold the same lease.
LeaseExclusive ==
    \A w \in Workers : Attends(w) =>
        /\ Current(lease[w]) \/ lease[w].version \in recovered[lease[w].job]
        /\ \A x \in Workers \ {w} : Attends(x) => lease[x] # lease[w]

\* max_attempts bounds the attempts at a job, whatever crashes, and a manual
\* retry adds one attempt to it.
AttemptBudget ==
    \A j \in Jobs : attempt[j] <= MaxAttempts[j] + retries[j]

EndsByHolder ==
    \A j \in Jobs :
        status[j] = "running" /\ status'[j] # "running" =>
            \/ leaseExpired[j] /\ leaseVersion'[j] > leaseVersion[j]
            \/ \E w \in Workers :
                 /\ Attends(w) /\ lease[w] = [job |-> j, version |-> leaseVersion[j]]
                 /\ pc'[w] = "polling"

\* A running job is released by the worker that holds its lease, in its last
\* step of the run, or by the recovery of an expired lease: never by a worker
\* that lost it, and never when the lease was renewed after it was read.
ReleasedByHolder == [][EndsByHolder]_vars

ProgressGrows == \A j \in Jobs : progress'[j] >= progress[j]

\* A handler whose run is over, and that the worker no longer waits for, cannot
\* overwrite the progress of the run that followed.
ProgressNeverGoesBack == [][ProgressGrows]_vars

\* A job whose cancellation was requested waits in the queue, or has failed, only
\* after a recovery took it from the worker that would have cancelled it.
CancelLostToRecovery ==
    \A j \in Jobs : asked[j] /\ status[j] \in {"queued", "failed"} => recovered[j] # {}

\* A job keeps running without a worker that attends to it only after a fault, when
\* its cancellation was requested while its result was being recorded, or when the
\* worker that holds the lease has been refused the result of its handler.
UnattendedByFault ==
    \A j \in Jobs :
        status[j] = "running" =>
            \/ \E w \in Workers : Attends(w) /\ lease[w] = [job |-> j, version |-> leaseVersion[j]]
            \/ crashes > 0 \/ asked[j]
            \/ leaseVersion[j] \in refused[j]

\* However many handlers of a job were abandoned and live on, in one process or in
\* several, at most one can still report the progress of the job.
OneLiveHandler ==
    \A w, x \in Workers : \A l \in handlers[w], m \in handlers[x] :
        Current(l) /\ Current(m) /\ l.job = m.job => w = x /\ l = m

EndedStays ==
    \A j \in Jobs :
        /\ status[j] \in {"succeeded", "cancelled"} => status'[j] = status[j]
        /\ asked[j] => asked'[j] /\ (status'[j] = "succeeded" => status[j] = "succeeded")

\* A job that succeeded or was cancelled stays so, a request to cancel it is never
\* forgotten, and no job succeeds in spite of one.
EndedIsFinal == [][EndedStays]_vars

Lifecycle == INSTANCE JobLifecycle WITH state <- status

\* The statements of the repository obey allowedTransitions, and none starts or
\* completes a job whose cancellation was requested.
LifecycleSpec == Lifecycle!LifecycleSpec

\* A job that is queued and not held ends, whatever crashes, unless its
\* cancellation is requested.
EventuallyEnds ==
    \A j \in Jobs :
        status[j] = "queued" /\ runAfter[j] # "held" ~>
            status[j] \in {"succeeded", "failed", "cancelled"} \/ asked[j]

\* A job whose cancellation was requested ends.
EventuallyCancelled ==
    \A j \in Jobs : asked[j] ~> status[j] \in {"succeeded", "failed", "cancelled"}
=============================================================================
