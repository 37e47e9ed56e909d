------------------------- MODULE PlatformJobsProofs -------------------------
(***************************************************************************)
(* Theorems about PlatformJobs, for any number of jobs and workers and any *)
(* value of the bounds.                                                    *)
(***************************************************************************)
EXTENDS PlatformJobs, TLAPS

----------------------------------------------------------------------------
(* Type correctness.                                                       *)

LEMMA TypeInit == Init => TypeOK
BY DEF Init, TypeOK, Status, Points, Attends

LEMMA TypeRequestStep ==
    ASSUME TypeOK, NEW j \in Jobs, RequestStep(j) \/ BackoffElapses(j) \/ LeaseExpires(j)
    PROVE  TypeOK'
<1> USE DEF TypeOK, Status, Attends, workerVars, historyVars
<1>1. CASE Submit(j)
  BY <1>1 DEF Submit
<1>2. CASE Activate(j)
  BY <1>2 DEF Activate
<1>3. CASE RequestCancellation(j)
  BY <1>3 DEF RequestCancellation
<1>4. ASSUME NEW k \in Keys, ManualRetry(j, k)
      PROVE  TypeOK'
  BY <1>4 DEF ManualRetry
<1>5. CASE BackoffElapses(j) \/ LeaseExpires(j)
  BY <1>5 DEF BackoffElapses, LeaseExpires
<1>6. RequestStep(j) => TypeOK'
  <2> HIDE DEF TypeOK
  <2> QED
    BY <1>1, <1>2, <1>3, <1>4 DEF RequestStep
<1> QED
  BY <1>5, <1>6

LEMMA TypeWorkerStep ==
    ASSUME TypeOK, NEW w \in Workers, WorkerStep(w)
    PROVE  TypeOK'
<1> USE DEF TypeOK, Status, Points, Outcomes, Attends
<1>1. CASE ReadExpired(w)
  BY <1>1 DEF ReadExpired, Expired, Leases, rowVars, historyVars
<1>2. CASE RecoverOne(w)
  <2>1. PICK l \in expired[w] :
          IF Current(l) /\ leaseExpired[l.job]
          THEN /\ EndAttempt(l.job, AttemptsLeft(l.job))
               /\ leaseVersion' = [leaseVersion EXCEPT ![l.job] = @ + 1]
               /\ recovered' = [recovered EXCEPT ![l.job] = @ \cup {l.version}]
          ELSE UNCHANGED <<status, runAfter, leaseExpired, leaseVersion, recovered>>
    BY <1>2 DEF RecoverOne
  <2>2. l.job \in Jobs /\ l.version \in Nat
    BY DEF Leases
  <2>3. /\ status' \in [Jobs -> Status] /\ runAfter' \in [Jobs -> {"now", "later", "held"}]
        /\ leaseExpired' \in [Jobs -> BOOLEAN] /\ leaseVersion' \in [Jobs -> Nat]
        /\ recovered' \in [Jobs -> SUBSET Nat]
    <3>1. CASE Current(l) /\ leaseExpired[l.job]
      <4>1. /\ EndAttempt(l.job, AttemptsLeft(l.job))
            /\ leaseVersion' = [leaseVersion EXCEPT ![l.job] = @ + 1]
            /\ recovered' = [recovered EXCEPT ![l.job] = @ \cup {l.version}]
        BY <2>1, <3>1
      <4> QED
        BY <2>2, <4>1 DEF EndAttempt
    <3>2. CASE ~(Current(l) /\ leaseExpired[l.job])
      BY <2>1, <3>2
    <3> QED
      BY <3>1, <3>2
  <2>4. expired' \in [Workers -> SUBSET Leases]
    BY <1>2 DEF RecoverOne
  <2> QED
    BY <1>2, <2>3, <2>4 DEF RecoverOne
<1>3. CASE FinishRecovery(w) \/ NothingToClaim(w)
  BY <1>3 DEF FinishRecovery, NothingToClaim, rowVars, historyVars
<1>4. CASE ClaimOne(w)
  BY <1>4 DEF ClaimOne, Leases, historyVars
<1>5. CASE HandlerReturns(w) \/ AbandonHandler(w) \/ CheckCancellation(w)
  BY <1>5 DEF HandlerReturns, AbandonHandler, CheckCancellation, rowVars, historyVars
<1>6. CASE FinishCancellation(w) \/ Complete(w)
  <2>1. status' \in [Jobs -> Status] /\ leaseExpired' \in [Jobs -> BOOLEAN]
    BY <1>6 DEF FinishCancellation, Complete
  <2> QED
    BY <1>6, <2>1, SMTT(30) DEF FinishCancellation, Complete, EndRun, historyVars
<1>7. CASE Fail(w)
  BY <1>7 DEF Fail, EndAttempt, EndRun, Leases, historyVars
<1>8. CASE FailRefused(w)
  BY <1>8 DEF FailRefused, EndRun, rowVars, historyVars
<1>9. CASE RefuseResult(w)
  <2>1. lease[w].job \in Jobs /\ lease[w].version \in Nat
    BY <1>9 DEF RefuseResult, Leases
  <2> QED
    BY <1>9, <2>1 DEF RefuseResult, EndRun, rowVars
<1> QED
  BY <1>1, <1>2, <1>3, <1>4, <1>5, <1>6, <1>7, <1>8, <1>9 DEF WorkerStep, RunStep

LEMMA TypeStep == TypeOK /\ [Next]_vars => TypeOK'
<1> SUFFICES ASSUME TypeOK, [Next]_vars
             PROVE  TypeOK'
  OBVIOUS
<1>1. ASSUME NEW j \in Jobs, RequestStep(j) \/ BackoffElapses(j) \/ LeaseExpires(j)
      PROVE  TypeOK'
  BY <1>1, TypeRequestStep
<1>2. ASSUME NEW w \in Workers, WorkerStep(w)
      PROVE  TypeOK'
  BY <1>2, TypeWorkerStep
<1>3. ASSUME NEW w \in Workers,
             Heartbeat(w) \/ ReportProgress(w) \/ AbandonedHandlerEnds(w)
      PROVE  TypeOK'
  <2>1. CASE Heartbeat(w)
    BY <2>1 DEF TypeOK, Heartbeat, Attends, workerVars, historyVars
  <2>2. CASE ReportProgress(w)
    BY <2>2 DEF TypeOK, ReportProgress, Attends, Leases, workerVars, historyVars
  <2>3. CASE AbandonedHandlerEnds(w)
    BY <2>3 DEF TypeOK, AbandonedHandlerEnds, Attends, rowVars, historyVars
  <2> QED
    BY <1>3, <2>1, <2>2, <2>3
<1>4. ASSUME NEW w \in Workers, CrashRestart(w) \/ StatementFails(w)
      PROVE  TypeOK'
  BY <1>4 DEF TypeOK, CrashRestart, StatementFails, EndRun, Attends, Points, rowVars
<1>5. CASE UNCHANGED vars
  BY <1>5 DEF TypeOK, Attends, vars, rowVars, workerVars, historyVars
<1> QED
  BY <1>1, <1>2, <1>3, <1>4, <1>5 DEF Next

\* Every variable keeps its type, and a worker in RunOnce has a lease.
THEOREM TypeCorrect == Spec => []TypeOK
BY TypeInit, TypeStep, PTL DEF Spec

----------------------------------------------------------------------------
(* Refinement: each statement is a step of JobLifecycle, or a stutter.     *)

Abstract == [Lifecycle!LifecycleNext]_(Lifecycle!lifecycleVars)

LEMMA LifecycleInitial == Init => Lifecycle!LifecycleInit
BY DEF Init, Lifecycle!LifecycleInit

\* Where EndAttempt takes a running job.
LEMMA EndAttemptStep ==
    ASSUME NEW j \in Jobs, NEW again \in BOOLEAN,
           status[j] = "running", EndAttempt(j, again), UNCHANGED asked
    PROVE  Lifecycle!JobStep(j)
<1>1. CASE again
  BY <1>1 DEF EndAttempt, Lifecycle!JobStep, Lifecycle!Requeue, Lifecycle!Move
<1>2. CASE ~again
  BY <1>2 DEF EndAttempt, Lifecycle!JobStep, Lifecycle!GiveUp, Lifecycle!Move
<1> QED
  BY <1>1, <1>2

LEMMA LifecycleRequestStep ==
    ASSUME TypeOK, NEW j \in Jobs, RequestStep(j)
    PROVE  Abstract
<1> USE DEF Lifecycle!JobStep, Lifecycle!LifecycleNext, Lifecycle!Move
<1>1. CASE Submit(j)
  BY <1>1 DEF Submit, Abstract, Lifecycle!Create
<1>2. CASE Activate(j)
  BY <1>2 DEF Activate, Abstract, Lifecycle!lifecycleVars
<1>3. CASE RequestCancellation(j)
  <2>1. CASE status[j] = "queued"
    <3>1. Lifecycle!CancelQueued(j)
      BY <1>3, <2>1 DEF RequestCancellation, Lifecycle!CancelQueued
    <3> QED
      BY <3>1 DEF Abstract
  <2>2. CASE status[j] = "running"
    <3>1. status' = status
      BY <1>3, <2>2 DEF RequestCancellation, TypeOK
    <3>2. Lifecycle!AskRunning(j)
      BY <1>3, <2>2, <3>1 DEF RequestCancellation, Lifecycle!AskRunning
    <3> QED
      BY <3>2 DEF Abstract
  <2> QED
    BY <1>3, <2>1, <2>2 DEF RequestCancellation
<1>4. ASSUME NEW k \in Keys, ManualRetry(j, k)
      PROVE  Abstract
  BY <1>4 DEF ManualRetry, Abstract, Lifecycle!Requeue
<1> QED
  BY <1>1, <1>2, <1>3, <1>4 DEF RequestStep

LEMMA LifecycleWorkerStep ==
    ASSUME TypeOK, NEW w \in Workers, WorkerStep(w)
    PROVE  Abstract
<1> USE DEF Abstract, Lifecycle!LifecycleNext, Lifecycle!lifecycleVars
<1>1. CASE \/ ReadExpired(w) \/ FinishRecovery(w) \/ NothingToClaim(w) \/ HandlerReturns(w)
           \/ AbandonHandler(w) \/ CheckCancellation(w) \/ FailRefused(w) \/ RefuseResult(w)
  BY <1>1 DEF ReadExpired, FinishRecovery, NothingToClaim, HandlerReturns, AbandonHandler,
              CheckCancellation, FailRefused, RefuseResult, rowVars
<1>2. CASE RecoverOne(w)
  <2>1. PICK l \in expired[w] :
          IF Current(l) /\ leaseExpired[l.job]
          THEN EndAttempt(l.job, AttemptsLeft(l.job))
          ELSE UNCHANGED status
    BY <1>2 DEF RecoverOne
  <2>2. l.job \in Jobs /\ UNCHANGED asked
    BY <1>2 DEF RecoverOne, TypeOK, Leases
  <2>3. CASE Current(l) /\ leaseExpired[l.job]
    <3>1. EndAttempt(l.job, AttemptsLeft(l.job)) /\ status[l.job] = "running"
      BY <2>1, <2>3 DEF Current
    <3>2. AttemptsLeft(l.job) \in BOOLEAN
      BY DEF AttemptsLeft
    <3> QED
      BY <2>2, <3>1, <3>2, EndAttemptStep
  <2> QED
    BY <2>1, <2>2, <2>3
<1>3. CASE ClaimOne(w)
  BY <1>3 DEF ClaimOne, Claimable, Lifecycle!JobStep, Lifecycle!Start, Lifecycle!Move
<1>4. CASE FinishCancellation(w) \/ Complete(w)
  <2>1. lease[w].job \in Jobs
    BY <1>4 DEF FinishCancellation, Complete, TypeOK, Attends, Leases
  <2> QED
    BY <1>4, <2>1 DEF FinishCancellation, Complete, Current, Lifecycle!JobStep,
                      Lifecycle!CancelRunning, Lifecycle!Succeed, Lifecycle!Move
<1>5. CASE Fail(w)
  <2>1. lease[w].job \in Jobs /\ status[lease[w].job] = "running" /\ UNCHANGED asked
    BY <1>5 DEF Fail, Current, TypeOK, Attends, Leases
  <2>2. \E again \in BOOLEAN : EndAttempt(lease[w].job, again)
    <3>1. (outcome[w] = "retryable" /\ AttemptsLeft(lease[w].job)) \in BOOLEAN
      OBVIOUS
    <3> QED
      BY <1>5, <3>1 DEF Fail
  <2> QED
    BY <2>1, <2>2, EndAttemptStep
<1> QED
  BY <1>1, <1>2, <1>3, <1>4, <1>5 DEF WorkerStep, RunStep

LEMMA LifecycleStep == TypeOK /\ [Next]_vars => Abstract
<1> SUFFICES ASSUME TypeOK, [Next]_vars
             PROVE  Abstract
  OBVIOUS
<1>1. ASSUME NEW j \in Jobs, RequestStep(j)
      PROVE  Abstract
  BY <1>1, LifecycleRequestStep
<1>2. ASSUME NEW w \in Workers, WorkerStep(w)
      PROVE  Abstract
  BY <1>2, LifecycleWorkerStep
\* Time, heartbeats, progress and failures change no status.
<1>3. CASE \/ \E j \in Jobs : BackoffElapses(j) \/ LeaseExpires(j)
           \/ \E w \in Workers : \/ Heartbeat(w) \/ ReportProgress(w)
                                \/ AbandonedHandlerEnds(w) \/ CrashRestart(w)
                                \/ StatementFails(w)
           \/ UNCHANGED vars
  BY <1>3 DEF BackoffElapses, LeaseExpires, Heartbeat, ReportProgress, AbandonedHandlerEnds,
              CrashRestart, StatementFails, vars, rowVars, Abstract, Lifecycle!lifecycleVars
<1> QED
  BY <1>1, <1>2, <1>3 DEF Next

\* The SQL statements of the repository implement the transition table.
THEOREM Refinement == Spec => LifecycleSpec
<1>1. TypeOK /\ [Next]_vars => [Lifecycle!LifecycleNext]_(Lifecycle!lifecycleVars)
  BY LifecycleStep DEF Abstract
<1> QED
  BY <1>1, LifecycleInitial, TypeCorrect, PTL DEF Spec, LifecycleSpec, Lifecycle!LifecycleSpec

----------------------------------------------------------------------------
(* The attempt budget.  A job that may still be claimed is strictly below  *)
(* it: a run requeues its job only with attempts left, and a manual retry  *)
(* raises the budget of the job it requeues.                               *)

Budget(j) == MaxAttempts[j] + retries[j]

BudgetInv ==
    \A j \in Jobs :
        /\ attempt[j] <= Budget(j)
        /\ status[j] \in {"absent", "queued"} => attempt[j] < Budget(j)

LEMMA PositiveLimit == \A j \in Jobs : MaxAttempts[j] \in Nat /\ MaxAttempts[j] > 0
BY MaxAttemptsAssumption

LEMMA BudgetInit == Init => BudgetInv
<1> SUFFICES ASSUME Init, NEW j \in Jobs
             PROVE  attempt[j] < MaxAttempts[j] + retries[j] /\ attempt[j] <= MaxAttempts[j] + retries[j]
  BY DEF BudgetInv, Budget
<1>1. attempt[j] = 0 /\ retries[j] = 0
  BY DEF Init
<1> QED
  BY <1>1, PositiveLimit

\* A step after which every job that may be claimed could be claimed before it,
\* or is below max_attempts.
LEMMA BudgetKept ==
    ASSUME TypeOK, BudgetInv, UNCHANGED <<attempt, retries>>,
           \A i \in Jobs : \/ status'[i] \notin {"absent", "queued"}
                          \/ status[i] \in {"absent", "queued"}
                          \/ AttemptsLeft(i)
    PROVE  BudgetInv'
BY PositiveLimit DEF TypeOK, BudgetInv, Budget, AttemptsLeft

\* The step that ends an attempt.
LEMMA BudgetEndAttempt ==
    ASSUME TypeOK, BudgetInv, NEW j \in Jobs, NEW again \in BOOLEAN, again => AttemptsLeft(j),
           EndAttempt(j, again), UNCHANGED <<attempt, retries>>
    PROVE  BudgetInv'
<1>1. \A i \in Jobs : \/ status'[i] \notin {"absent", "queued"}
                     \/ status[i] \in {"absent", "queued"}
                     \/ AttemptsLeft(i)
  BY DEF EndAttempt, TypeOK
<1> QED
  BY <1>1, BudgetKept

LEMMA BudgetRequestStep ==
    ASSUME TypeOK, BudgetInv, NEW j \in Jobs, RequestStep(j)
    PROVE  BudgetInv'
<1>1. CASE Submit(j) \/ Activate(j) \/ RequestCancellation(j)
  BY <1>1 DEF Submit, Activate, RequestCancellation, historyVars, TypeOK, BudgetInv, Budget
<1>2. ASSUME NEW k \in Keys, ManualRetry(j, k)
      PROVE  BudgetInv'
  <2> SUFFICES ASSUME NEW i \in Jobs
               PROVE  /\ attempt'[i] <= MaxAttempts[i] + retries'[i]
                      /\ status'[i] \in {"absent", "queued"} =>
                             attempt'[i] < MaxAttempts[i] + retries'[i]
    BY DEF BudgetInv, Budget
  <2>1. CASE i = j
    BY <1>2, <2>1, PositiveLimit DEF ManualRetry, TypeOK, BudgetInv, Budget
  <2>2. CASE i # j
    BY <1>2, <2>2 DEF ManualRetry, TypeOK, BudgetInv, Budget
  <2> QED
    BY <2>1, <2>2
<1> QED
  BY <1>1, <1>2 DEF RequestStep

LEMMA BudgetWorkerStep ==
    ASSUME TypeOK, BudgetInv, NEW w \in Workers, WorkerStep(w)
    PROVE  BudgetInv'
<1>1. CASE \/ ReadExpired(w) \/ FinishRecovery(w) \/ NothingToClaim(w) \/ HandlerReturns(w)
           \/ AbandonHandler(w) \/ CheckCancellation(w) \/ FailRefused(w) \/ RefuseResult(w)
  BY <1>1 DEF ReadExpired, FinishRecovery, NothingToClaim, HandlerReturns, AbandonHandler,
              CheckCancellation, FailRefused, RefuseResult, rowVars, historyVars, BudgetInv, Budget
<1>2. CASE RecoverOne(w)
  <2>1. PICK l \in expired[w] :
          IF Current(l) /\ leaseExpired[l.job]
          THEN EndAttempt(l.job, AttemptsLeft(l.job))
          ELSE UNCHANGED status
    BY <1>2 DEF RecoverOne
  <2>2. l.job \in Jobs /\ UNCHANGED <<attempt, retries>>
    BY <1>2 DEF RecoverOne, TypeOK, Leases
  <2>3. CASE Current(l) /\ leaseExpired[l.job]
    <3>1. EndAttempt(l.job, AttemptsLeft(l.job)) /\ AttemptsLeft(l.job) \in BOOLEAN
      BY <2>1, <2>3 DEF AttemptsLeft
    <3> QED
      BY <2>2, <3>1, BudgetEndAttempt
  <2> QED
    BY <2>1, <2>2, <2>3 DEF BudgetInv, Budget
<1>3. CASE ClaimOne(w)
  <2>1. PICK j \in Jobs :
          /\ Claimable(j)
          /\ status' = [status EXCEPT ![j] = "running"]
          /\ attempt' = [attempt EXCEPT ![j] = @ + 1]
    BY <1>3 DEF ClaimOne
  <2>2. attempt[j] + 1 <= Budget(j)
    BY <2>1, PositiveLimit DEF Claimable, TypeOK, BudgetInv, Budget
  <2>3. retries' = retries
    BY <1>3 DEF ClaimOne, historyVars
  <2> QED
    BY <2>1, <2>2, <2>3 DEF TypeOK, BudgetInv, Budget
<1>4. CASE FinishCancellation(w) \/ Complete(w)
  BY <1>4 DEF FinishCancellation, Complete, historyVars, TypeOK, BudgetInv, Budget
<1>5. CASE Fail(w)
  <2>1. lease[w].job \in Jobs /\ UNCHANGED <<attempt, retries>>
    BY <1>5 DEF Fail, TypeOK, Attends, Leases, historyVars
  <2>2. EndAttempt(lease[w].job, outcome[w] = "retryable" /\ AttemptsLeft(lease[w].job))
    BY <1>5 DEF Fail
  <2> QED
    BY <2>1, <2>2, BudgetEndAttempt
<1> QED
  BY <1>1, <1>2, <1>3, <1>4, <1>5 DEF WorkerStep, RunStep

LEMMA BudgetStep == TypeOK /\ BudgetInv /\ [Next]_vars => BudgetInv'
<1> SUFFICES ASSUME TypeOK, BudgetInv, [Next]_vars
             PROVE  BudgetInv'
  OBVIOUS
<1>1. ASSUME NEW j \in Jobs, RequestStep(j)
      PROVE  BudgetInv'
  BY <1>1, BudgetRequestStep
<1>2. ASSUME NEW w \in Workers, WorkerStep(w)
      PROVE  BudgetInv'
  BY <1>2, BudgetWorkerStep
<1>3. CASE \/ \E j \in Jobs : BackoffElapses(j) \/ LeaseExpires(j)
           \/ \E w \in Workers : \/ Heartbeat(w) \/ ReportProgress(w)
                                \/ AbandonedHandlerEnds(w) \/ CrashRestart(w)
                                \/ StatementFails(w)
           \/ UNCHANGED vars
  BY <1>3 DEF BackoffElapses, LeaseExpires, Heartbeat, ReportProgress, AbandonedHandlerEnds,
              CrashRestart, StatementFails, vars, rowVars, historyVars, BudgetInv, Budget
<1> QED
  BY <1>1, <1>2, <1>3 DEF Next

\* No sequence of crashes, timeouts and recoveries attempts a job more than
\* max_attempts times, and each manual retry adds one attempt.
THEOREM BudgetHolds == Spec => []AttemptBudget
<1>1. BudgetInv => AttemptBudget
  BY DEF BudgetInv, AttemptBudget, Budget
<1> QED
  BY <1>1, BudgetInit, BudgetStep, TypeCorrect, PTL DEF Spec

----------------------------------------------------------------------------
(* Leases.  Versions only grow, so a worker's lease is at or below the     *)
(* version of its job, and below it once it has been revoked.              *)

LeaseInv ==
    /\ LeaseExclusive
    /\ \A w \in Workers : Attends(w) => lease[w].version <= leaseVersion[lease[w].job]

\* Current in the next state of a lease of this state.
CurrentNext(l) == status'[l.job] = "running" /\ leaseVersion'[l.job] = l.version

LEMMA LeaseInit == Init => LeaseInv
BY DEF Init, LeaseInv, LeaseExclusive, Attends

\* A step that gives no worker a lease and that revokes, of the leases still
\* attended, only those it records in recovered.
LEMMA LeaseKept ==
    ASSUME TypeOK, LeaseInv,
           \A w \in Workers : Attends(w)' => Attends(w) /\ lease'[w] = lease[w],
           \A j \in Jobs : leaseVersion'[j] >= leaseVersion[j] /\ leaseVersion'[j] \in Nat,
           \A j \in Jobs : recovered[j] \subseteq recovered'[j],
           \A w \in Workers :
               Attends(w)' /\ Current(lease[w]) =>
                   \/ CurrentNext(lease[w])
                   \/ lease[w].version \in recovered'[lease[w].job]
    PROVE  LeaseInv'
<1> SUFFICES ASSUME NEW w \in Workers, Attends(w)'
             PROVE  /\ \/ CurrentNext(lease[w])
                       \/ lease[w].version \in recovered'[lease[w].job]
                    /\ \A x \in Workers \ {w} : Attends(x)' => lease[x] # lease[w]
                    /\ lease[w].version <= leaseVersion'[lease[w].job]
  BY DEF LeaseInv, LeaseExclusive, Current, CurrentNext
<1>1. lease[w].job \in Jobs /\ lease[w].version \in Nat
  BY DEF TypeOK, Leases
<1>2. CurrentNext(lease[w]) \/ lease[w].version \in recovered'[lease[w].job]
  BY <1>1 DEF LeaseInv, LeaseExclusive
<1>3. \A x \in Workers \ {w} : Attends(x)' => lease[x] # lease[w]
  BY DEF LeaseInv, LeaseExclusive
<1>4. lease[w].version <= leaseVersion'[lease[w].job]
  BY <1>1 DEF LeaseInv, TypeOK
<1> QED
  BY <1>2, <1>3, <1>4

\* A statement under lease l leaves every other job as it is, so it takes no
\* other worker's lease: one for the same job was revoked before.
LEMMA OthersKept ==
    ASSUME TypeOK, LeaseInv, NEW w \in Workers, NEW l \in Leases, Current(l),
           NEW x \in Workers, Attends(x), Current(lease[x]), lease[x] # l,
           \A j \in Jobs \ {l.job} :
               status'[j] = status[j] /\ leaseVersion'[j] = leaseVersion[j]
    PROVE  CurrentNext(lease[x])
<1>1. lease[x] \in Leases
  BY DEF TypeOK
<1>2. lease[x].job # l.job
  BY <1>1 DEF Leases, Current
<1> QED
  BY <1>1, <1>2 DEF Leases, Current, CurrentNext

LEMMA LeaseRequestStep ==
    ASSUME TypeOK, LeaseInv, NEW j \in Jobs, RequestStep(j) \/ BackoffElapses(j) \/ LeaseExpires(j)
    PROVE  LeaseInv'
<1>1. UNCHANGED <<workerVars, leaseVersion, recovered>>
  BY DEF RequestStep, Submit, Activate, RequestCancellation, ManualRetry, BackoffElapses,
         LeaseExpires, historyVars
<1>2. \A i \in Jobs : status[i] = "running" => status'[i] = "running"
  BY DEF RequestStep, Submit, Activate, RequestCancellation, ManualRetry, BackoffElapses,
         LeaseExpires, TypeOK
<1>3. \A w \in Workers : Attends(w) /\ Current(lease[w]) => CurrentNext(lease[w])
  BY <1>1, <1>2 DEF Current, CurrentNext, TypeOK, Leases
<1> QED
  BY <1>1, <1>3, LeaseKept DEF workerVars, Attends, TypeOK

LEMMA LeaseRecover ==
    ASSUME TypeOK, LeaseInv, NEW w \in Workers, RecoverOne(w)
    PROVE  LeaseInv'
<1>1. PICK l \in expired[w] :
        IF Current(l) /\ leaseExpired[l.job]
        THEN /\ EndAttempt(l.job, AttemptsLeft(l.job))
             /\ leaseVersion' = [leaseVersion EXCEPT ![l.job] = @ + 1]
             /\ recovered' = [recovered EXCEPT ![l.job] = @ \cup {l.version}]
        ELSE UNCHANGED <<status, runAfter, leaseExpired, leaseVersion, recovered>>
  BY DEF RecoverOne
<1>2. l \in Leases /\ l.job \in Jobs /\ l.version \in Nat /\ UNCHANGED <<pc, lease>>
  BY DEF RecoverOne, TypeOK, Leases
<1>3. CASE Current(l) /\ leaseExpired[l.job]
  <2>1. /\ EndAttempt(l.job, AttemptsLeft(l.job))
        /\ leaseVersion' = [leaseVersion EXCEPT ![l.job] = @ + 1]
        /\ recovered' = [recovered EXCEPT ![l.job] = @ \cup {l.version}]
    BY <1>1, <1>3
  <2>2. \A j \in Jobs : leaseVersion'[j] >= leaseVersion[j] /\ leaseVersion'[j] \in Nat
    BY <1>2, <2>1 DEF TypeOK
  <2>3. /\ \A j \in Jobs : recovered[j] \subseteq recovered'[j]
        /\ l.version \in recovered'[l.job]
    BY <1>2, <2>1 DEF TypeOK
  <2>4. \A j \in Jobs \ {l.job} : status'[j] = status[j] /\ leaseVersion'[j] = leaseVersion[j]
    BY <2>1 DEF EndAttempt, TypeOK
  <2>5. ASSUME NEW x \in Workers, Attends(x), Current(lease[x])
        PROVE  CurrentNext(lease[x]) \/ lease[x].version \in recovered'[lease[x].job]
    <3>1. CASE lease[x] = l
      BY <2>3, <3>1
    <3>2. CASE lease[x] # l
      BY <1>2, <1>3, <2>4, <2>5, <3>2, OthersKept
    <3> QED
      BY <3>1, <3>2
  <2> QED
    BY <1>2, <2>2, <2>3, <2>5, LeaseKept DEF Attends
<1>4. CASE ~(Current(l) /\ leaseExpired[l.job])
  BY <1>1, <1>2, <1>4, LeaseKept DEF Attends, Current, CurrentNext, TypeOK
<1> QED
  BY <1>3, <1>4

LEMMA LeaseClaim ==
    ASSUME TypeOK, LeaseInv, NEW w \in Workers, ClaimOne(w)
    PROVE  LeaseInv'
<1>1. PICK j \in Jobs :
        /\ Claimable(j)
        /\ status' = [status EXCEPT ![j] = "running"]
        /\ leaseVersion' = [leaseVersion EXCEPT ![j] = @ + 1]
        /\ lease' = [lease EXCEPT ![w] = [job |-> j, version |-> leaseVersion[j] + 1]]
        /\ \E p \in Points : pc' = [pc EXCEPT ![w] = p]
  BY DEF ClaimOne, Points
<1>2. UNCHANGED recovered
  BY DEF ClaimOne, historyVars
<1>3. /\ lease'[w] = [job |-> j, version |-> leaseVersion[j] + 1]
      /\ leaseVersion'[j] = leaseVersion[j] + 1 /\ status'[j] = "running"
  BY <1>1 DEF TypeOK
\* The other workers keep their lease, below the new one if on the same job.
<1>4. ASSUME NEW x \in Workers \ {w}, Attends(x)'
      PROVE  /\ lease'[x] = lease[x]
             /\ CurrentNext(lease[x]) \/ lease[x].version \in recovered[lease[x].job]
             /\ lease[x].version <= leaseVersion'[lease[x].job]
             /\ lease[x] # lease'[w]
  <2>1. Attends(x) /\ lease'[x] = lease[x]
    BY <1>1, <1>4 DEF Attends, TypeOK
  <2>2. /\ lease[x].job \in Jobs /\ lease[x].version \in Nat
        /\ lease[x].version <= leaseVersion[lease[x].job]
    BY <2>1 DEF LeaseInv, TypeOK, Leases
  <2>3. CASE lease[x].job = j
    <3>1. ~Current(lease[x])
      BY <1>1, <2>3 DEF Claimable, Current
    <3>2. lease[x].version \in recovered[lease[x].job]
      BY <2>1, <3>1 DEF LeaseInv, LeaseExclusive
    <3>3. lease[x].version # lease'[w].version
      BY <1>3, <2>2, <2>3 DEF TypeOK
    <3> QED
      BY <1>3, <2>1, <2>2, <2>3, <3>2, <3>3 DEF TypeOK
  <2>4. CASE lease[x].job # j
    <3>1. /\ status'[lease[x].job] = status[lease[x].job]
          /\ leaseVersion'[lease[x].job] = leaseVersion[lease[x].job]
      BY <1>1, <2>2, <2>4 DEF TypeOK
    <3>2. lease[x].job # lease'[w].job
      BY <1>3, <2>4
    <3> QED
      BY <2>1, <2>2, <3>1, <3>2 DEF LeaseInv, LeaseExclusive, Current, CurrentNext
  <2> QED
    BY <2>3, <2>4
<1>5. CurrentNext(lease'[w]) /\ lease'[w].version <= leaseVersion'[lease'[w].job]
  BY <1>3 DEF CurrentNext, TypeOK
<1>6. \A x \in Workers : Attends(x)' =>
          /\ CurrentNext(lease'[x]) \/ lease'[x].version \in recovered'[lease'[x].job]
          /\ lease'[x].version <= leaseVersion'[lease'[x].job]
  BY <1>2, <1>4, <1>5
<1>7. \A x, y \in Workers : x # y /\ Attends(x)' /\ Attends(y)' => lease'[x] # lease'[y]
  <2> SUFFICES ASSUME NEW x \in Workers, NEW y \in Workers, x # y, Attends(x)', Attends(y)'
               PROVE  lease'[x] # lease'[y]
    OBVIOUS
  <2>1. CASE x = w \/ y = w
    BY <1>4, <2>1
  <2>2. CASE x # w /\ y # w
    <3>1. Attends(x) /\ Attends(y)
      BY <1>1, <2>2 DEF Attends, TypeOK
    <3> QED
      BY <1>4, <2>2, <3>1 DEF LeaseInv, LeaseExclusive
  <2> QED
    BY <2>1, <2>2
<1> QED
  BY <1>6, <1>7 DEF LeaseInv, LeaseExclusive, Current, CurrentNext

\* The statement that ends the run of w changes its own row, if it holds it.
LEMMA LeaseEndRun ==
    ASSUME TypeOK, LeaseInv, NEW w \in Workers, Attends(w), EndRun(w),
           UNCHANGED <<leaseVersion, recovered>>,
           \/ UNCHANGED status
           \/ /\ Current(lease[w])
              /\ \A j \in Jobs \ {lease[w].job} : status'[j] = status[j]
    PROVE  LeaseInv'
<1>1. ~Attends(w)'
  BY DEF EndRun, Attends, TypeOK
<1>2. \A x \in Workers \ {w} : pc'[x] = pc[x] /\ lease'[x] = lease[x]
  BY DEF EndRun, TypeOK
<1>3. ASSUME NEW x \in Workers, Attends(x)'
      PROVE  Attends(x) /\ lease'[x] = lease[x] /\ x # w
  BY <1>1, <1>2, <1>3 DEF Attends
<1>4. ASSUME NEW x \in Workers, Attends(x)', Current(lease[x])
      PROVE  CurrentNext(lease[x])
  <2>1. CASE UNCHANGED status
    BY <1>4, <2>1 DEF Current, CurrentNext
  <2>2. CASE Current(lease[w]) /\ \A j \in Jobs \ {lease[w].job} : status'[j] = status[j]
    <3>1. lease[w] \in Leases
      BY DEF TypeOK
    <3>2. lease[x] # lease[w]
      BY <1>3, <1>4 DEF LeaseInv, LeaseExclusive
    <3> QED
      BY <1>3, <1>4, <2>2, <3>1, <3>2, OthersKept
  <2> QED
    BY <2>1, <2>2
<1> QED
  BY <1>3, <1>4, LeaseKept DEF TypeOK

LEMMA LeaseWorkerStep ==
    ASSUME TypeOK, LeaseInv, NEW w \in Workers, WorkerStep(w)
    PROVE  LeaseInv'
<1>1. CASE \/ ReadExpired(w) \/ FinishRecovery(w) \/ NothingToClaim(w) \/ HandlerReturns(w)
           \/ AbandonHandler(w) \/ CheckCancellation(w)
  <2>1. UNCHANGED <<rowVars, lease, recovered>>
    BY <1>1 DEF ReadExpired, FinishRecovery, NothingToClaim, HandlerReturns, AbandonHandler,
                CheckCancellation, historyVars
  <2>2. \A x \in Workers : Attends(x)' => Attends(x)
    BY <1>1 DEF ReadExpired, FinishRecovery, NothingToClaim, HandlerReturns, AbandonHandler,
                CheckCancellation, Attends, TypeOK
  <2> QED
    BY <2>1, <2>2, LeaseKept DEF rowVars, Current, CurrentNext, TypeOK
<1>2. CASE RecoverOne(w)
  BY <1>2, LeaseRecover
<1>3. CASE ClaimOne(w)
  BY <1>3, LeaseClaim
<1>4. CASE FinishCancellation(w) \/ Complete(w) \/ Fail(w)
  <2>1. Attends(w) /\ EndRun(w) /\ UNCHANGED <<leaseVersion, recovered>>
    BY <1>4 DEF FinishCancellation, Complete, Fail, Attends, historyVars
  <2>2. \/ UNCHANGED status
        \/ /\ Current(lease[w])
           /\ \A j \in Jobs \ {lease[w].job} : status'[j] = status[j]
    BY <1>4 DEF FinishCancellation, Complete, Fail, EndAttempt, TypeOK
  <2> QED
    BY <2>1, <2>2, LeaseEndRun
<1>5. CASE FailRefused(w) \/ RefuseResult(w)
  <2>1. UNCHANGED <<rowVars, recovered>> /\ Attends(w)
    BY <1>5 DEF FailRefused, RefuseResult, Attends, historyVars
  <2>2. CASE EndRun(w)
    BY <2>1, <2>2, LeaseEndRun DEF rowVars
  <2>3. CASE pc' = [pc EXCEPT ![w] = "cancelling"] /\ UNCHANGED lease
    <3>1. \A x \in Workers : Attends(x)' => Attends(x)
      BY <2>1, <2>3 DEF Attends, TypeOK
    <3> QED
      BY <2>1, <2>3, <3>1, LeaseKept DEF rowVars, Current, CurrentNext, TypeOK
  <2> QED
    BY <1>5, <2>2, <2>3 DEF FailRefused, RefuseResult
<1> QED
  BY <1>1, <1>2, <1>3, <1>4, <1>5 DEF WorkerStep, RunStep

LEMMA LeaseStep == TypeOK /\ LeaseInv /\ [Next]_vars => LeaseInv'
<1> SUFFICES ASSUME TypeOK, LeaseInv, [Next]_vars
             PROVE  LeaseInv'
  OBVIOUS
<1>1. ASSUME NEW j \in Jobs, RequestStep(j) \/ BackoffElapses(j) \/ LeaseExpires(j)
      PROVE  LeaseInv'
  BY <1>1, LeaseRequestStep
<1>2. ASSUME NEW w \in Workers, WorkerStep(w)
      PROVE  LeaseInv'
  BY <1>2, LeaseWorkerStep
\* Neither a heartbeat nor progress nor a failure touches what a lease is.
<1>3. CASE \/ UNCHANGED vars
           \/ \E w \in Workers : \/ Heartbeat(w) \/ ReportProgress(w)
                                \/ AbandonedHandlerEnds(w) \/ CrashRestart(w)
                                \/ StatementFails(w)
  <2>1. UNCHANGED <<status, leaseVersion, recovered>>
    BY <1>3 DEF Heartbeat, ReportProgress, AbandonedHandlerEnds, CrashRestart, StatementFails,
                vars, rowVars, historyVars
  <2>2. \A x \in Workers : Attends(x)' => Attends(x) /\ lease'[x] = lease[x]
    <3>1. CASE \/ UNCHANGED vars
               \/ \E w \in Workers : Heartbeat(w) \/ ReportProgress(w) \/ AbandonedHandlerEnds(w)
      BY <3>1 DEF Heartbeat, ReportProgress, AbandonedHandlerEnds, vars, workerVars, Attends
    <3>2. ASSUME NEW w \in Workers, CrashRestart(w)
          PROVE  \A x \in Workers : Attends(x)' => Attends(x) /\ lease'[x] = lease[x]
      BY <3>2 DEF CrashRestart, EndRun, Attends, TypeOK
    <3>3. ASSUME NEW w \in Workers, StatementFails(w)
          PROVE  \A x \in Workers : Attends(x)' => Attends(x) /\ lease'[x] = lease[x]
      BY <3>3 DEF StatementFails, EndRun, Attends, TypeOK
    <3> QED
      BY <1>3, <3>1, <3>2, <3>3
  <2> QED
    BY <2>1, <2>2, LeaseKept DEF Current, CurrentNext, TypeOK
<1> QED
  BY <1>1, <1>2, <1>3 DEF Next

LEMMA LeaseInvariant == Spec => []LeaseInv
BY LeaseInit, LeaseStep, TypeCorrect, PTL DEF Spec

\* Two workers never attend a job under the same lease, and a worker loses the
\* lease it works under only to the recovery of expired leases.
THEOREM MutualExclusion == Spec => []LeaseExclusive
<1>1. LeaseInv => LeaseExclusive
  BY DEF LeaseInv
<1> QED
  BY <1>1, LeaseInvariant, PTL

----------------------------------------------------------------------------
(* Who ends a run, and progress.                                           *)

\* The only statements that take a job out of running.
LEMMA RunEnds ==
    ASSUME TypeOK, [Next]_vars, NEW j \in Jobs, status[j] = "running", status'[j] # "running"
    PROVE  \E w \in Workers :
               RecoverOne(w) \/ FinishCancellation(w) \/ Complete(w) \/ Fail(w)
<1>1. CASE \/ UNCHANGED vars
           \/ \E i \in Jobs : RequestStep(i) \/ BackoffElapses(i) \/ LeaseExpires(i)
  BY <1>1 DEF RequestStep, Submit, Activate, RequestCancellation, ManualRetry, BackoffElapses,
              LeaseExpires, vars, rowVars, TypeOK
<1>2. ASSUME NEW w \in Workers,
             \/ ReadExpired(w) \/ FinishRecovery(w) \/ ClaimOne(w) \/ NothingToClaim(w)
             \/ HandlerReturns(w) \/ AbandonHandler(w) \/ CheckCancellation(w)
             \/ FailRefused(w) \/ RefuseResult(w) \/ Heartbeat(w) \/ ReportProgress(w)
             \/ AbandonedHandlerEnds(w) \/ CrashRestart(w) \/ StatementFails(w)
      PROVE  FALSE
  BY <1>2 DEF ReadExpired, FinishRecovery, ClaimOne, NothingToClaim, HandlerReturns,
              AbandonHandler, CheckCancellation, FailRefused, RefuseResult, Heartbeat, ReportProgress,
              AbandonedHandlerEnds, CrashRestart, StatementFails, rowVars, TypeOK
<1> QED
  BY <1>1, <1>2 DEF Next, WorkerStep, RunStep

LEMMA HolderStep == TypeOK /\ [Next]_vars => EndsByHolder
<1> SUFFICES ASSUME TypeOK, [Next]_vars, NEW j \in Jobs, status[j] = "running",
                    status'[j] # "running"
             PROVE  \/ leaseExpired[j] /\ leaseVersion'[j] > leaseVersion[j]
                    \/ \E w \in Workers :
                         /\ Attends(w) /\ lease[w] = [job |-> j, version |-> leaseVersion[j]]
                         /\ pc'[w] = "polling"
  BY DEF EndsByHolder
<1>1. ASSUME NEW w \in Workers, RecoverOne(w)
      PROVE  leaseExpired[j] /\ leaseVersion'[j] > leaseVersion[j]
  <2>1. PICK l \in expired[w] :
          IF Current(l) /\ leaseExpired[l.job]
          THEN /\ EndAttempt(l.job, AttemptsLeft(l.job))
               /\ leaseVersion' = [leaseVersion EXCEPT ![l.job] = @ + 1]
          ELSE UNCHANGED status
    BY <1>1 DEF RecoverOne
  <2>2. Current(l) /\ leaseExpired[l.job]
    BY <2>1
  <2>3. /\ status' = [status EXCEPT ![l.job] = IF AttemptsLeft(l.job) THEN "queued" ELSE "failed"]
        /\ leaseVersion' = [leaseVersion EXCEPT ![l.job] = @ + 1]
    BY <2>1, <2>2 DEF EndAttempt
  <2>4. l.job = j
    BY <2>3 DEF TypeOK
  <2> QED
    BY <2>2, <2>3, <2>4 DEF TypeOK
<1>2. ASSUME NEW w \in Workers, FinishCancellation(w) \/ Complete(w) \/ Fail(w)
      PROVE  /\ Attends(w) /\ lease[w] = [job |-> j, version |-> leaseVersion[j]]
             /\ pc'[w] = "polling"
  <2>1. Attends(w) /\ EndRun(w)
    BY <1>2 DEF FinishCancellation, Complete, Fail, Attends
  <2>2. Current(lease[w]) /\ \A i \in Jobs \ {lease[w].job} : status'[i] = status[i]
    BY <1>2 DEF FinishCancellation, Complete, Fail, EndAttempt, TypeOK
  <2>3. lease[w] \in Leases /\ lease[w].job = j
    BY <2>1, <2>2 DEF TypeOK
  <2> QED
    BY <2>1, <2>2, <2>3 DEF Leases, Current, EndRun, TypeOK
<1> QED
  BY <1>1, <1>2, RunEnds

\* A running job is released by the worker that holds its lease, in the last
\* step of its run, or by the recovery of an expired lease.
THEOREM HolderReleases == Spec => ReleasedByHolder
<1>1. TypeOK /\ [Next]_vars => [EndsByHolder]_vars
  BY HolderStep
<1> QED
  BY <1>1, TypeCorrect, PTL DEF Spec, ReleasedByHolder

\* No run reports progress under a version its job has not reached yet.
ProgressInv == \A j \in Jobs : progress[j] <= leaseVersion[j]

LEMMA ProgressStep ==
    TypeOK /\ ProgressInv /\ [Next]_vars => ProgressInv' /\ ProgressGrows
<1> SUFFICES ASSUME TypeOK, ProgressInv, [Next]_vars
             PROVE  ProgressInv' /\ ProgressGrows
  OBVIOUS
<1>1. ASSUME NEW w \in Workers, ReportProgress(w)
      PROVE  ProgressInv' /\ ProgressGrows
  <2>1. PICK l \in handlers[w] : Current(l) /\ progress' = [progress EXCEPT ![l.job] = l.version]
    BY <1>1 DEF ReportProgress
  <2>2. l.job \in Jobs /\ l.version = leaseVersion[l.job] /\ UNCHANGED leaseVersion
    BY <1>1, <2>1 DEF ReportProgress, Current, TypeOK, Leases
  <2> QED
    BY <2>1, <2>2 DEF ProgressInv, ProgressGrows, TypeOK
<1>2. CASE progress' = progress /\ \A j \in Jobs : leaseVersion'[j] >= leaseVersion[j]
                              /\ leaseVersion'[j] \in Nat
  BY <1>2 DEF ProgressInv, ProgressGrows, TypeOK
<1>3. \/ \E w \in Workers : ReportProgress(w)
      \/ progress' = progress /\ \A j \in Jobs : leaseVersion'[j] >= leaseVersion[j]
                              /\ leaseVersion'[j] \in Nat
  <2>1. CASE \/ UNCHANGED vars
             \/ \E j \in Jobs : RequestStep(j) \/ BackoffElapses(j) \/ LeaseExpires(j)
    BY <2>1 DEF RequestStep, Submit, Activate, RequestCancellation, ManualRetry, BackoffElapses,
                LeaseExpires, vars, rowVars, TypeOK
  <2>2. ASSUME NEW w \in Workers, WorkerStep(w)
        PROVE  progress' = progress /\ \A j \in Jobs : leaseVersion'[j] >= leaseVersion[j]
                                /\ leaseVersion'[j] \in Nat
    <3>1. CASE RecoverOne(w) \/ ClaimOne(w)
      <4>1. \/ UNCHANGED leaseVersion
            \/ \E j \in Jobs : leaseVersion' = [leaseVersion EXCEPT ![j] = @ + 1]
        BY <3>1 DEF RecoverOne, ClaimOne, TypeOK, Leases
      <4>2. progress' = progress
        BY <3>1 DEF RecoverOne, ClaimOne
      <4> QED
        BY <4>1, <4>2 DEF TypeOK
    <3>2. CASE ~(RecoverOne(w) \/ ClaimOne(w))
      <4>1. UNCHANGED <<progress, leaseVersion>>
        BY <2>2, <3>2 DEF WorkerStep, RunStep, ReadExpired, FinishRecovery, NothingToClaim,
              HandlerReturns, AbandonHandler, CheckCancellation, FinishCancellation, Complete,
              Fail, FailRefused, RefuseResult, rowVars
      <4> QED
        BY <4>1 DEF TypeOK
    <3> QED
      BY <3>1, <3>2
  <2>3. ASSUME NEW w \in Workers,
               Heartbeat(w) \/ AbandonedHandlerEnds(w) \/ CrashRestart(w) \/ StatementFails(w)
        PROVE  progress' = progress /\ \A j \in Jobs : leaseVersion'[j] >= leaseVersion[j]
                                /\ leaseVersion'[j] \in Nat
    BY <2>3 DEF Heartbeat, AbandonedHandlerEnds, CrashRestart, StatementFails, rowVars, TypeOK
  <2> QED
    BY <2>1, <2>2, <2>3 DEF Next
<1> QED
  BY <1>1, <1>2, <1>3

\* A handler that the worker has abandoned cannot overwrite the progress of
\* the run that followed.
THEOREM ProgressMonotone == Spec => ProgressNeverGoesBack
<1>1. Init => ProgressInv
  <2> SUFFICES ASSUME Init, NEW j \in Jobs
               PROVE  progress[j] <= leaseVersion[j]
    BY DEF ProgressInv
  <2>1. progress[j] = 0 /\ leaseVersion[j] = 0
    BY DEF Init
  <2> QED
    BY <2>1
<1>2. TypeOK /\ ProgressInv /\ [Next]_vars => ProgressInv' /\ [ProgressGrows]_vars
  BY ProgressStep
<1> QED
  BY <1>1, <1>2, TypeCorrect, PTL DEF Spec, ProgressNeverGoesBack

----------------------------------------------------------------------------
(* Cancellation.                                                           *)

\* What JobLifecycle says of a job that has ended and of one that was asked to.
LEMMA AbstractKeepsEnded ==
    ASSUME TypeOK, [Lifecycle!LifecycleNext]_(Lifecycle!lifecycleVars)
    PROVE  EndedStays
<1>1. CASE UNCHANGED Lifecycle!lifecycleVars
  BY <1>1 DEF Lifecycle!lifecycleVars, EndedStays
<1>2. ASSUME NEW i \in Jobs, Lifecycle!JobStep(i)
      PROVE  EndedStays
  <2> USE DEF TypeOK, EndedStays, Lifecycle!Move
  <2>1. CASE Lifecycle!Create(i) \/ Lifecycle!Start(i) \/ Lifecycle!Succeed(i)
    BY <2>1 DEF Lifecycle!Create, Lifecycle!Start, Lifecycle!Succeed
  <2>2. CASE Lifecycle!GiveUp(i) \/ Lifecycle!Requeue(i) \/ Lifecycle!CancelRunning(i)
    BY <2>2 DEF Lifecycle!GiveUp, Lifecycle!Requeue, Lifecycle!CancelRunning
  <2>3. CASE Lifecycle!CancelQueued(i) \/ Lifecycle!AskRunning(i)
    BY <2>3 DEF Lifecycle!CancelQueued, Lifecycle!AskRunning
  <2> QED
    BY <1>2, <2>1, <2>2, <2>3 DEF Lifecycle!JobStep
<1> QED
  BY <1>1, <1>2 DEF Lifecycle!LifecycleNext

\* The repository inherits from the life cycle it implements that the end of a job
\* is final, and that a job does not succeed once its cancellation was requested.
THEOREM TheEndIsFinal == Spec => EndedIsFinal
<1>1. TypeOK /\ [Lifecycle!LifecycleNext]_(Lifecycle!lifecycleVars) => [EndedStays]_vars
  BY AbstractKeepsEnded
<1> QED
  BY <1>1, Refinement, TypeCorrect, PTL
  DEF Spec, LifecycleSpec, Lifecycle!LifecycleSpec, EndedIsFinal

\* A job that was not submitted was not asked to end either.
AskedInv ==
    /\ CancelLostToRecovery
    /\ \A j \in Jobs : status[j] = "absent" => ~asked[j]

LEMMA AskedRequestStep ==
    ASSUME TypeOK, AskedInv, NEW j \in Jobs, RequestStep(j)
    PROVE  AskedInv'
<1> USE DEF TypeOK, AskedInv, CancelLostToRecovery, historyVars
<1>1. CASE Submit(j) \/ Activate(j)
  BY <1>1 DEF Submit, Activate
<1>2. CASE RequestCancellation(j)
  BY <1>2 DEF RequestCancellation
<1>3. ASSUME NEW k \in Keys, ManualRetry(j, k)
      PROVE  AskedInv'
  BY <1>3 DEF ManualRetry
<1> QED
  BY <1>1, <1>2, <1>3 DEF RequestStep

LEMMA AskedWorkerStep ==
    ASSUME TypeOK, AskedInv, NEW w \in Workers, WorkerStep(w)
    PROVE  AskedInv'
<1>1. CASE RecoverOne(w)
  <2>1. PICK l \in expired[w] :
          IF Current(l) /\ leaseExpired[l.job]
          THEN /\ EndAttempt(l.job, AttemptsLeft(l.job))
               /\ recovered' = [recovered EXCEPT ![l.job] = @ \cup {l.version}]
          ELSE UNCHANGED <<status, recovered>>
    BY <1>1 DEF RecoverOne
  <2>2. l.job \in Jobs /\ UNCHANGED asked
    BY <1>1 DEF RecoverOne, TypeOK, Leases
  <2>3. CASE Current(l) /\ leaseExpired[l.job]
    <3>1. l.version \in recovered'[l.job]
      BY <2>1, <2>2, <2>3 DEF TypeOK
    <3>2. /\ \A j \in Jobs \ {l.job} : status'[j] = status[j] /\ recovered'[j] = recovered[j]
          /\ status'[l.job] # "absent"
      BY <2>1, <2>2, <2>3 DEF EndAttempt, TypeOK
    <3> QED
      BY <2>2, <3>1, <3>2 DEF AskedInv, CancelLostToRecovery
  <2>4. CASE ~(Current(l) /\ leaseExpired[l.job])
    BY <2>1, <2>2, <2>4 DEF AskedInv, CancelLostToRecovery
  <2> QED
    BY <2>3, <2>4
<1>2. CASE ClaimOne(w)
  BY <1>2 DEF ClaimOne, TypeOK, AskedInv, CancelLostToRecovery, historyVars
<1>3. CASE FinishCancellation(w) \/ Complete(w) \/ Fail(w)
  <2>1. lease[w].job \in Jobs /\ UNCHANGED <<asked, recovered>>
    BY <1>3 DEF FinishCancellation, Complete, Fail, Attends, TypeOK, Leases, historyVars
  <2>2. \/ UNCHANGED status
        \/ /\ status'[lease[w].job] \in {"succeeded", "cancelled"} \/ ~asked[lease[w].job]
           /\ status'[lease[w].job] # "absent"
           /\ \A j \in Jobs \ {lease[w].job} : status'[j] = status[j]
    BY <1>3, <2>1 DEF FinishCancellation, Complete, Fail, EndAttempt, TypeOK
  <2> QED
    BY <2>1, <2>2 DEF AskedInv, CancelLostToRecovery
<1>4. CASE ~(RecoverOne(w) \/ ClaimOne(w) \/ FinishCancellation(w) \/ Complete(w) \/ Fail(w))
  <2>1. UNCHANGED <<status, asked, recovered>>
    BY <1>4 DEF WorkerStep, RunStep, ReadExpired, FinishRecovery, NothingToClaim, HandlerReturns,
                AbandonHandler, CheckCancellation, FailRefused, RefuseResult, rowVars, historyVars
  <2> QED
    BY <2>1 DEF AskedInv, CancelLostToRecovery
<1> QED
  BY <1>1, <1>2, <1>3, <1>4

LEMMA AskedStep == TypeOK /\ AskedInv /\ [Next]_vars => AskedInv'
<1> SUFFICES ASSUME TypeOK, AskedInv, [Next]_vars
             PROVE  AskedInv'
  OBVIOUS
<1>1. CASE \/ UNCHANGED vars
           \/ \E j \in Jobs : BackoffElapses(j) \/ LeaseExpires(j)
           \/ \E w \in Workers : \/ Heartbeat(w) \/ ReportProgress(w) \/ AbandonedHandlerEnds(w)
                                \/ CrashRestart(w) \/ StatementFails(w)
  BY <1>1 DEF vars, BackoffElapses, LeaseExpires, Heartbeat, ReportProgress,
              AbandonedHandlerEnds, CrashRestart, StatementFails, rowVars, historyVars,
              AskedInv, CancelLostToRecovery
<1> QED
  BY <1>1, AskedRequestStep, AskedWorkerStep DEF Next

\* A cancellation that was requested of a running job and does not take effect was
\* lost to a recovery: a failure, a retry by hand or another worker never lose it.
THEOREM OnlyRecoveryLosesCancellation == Spec => []CancelLostToRecovery
<1>1. Init => AskedInv
  BY DEF Init, AskedInv, CancelLostToRecovery
<1>2. AskedInv => CancelLostToRecovery
  BY DEF AskedInv
<1> QED
  BY <1>1, <1>2, AskedStep, TypeCorrect, PTL DEF Spec

----------------------------------------------------------------------------
(* Running jobs and the workers that attend to them.                       *)

\* The worker that w is attends to the lease that the row of j is at.
Holds(w, j) == Attends(w) /\ lease[w] = [job |-> j, version |-> leaseVersion[j]]

\* The worker that finishes a cancellation has seen the request.
AttendedInv ==
    /\ UnattendedByFault
    /\ \A w \in Workers : pc[w] = "cancelling" => asked[lease[w].job]

\* A step of w that takes no other worker's lease and leaves no job running
\* but those that its worker still attends to.
LEMMA AttendedKept ==
    ASSUME TypeOK, AttendedInv, NEW w \in Workers,
           crashes' = crashes,
           \A x \in Workers \ {w} : pc'[x] = pc[x] /\ lease'[x] = lease[x],
           \A j \in Jobs : (asked[j] => asked'[j]) /\ refused[j] \subseteq refused'[j],
           \A j \in Jobs :
               status'[j] = "running" =>
                   \/ asked'[j] \/ leaseVersion'[j] \in refused'[j]
                   \/ Holds(w, j)'
                   \/ /\ status[j] = "running" /\ leaseVersion'[j] = leaseVersion[j]
                      /\ Holds(w, j) => Holds(w, j)',
           pc'[w] = "cancelling" => asked'[lease'[w].job]
    PROVE  AttendedInv'
<1>1. ASSUME NEW j \in Jobs, status'[j] = "running"
      PROVE  \/ \E x \in Workers : Holds(x, j)'
             \/ crashes' > 0 \/ asked'[j] \/ leaseVersion'[j] \in refused'[j]
  <2>1. CASE status[j] = "running" /\ leaseVersion'[j] = leaseVersion[j] /\ (Holds(w, j) => Holds(w, j)')
    <3>1. \/ \E x \in Workers : Holds(x, j)
          \/ crashes > 0 \/ asked[j] \/ leaseVersion[j] \in refused[j]
      BY <2>1 DEF AttendedInv, UnattendedByFault, Holds
    <3>2. ASSUME NEW x \in Workers \ {w}, Holds(x, j)
          PROVE  Holds(x, j)'
      BY <2>1, <3>2 DEF Holds, Attends
    <3> QED
      BY <2>1, <3>1, <3>2
  <2> QED
    BY <1>1, <2>1
<1>2. ASSUME NEW x \in Workers, pc'[x] = "cancelling"
      PROVE  asked'[lease'[x].job]
  <2>1. CASE x = w
    BY <1>2, <2>1
  <2>2. CASE x # w
    <3>1. lease[x].job \in Jobs /\ asked[lease[x].job]
      BY <1>2, <2>2 DEF AttendedInv, TypeOK, Attends, Leases
    <3> QED
      BY <2>2, <3>1
  <2> QED
    BY <2>1, <2>2
<1> QED
  BY <1>1, <1>2 DEF AttendedInv, UnattendedByFault, Holds, Attends

LEMMA AttendedRequestStep ==
    ASSUME TypeOK, AttendedInv, NEW j \in Jobs, RequestStep(j) \/ BackoffElapses(j) \/ LeaseExpires(j)
    PROVE  AttendedInv'
<1>1. UNCHANGED <<pc, lease, leaseVersion, refused, crashes>>
  BY DEF RequestStep, Submit, Activate, RequestCancellation, ManualRetry, BackoffElapses,
         LeaseExpires, workerVars, historyVars
<1>2. \A i \in Jobs : (asked[i] => asked'[i]) /\ (status'[i] = "running" => status[i] = "running")
  BY DEF RequestStep, Submit, Activate, RequestCancellation, ManualRetry, BackoffElapses,
         LeaseExpires, TypeOK
<1> QED
  BY <1>1, <1>2 DEF AttendedInv, UnattendedByFault, Attends, TypeOK, Leases

LEMMA AttendedWorkerStep ==
    ASSUME TypeOK, AttendedInv, NEW w \in Workers, WorkerStep(w)
    PROVE  AttendedInv'
<1>0. \A x \in Workers \ {w} : pc'[x] = pc[x] /\ lease'[x] = lease[x]
  BY DEF WorkerStep, RunStep, ReadExpired, RecoverOne, FinishRecovery, ClaimOne, NothingToClaim,
         HandlerReturns, AbandonHandler, CheckCancellation, FinishCancellation, Complete, Fail,
         FailRefused, RefuseResult, EndRun, TypeOK
<1>1. UNCHANGED <<crashes, asked>>
  BY DEF WorkerStep, RunStep, ReadExpired, RecoverOne, FinishRecovery, ClaimOne, NothingToClaim,
         HandlerReturns, AbandonHandler, CheckCancellation, FinishCancellation, Complete, Fail,
         FailRefused, RefuseResult, rowVars, historyVars
<1>9. \A j \in Jobs : refused[j] \subseteq refused'[j]
  <2>1. CASE RefuseResult(w)
    BY <2>1 DEF RefuseResult, TypeOK
  <2>2. CASE ~RefuseResult(w)
    <3>1. UNCHANGED refused
      BY <2>2 DEF WorkerStep, RunStep, ReadExpired, RecoverOne, FinishRecovery, ClaimOne,
            NothingToClaim, HandlerReturns, AbandonHandler, CheckCancellation, FinishCancellation,
            Complete, Fail, FailRefused, rowVars, historyVars
    <3> QED
      BY <3>1
  <2> QED
    BY <2>1, <2>2
<1>2. CASE ReadExpired(w) \/ FinishRecovery(w) \/ NothingToClaim(w)
  BY <1>0, <1>1, <1>2, <1>9, AttendedKept DEF ReadExpired, FinishRecovery, NothingToClaim, Holds,
     Attends, TypeOK, rowVars
<1>3. CASE RecoverOne(w)
  <2>1. PICK l \in expired[w] :
          IF Current(l) /\ leaseExpired[l.job]
          THEN /\ EndAttempt(l.job, AttemptsLeft(l.job))
               /\ leaseVersion' = [leaseVersion EXCEPT ![l.job] = @ + 1]
          ELSE UNCHANGED <<status, leaseVersion>>
    BY <1>3 DEF RecoverOne
  <2>2. l.job \in Jobs /\ UNCHANGED <<pc, lease>> /\ pc[w] = "recovering"
    BY <1>3 DEF RecoverOne, TypeOK, Leases
  <2>3. \A j \in Jobs : status'[j] = "running" =>
            status[j] = "running" /\ leaseVersion'[j] = leaseVersion[j]
    BY <2>1, <2>2 DEF EndAttempt, TypeOK
  <2> QED
    BY <1>0, <1>1, <2>2, <2>3, <1>9, AttendedKept DEF Holds, Attends
<1>4. CASE ClaimOne(w)
  <2>1. PICK j \in Jobs :
          /\ status' = [status EXCEPT ![j] = "running"]
          /\ leaseVersion' = [leaseVersion EXCEPT ![j] = @ + 1]
          /\ lease' = [lease EXCEPT ![w] = [job |-> j, version |-> leaseVersion[j] + 1]]
          /\ \E p \in {"executing", "reporting"} : pc' = [pc EXCEPT ![w] = p]
    BY <1>4 DEF ClaimOne
  <2>2. Holds(w, j)' /\ pc'[w] # "cancelling" /\ pc[w] = "claiming"
    BY <1>4, <2>1 DEF Holds, Attends, TypeOK, ClaimOne
  <2>3. \A i \in Jobs \ {j} : status'[i] = status[i] /\ leaseVersion'[i] = leaseVersion[i]
    BY <2>1 DEF TypeOK
  <2> QED
    BY <1>0, <1>1, <2>2, <2>3, <1>9, AttendedKept DEF Holds, Attends
<1>5. CASE HandlerReturns(w) \/ AbandonHandler(w) \/ CheckCancellation(w)
  <2>1. UNCHANGED <<status, leaseVersion, lease>>
    BY <1>5 DEF HandlerReturns, AbandonHandler, CheckCancellation, rowVars
  <2>2. \A j \in Jobs : Holds(w, j) => Holds(w, j)'
    BY <1>5, <2>1 DEF HandlerReturns, AbandonHandler, CheckCancellation, Holds, Attends, TypeOK
  <2>3. pc'[w] = "cancelling" => asked'[lease'[w].job]
    BY <1>1, <1>5, <2>1 DEF HandlerReturns, AbandonHandler, CheckCancellation, TypeOK
  <2> QED
    BY <1>0, <1>1, <2>1, <2>2, <2>3, <1>9, AttendedKept
<1>6. CASE FinishCancellation(w) \/ Complete(w) \/ Fail(w)
  <2>1. /\ Attends(w) /\ lease[w] \in Leases /\ UNCHANGED leaseVersion /\ pc'[w] = "polling"
        /\ pc[w] = "cancelling" => asked[lease[w].job]
    BY <1>6 DEF FinishCancellation, Complete, Fail, EndRun, Attends, AttendedInv, TypeOK
  <2>2. ASSUME NEW j \in Jobs, status'[j] = "running", Holds(w, j)
        PROVE  asked'[j]
    <3>1. lease[w].job = j /\ (Current(lease[w]) \/ status[j] # "running")
      BY <2>2 DEF Holds, Current
    <3> QED
      BY <1>1, <1>6, <2>1, <2>2, <3>1
      DEF FinishCancellation, Complete, Fail, EndAttempt, TypeOK, Current
  <2>3. \A j \in Jobs : status'[j] = "running" => status[j] = "running"
    BY <1>6 DEF FinishCancellation, Complete, Fail, EndAttempt, TypeOK
  <2> QED
    BY <1>0, <1>1, <2>1, <2>2, <2>3, <1>9, AttendedKept
<1>7. CASE FailRefused(w)
  <2>1. Attends(w) /\ lease[w] \in Leases /\ UNCHANGED <<status, leaseVersion>>
    BY <1>7 DEF FailRefused, Attends, TypeOK, rowVars
  <2>2. ASSUME NEW j \in Jobs, status[j] = "running", Holds(w, j)
        PROVE  asked[j]
    BY <1>7, <2>2 DEF FailRefused, Holds, Current
  <2>3. pc'[w] = "cancelling" => asked'[lease'[w].job]
    BY <1>1, <1>7 DEF FailRefused, EndRun, TypeOK
  <2> QED
    BY <1>0, <1>1, <2>1, <2>2, <2>3, <1>9, AttendedKept
<1>8. CASE RefuseResult(w)
  <2>1. /\ lease[w] \in Leases /\ UNCHANGED <<status, leaseVersion>> /\ pc'[w] = "polling"
        /\ refused' = [refused EXCEPT ![lease[w].job] = @ \cup {lease[w].version}]
    BY <1>8 DEF RefuseResult, EndRun, Attends, TypeOK, rowVars
  <2>2. ASSUME NEW j \in Jobs, Holds(w, j)
        PROVE  leaseVersion'[j] \in refused'[j]
    BY <2>1, <2>2 DEF Holds, TypeOK
  <2> QED
    BY <1>0, <1>1, <2>1, <2>2, <1>9, AttendedKept
<1> QED
  BY <1>2, <1>3, <1>4, <1>5, <1>6, <1>7, <1>8 DEF WorkerStep, RunStep

LEMMA AttendedStep == TypeOK /\ AttendedInv /\ [Next]_vars => AttendedInv'
<1> SUFFICES ASSUME TypeOK, AttendedInv, [Next]_vars
             PROVE  AttendedInv'
  OBVIOUS
<1>1. ASSUME NEW w \in Workers, Heartbeat(w) \/ ReportProgress(w) \/ AbandonedHandlerEnds(w)
      PROVE  AttendedInv'
  BY <1>1 DEF Heartbeat, ReportProgress, AbandonedHandlerEnds, workerVars, rowVars, historyVars,
              AttendedInv, UnattendedByFault, Attends
<1>2. ASSUME NEW w \in Workers, CrashRestart(w) \/ StatementFails(w)
      PROVE  AttendedInv'
  <2>1. crashes' > 0 /\ UNCHANGED asked
    BY <1>2 DEF CrashRestart, StatementFails, TypeOK, rowVars
  <2>2. \A x \in Workers : pc'[x] = "cancelling" => pc[x] = "cancelling" /\ lease'[x] = lease[x]
    BY <1>2 DEF CrashRestart, StatementFails, EndRun, TypeOK
  <2> QED
    BY <2>1, <2>2 DEF AttendedInv, UnattendedByFault
<1>3. CASE UNCHANGED vars
  BY <1>3 DEF vars, workerVars, rowVars, historyVars, AttendedInv, UnattendedByFault, Attends
<1> QED
  BY <1>1, <1>2, <1>3, AttendedRequestStep, AttendedWorkerStep DEF Next

\* A worker leaves a job running behind it only when it dies, when a statement of its
\* fails, when the job was asked to end while its result was being recorded, or when
\* Complete refused its result, as the result of a large import.
THEOREM OnlyFaultsLeaveJobs == Spec => []UnattendedByFault
<1>1. Init => AttendedInv
  BY DEF Init, AttendedInv, UnattendedByFault
<1>2. AttendedInv => UnattendedByFault
  BY DEF AttendedInv
<1> QED
  BY <1>1, <1>2, AttendedStep, TypeCorrect, PTL DEF Spec

----------------------------------------------------------------------------
(* Handlers.                                                               *)

\* A lease starts one handler, and its job has had that lease.
HandlersInv ==
    \A w \in Workers : \A l \in handlers[w] :
        /\ l.version <= leaseVersion[l.job]
        /\ \A x \in Workers \ {w} : l \notin handlers[x]

LEMMA HandlersKept ==
    ASSUME TypeOK, HandlersInv,
           \A w \in Workers : handlers'[w] \subseteq handlers[w],
           \A j \in Jobs : leaseVersion'[j] >= leaseVersion[j] /\ leaseVersion'[j] \in Nat
    PROVE  HandlersInv'
<1> SUFFICES ASSUME NEW w \in Workers, NEW l \in handlers'[w]
             PROVE  /\ l.version <= leaseVersion'[l.job]
                    /\ \A x \in Workers \ {w} : l \notin handlers'[x]
  BY DEF HandlersInv
<1>1. l \in handlers[w] /\ l.job \in Jobs /\ l.version \in Nat
  BY DEF TypeOK, Leases
<1> QED
  BY <1>1 DEF HandlersInv, TypeOK

LEMMA HandlersClaim ==
    ASSUME TypeOK, HandlersInv, NEW w \in Workers, ClaimOne(w)
    PROVE  HandlersInv'
<1>1. PICK j \in Jobs :
        /\ leaseVersion' = [leaseVersion EXCEPT ![j] = @ + 1]
        /\ \/ handlers' = [handlers EXCEPT ![w] = @ \cup {[job |-> j, version |-> leaseVersion[j] + 1]}]
           \/ UNCHANGED handlers
  BY DEF ClaimOne
<1>2. \A i \in Jobs : leaseVersion'[i] >= leaseVersion[i] /\ leaseVersion'[i] \in Nat
  BY <1>1 DEF TypeOK
<1> DEFINE n == [job |-> j, version |-> leaseVersion[j] + 1]
<1>3. CASE handlers' = [handlers EXCEPT ![w] = @ \cup {n}]
  <2>1. ASSUME NEW x \in Workers
        PROVE  n \notin handlers[x]
    BY DEF HandlersInv, TypeOK
  <2>2. \A x \in Workers : handlers'[x] = handlers[x] \/ (x = w /\ handlers'[x] = handlers[x] \cup {n})
    BY <1>3 DEF TypeOK
  <2>3. n.version <= leaseVersion'[n.job]
    BY <1>1 DEF TypeOK
  <2> SUFFICES ASSUME NEW x \in Workers, NEW l \in handlers'[x]
               PROVE  /\ l.version <= leaseVersion'[l.job]
                      /\ \A y \in Workers \ {x} : l \notin handlers'[y]
    BY DEF HandlersInv
  <2>4. CASE l = n
    <3>1. x = w
      BY <2>1, <2>2, <2>4
    <3> QED
      BY <2>1, <2>2, <2>3, <2>4, <3>1
  <2>5. CASE l # n
    <3>1. l \in handlers[x] /\ \A y \in Workers : l \in handlers'[y] => l \in handlers[y]
      BY <2>2, <2>5
    <3>2. l.job \in Jobs /\ l.version \in Nat
      BY <3>1 DEF TypeOK, Leases
    <3> QED
      BY <1>2, <3>1, <3>2 DEF HandlersInv, TypeOK
  <2> QED
    BY <2>4, <2>5
<1> QED
  BY <1>1, <1>2, <1>3, HandlersKept

LEMMA HandlersStep == TypeOK /\ HandlersInv /\ [Next]_vars => HandlersInv'
<1> SUFFICES ASSUME TypeOK, HandlersInv, [Next]_vars
             PROVE  HandlersInv'
  OBVIOUS
<1>1. CASE \/ UNCHANGED vars
           \/ \E j \in Jobs : RequestStep(j) \/ BackoffElapses(j) \/ LeaseExpires(j)
  <2>1. UNCHANGED <<handlers, leaseVersion>>
    BY <1>1 DEF RequestStep, Submit, Activate, RequestCancellation, ManualRetry, BackoffElapses,
                LeaseExpires, vars, rowVars, workerVars
  <2> QED
    BY <2>1, HandlersKept DEF TypeOK
<1>2. ASSUME NEW w \in Workers, WorkerStep(w)
      PROVE  HandlersInv'
  <2>1. CASE RecoverOne(w)
    <3>1. \/ UNCHANGED leaseVersion
          \/ \E j \in Jobs : leaseVersion' = [leaseVersion EXCEPT ![j] = @ + 1]
      BY <2>1 DEF RecoverOne, TypeOK, Leases
    <3>2. \A j \in Jobs : leaseVersion'[j] >= leaseVersion[j] /\ leaseVersion'[j] \in Nat
      BY <3>1 DEF TypeOK
    <3>3. UNCHANGED handlers
      BY <2>1 DEF RecoverOne
    <3> QED
      BY <3>2, <3>3, HandlersKept
  <2>2. CASE ClaimOne(w)
    BY <2>2, HandlersClaim
  <2>3. CASE ~(RecoverOne(w) \/ ClaimOne(w))
    <3>1. UNCHANGED leaseVersion /\ \A x \in Workers : handlers'[x] \subseteq handlers[x]
      BY <1>2, <2>3 DEF WorkerStep, RunStep, ReadExpired, FinishRecovery, NothingToClaim,
            HandlerReturns, AbandonHandler, CheckCancellation, FinishCancellation, Complete,
            Fail, FailRefused, RefuseResult, rowVars, TypeOK
    <3> QED
      BY <3>1, HandlersKept DEF TypeOK
  <2> QED
    BY <2>1, <2>2, <2>3
<1>3. ASSUME NEW w \in Workers,
             \/ Heartbeat(w) \/ ReportProgress(w) \/ AbandonedHandlerEnds(w)
             \/ CrashRestart(w) \/ StatementFails(w)
      PROVE  HandlersInv'
  <2>1. UNCHANGED leaseVersion /\ \A x \in Workers : handlers'[x] \subseteq handlers[x]
    BY <1>3 DEF Heartbeat, ReportProgress, AbandonedHandlerEnds, CrashRestart, StatementFails,
                rowVars, workerVars, TypeOK
  <2> QED
    BY <2>1, HandlersKept DEF TypeOK
<1> QED
  BY <1>1, <1>2, <1>3 DEF Next

\* Of the handlers of a job that are alive at most one can report its progress, in
\* any number of processes and after any number of timeouts and recoveries.
THEOREM HandlersDoNotMix == Spec => []OneLiveHandler
<1>1. Init => HandlersInv
  BY DEF Init, HandlersInv
<1>2. TypeOK /\ HandlersInv => OneLiveHandler
  <2> SUFFICES ASSUME TypeOK, HandlersInv, NEW w \in Workers, NEW x \in Workers,
                      NEW l \in handlers[w], NEW m \in handlers[x],
                      Current(l), Current(m), l.job = m.job
               PROVE  w = x /\ l = m
    BY DEF OneLiveHandler
  <2>1. l = m
    BY DEF Current, TypeOK, Leases
  <2> QED
    BY <2>1 DEF HandlersInv
<1> QED
  BY <1>1, <1>2, HandlersStep, TypeCorrect, PTL DEF Spec

=============================================================================
