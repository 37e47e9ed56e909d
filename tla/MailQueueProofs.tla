-------------------------- MODULE MailQueueProofs --------------------------
(***************************************************************************)
(* Theorems about MailQueue, for any number of rows and workers, any       *)
(* priorities and attempt limits, and any value of the bounds.             *)
(***************************************************************************)
EXTENDS MailQueue, FiniteSetTheorems, TLAPS

\* The assumptions on the constants that the proofs use.
LEMMA Constants ==
    /\ NoEntry \notin Entries /\ NoWorker \notin Workers
    /\ MaxChain \in Nat
BY EntriesAssumption, WorkersAssumption, MaxChainAssumption

----------------------------------------------------------------------------
(* Type correctness.                                                       *)

LEMMA TypeInit == Init => TypeOK
BY DEF Init, TypeOK, Status, Claimable, Settled, Outcomes

LEMMA TypeWorkerStep ==
    ASSUME TypeOK, NEW w \in Workers, WorkerStep(w)
    PROVE  TypeOK'
<1> USE DEF Status, Claimable, Settled, Outcomes
<1>1. CASE SelectCandidate(w)
  BY <1>1 DEF TypeOK, SelectCandidate, Candidates, rowVars, historyVars
<1>2. CASE ClaimCandidate(w)
  BY <1>2 DEF TypeOK, ClaimCandidate, StillClaimable, historyVars
<1>3. CASE LoseCandidate(w)
  BY <1>3 DEF TypeOK, LoseCandidate, GoIdle, rowVars, historyVars
<1>4. CASE AttemptDelivery(w)
  BY <1>4, Constants DEF TypeOK, AttemptDelivery, rowVars
<1>5. CASE ReportDelivered(w)
  BY <1>5 DEF TypeOK, ReportDelivered, Reports, GoIdle, historyVars
<1>6. CASE ReportLeaseLost(w)
  BY <1>6 DEF TypeOK, ReportLeaseLost, Reports, GoIdle, rowVars, historyVars
<1>7. CASE ReportDeferred(w)
  BY <1>7 DEF TypeOK, ReportDeferred, Record, Reports, GoIdle, historyVars
<1>8. CASE ReportBounced(w)
  BY <1>8 DEF TypeOK, ReportBounced, Record, Reports, GoIdle, historyVars
<1>9. CASE ReportDeadLettered(w)
  BY <1>9 DEF TypeOK, ReportDeadLettered, Record, Reports, GoIdle, historyVars
<1> QED
  BY <1>1, <1>2, <1>3, <1>4, <1>5, <1>6, <1>7, <1>8, <1>9 DEF WorkerStep, Report

LEMMA TypeOperatorStep ==
    ASSUME TypeOK, NEW e \in Entries, OperatorStep(e)
    PROVE  TypeOK'
<1> USE DEF Status, Claimable, Settled, Outcomes
<1>1. CASE AdminRetryNow(e)
  BY <1>1 DEF TypeOK, AdminRetryNow, workerVars
<1>2. CASE AdminDeadLetter(e)
  BY <1>2 DEF TypeOK, AdminDeadLetter, workerVars, historyVars
<1>3. CASE AdminCancel(e)
  BY <1>3 DEF TypeOK, AdminCancel, workerVars, historyVars
<1>4. CASE RetryQueue(e)
  BY <1>4 DEF TypeOK, RetryQueue, workerVars
<1>5. CASE DeleteQueue(e)
  BY <1>5 DEF TypeOK, DeleteQueue, workerVars, historyVars
<1> QED
  BY <1>1, <1>2, <1>3, <1>4, <1>5 DEF OperatorStep

LEMMA TypeStep ==
    ASSUME TypeOK, [RecoveryNext]_vars
    PROVE  TypeOK'
<1> USE DEF Status, Claimable, Settled, Outcomes
<1>1. ASSUME NEW e \in Entries, Enqueue(e)
      PROVE  TypeOK'
  BY <1>1 DEF TypeOK, Enqueue, workerVars, historyVars
<1>2. ASSUME NEW e \in Entries, OperatorStep(e)
      PROVE  TypeOK'
  BY <1>2, TypeOperatorStep
<1>3. ASSUME NEW e \in Entries, BackoffElapses(e)
      PROVE  TypeOK'
  BY <1>3 DEF TypeOK, BackoffElapses, workerVars, historyVars
<1>4. ASSUME NEW e \in Entries, LeaseExpires(e)
      PROVE  TypeOK'
  BY <1>4 DEF TypeOK, LeaseExpires, workerVars, historyVars
<1>5. ASSUME NEW w \in Workers, WorkerStep(w)
      PROVE  TypeOK'
  BY <1>5, TypeWorkerStep
<1>6. ASSUME NEW w \in Workers, StatementFails(w)
      PROVE  TypeOK'
  BY <1>6 DEF TypeOK, StatementFails, GoIdle, rowVars
<1>7. CASE CrashRestart
  BY <1>7 DEF TypeOK, CrashRestart, rowVars
<1>8. CASE ReleaseExpiredLeases
  <2>1. status' \in [Entries -> Status] /\ leaseOwner' \in [Entries -> Workers \cup {NoWorker}]
    BY <1>8 DEF TypeOK, ReleaseExpiredLeases
  <2>2. leaseExpired' \in [Entries -> BOOLEAN]
    BY <1>8, Zenon DEF TypeOK, ReleaseExpiredLeases
  <2>3. taken' \in [Entries -> Nat]
    BY <1>8 DEF TypeOK, ReleaseExpiredLeases
  <2> QED
    BY <1>8, <2>1, <2>2, <2>3 DEF TypeOK, ReleaseExpiredLeases, workerVars
<1>9. CASE UNCHANGED vars
  BY <1>9 DEF TypeOK, vars, rowVars, workerVars, historyVars
<1> QED
  BY <1>1, <1>2, <1>3, <1>4, <1>5, <1>6, <1>7, <1>8, <1>9 DEF RecoveryNext, Next

\* Every reachable state has its type: in particular, a worker that is not idle
\* works at a row of the table.
THEOREM TypeCorrect == RecoverySpec => []TypeOK
BY TypeInit, TypeStep, PTL DEF RecoverySpec

----------------------------------------------------------------------------
(* Mutual exclusion.  LeaseExclusive is inductive relative to TypeOK: a    *)
(* step that changes the status or the owner of a row either finds it in a *)
(* status other than "leased", so that nobody has it in flight, or is the  *)
(* report of a worker, or counts in taken.                                 *)

LEMMA ExclusiveInit == Init => LeaseExclusive
BY DEF Init, LeaseExclusive, InFlight

LEMMA ExclusiveWorkerStep ==
    ASSUME TypeOK, LeaseExclusive, NEW x \in Workers, WorkerStep(x)
    PROVE  LeaseExclusive'
<1> SUFFICES ASSUME NEW e \in Entries, NEW w \in Workers,
                    taken[e]' = 0, InFlight(w, e)'
             PROVE  status[e]' = "leased" /\ leaseOwner[e]' = w
  BY DEF LeaseExclusive
<1> USE DEF InFlight, LeaseExclusive, TypeOK
<1>1. CASE SelectCandidate(x)
  BY <1>1 DEF SelectCandidate, rowVars, historyVars
<1>2. CASE ClaimCandidate(x)
  BY <1>2 DEF ClaimCandidate, StillClaimable, Claimable, historyVars
<1>3. CASE LoseCandidate(x)
  BY <1>3 DEF LoseCandidate, GoIdle, rowVars, historyVars
<1>4. CASE AttemptDelivery(x)
  BY <1>4 DEF AttemptDelivery, rowVars
\* The worker that reports is the owner of a row in flight, so w is not there.
<1>5. CASE ReportDelivered(x)
  BY <1>5 DEF ReportDelivered, Reports, GoIdle, historyVars
<1>6. CASE ReportLeaseLost(x)
  BY <1>6 DEF ReportLeaseLost, Reports, GoIdle, rowVars, historyVars
<1>7. CASE ReportDeferred(x)
  BY <1>7 DEF ReportDeferred, Record, Reports, GoIdle, historyVars
<1>8. CASE ReportBounced(x)
  BY <1>8 DEF ReportBounced, Record, Reports, GoIdle, historyVars
<1>9. CASE ReportDeadLettered(x)
  BY <1>9 DEF ReportDeadLettered, Record, Reports, GoIdle, historyVars
<1> QED
  BY <1>1, <1>2, <1>3, <1>4, <1>5, <1>6, <1>7, <1>8, <1>9 DEF WorkerStep, Report

LEMMA ExclusiveOperatorStep ==
    ASSUME TypeOK, LeaseExclusive, NEW f \in Entries, OperatorStep(f)
    PROVE  LeaseExclusive'
<1> SUFFICES ASSUME NEW e \in Entries, NEW w \in Workers,
                    taken[e]' = 0, InFlight(w, e)'
             PROVE  status[e]' = "leased" /\ leaseOwner[e]' = w
  BY DEF LeaseExclusive
<1> USE DEF InFlight, LeaseExclusive, TypeOK, workerVars
<1>1. CASE AdminRetryNow(f)
  BY <1>1 DEF AdminRetryNow
<1>2. CASE AdminDeadLetter(f)
  BY <1>2 DEF AdminDeadLetter, historyVars
<1>3. CASE AdminCancel(f)
  BY <1>3 DEF AdminCancel, Claimable, historyVars
<1>4. CASE RetryQueue(f)
  BY <1>4 DEF RetryQueue
<1>5. CASE DeleteQueue(f)
  BY <1>5 DEF DeleteQueue, historyVars
<1> QED
  BY <1>1, <1>2, <1>3, <1>4, <1>5 DEF OperatorStep

LEMMA ExclusiveStep ==
    ASSUME TypeOK, LeaseExclusive, [RecoveryNext]_vars
    PROVE  LeaseExclusive'
<1>1. ASSUME NEW f \in Entries, Enqueue(f)
      PROVE  LeaseExclusive'
  BY <1>1 DEF Enqueue, workerVars, historyVars, InFlight, LeaseExclusive, TypeOK
<1>2. ASSUME NEW f \in Entries, OperatorStep(f)
      PROVE  LeaseExclusive'
  BY <1>2, ExclusiveOperatorStep
<1>3. ASSUME NEW f \in Entries, BackoffElapses(f) \/ LeaseExpires(f)
      PROVE  LeaseExclusive'
  BY <1>3 DEF BackoffElapses, LeaseExpires, workerVars, historyVars, InFlight, LeaseExclusive
<1>4. ASSUME NEW x \in Workers, WorkerStep(x)
      PROVE  LeaseExclusive'
  BY <1>4, ExclusiveWorkerStep
<1>5. ASSUME NEW x \in Workers, StatementFails(x)
      PROVE  LeaseExclusive'
  BY <1>5 DEF StatementFails, GoIdle, rowVars, InFlight, LeaseExclusive, TypeOK
<1>6. CASE CrashRestart
  BY <1>6 DEF CrashRestart, InFlight, LeaseExclusive
<1>7. CASE ReleaseExpiredLeases
  BY <1>7 DEF ReleaseExpiredLeases, workerVars, InFlight, LeaseExclusive, TypeOK
<1>8. CASE UNCHANGED vars
  BY <1>8 DEF vars, rowVars, workerVars, historyVars, InFlight, LeaseExclusive
<1> QED
  BY <1>1, <1>2, <1>3, <1>4, <1>5, <1>6, <1>7, <1>8 DEF RecoveryNext, Next

LEMMA Invariants == RecoverySpec => [](TypeOK /\ LeaseExclusive)
<1>1. Init => TypeOK /\ LeaseExclusive
  BY TypeInit, ExclusiveInit
<1>2. TypeOK /\ LeaseExclusive /\ [RecoveryNext]_vars => (TypeOK /\ LeaseExclusive)'
  BY TypeStep, ExclusiveStep
<1> QED
  BY <1>1, <1>2, PTL DEF RecoverySpec

\* Two workers never deliver one row unless a lease was taken from one of them,
\* whatever the race in LeaseNext, the administrators and the crashes do.
THEOREM MutualExclusion == RecoverySpec => []LeaseExclusive
BY Invariants, PTL

----------------------------------------------------------------------------
(* What a step may never do to a row.                                      *)

\* A report changes the row of the worker that makes it, if that.
LEMMA ReportChanges ==
    ASSUME TypeOK, LeaseExclusive, NEW x \in Workers, Report(x),
           NEW e \in Entries, status'[e] # status[e]
    PROVE  /\ InFlight(x, e) /\ pc'[x] = "idle"
           /\ taken[e] > 0 \/ (status[e] = "leased" /\ leaseOwner[e] = x)
<1> USE DEF TypeOK, LeaseExclusive, InFlight, Reports, GoIdle
<1>1. CASE ReportDelivered(x)
  BY <1>1 DEF ReportDelivered
<1>2. CASE ReportLeaseLost(x)
  BY <1>2 DEF ReportLeaseLost, rowVars
<1>3. CASE ReportDeferred(x)
  BY <1>3 DEF ReportDeferred, Record
<1>4. CASE ReportBounced(x)
  BY <1>4 DEF ReportBounced, Record
<1>5. CASE ReportDeadLettered(x)
  BY <1>5 DEF ReportDeadLettered, Record
<1> QED
  BY <1>1, <1>2, <1>3, <1>4, <1>5 DEF Report

LEMMA SettledStep ==
    ASSUME TypeOK, LeaseExclusive, RecoveryNext
    PROVE  KeepsSettled
<1> SUFFICES ASSUME NEW e \in Entries, status[e] \in Settled, status'[e] # status[e]
             PROVE  \/ reopened'[e] > reopened[e]
                    \/ status[e] = "bounced" /\ status'[e] = "dead_letter"
                    \/ taken[e] > 0
  BY DEF KeepsSettled
<1> USE DEF TypeOK, Settled, Claimable
<1>1. ASSUME NEW f \in Entries, Enqueue(f) \/ BackoffElapses(f) \/ LeaseExpires(f)
      PROVE  FALSE
  BY <1>1 DEF Enqueue, BackoffElapses, LeaseExpires
<1>2. ASSUME NEW f \in Entries, OperatorStep(f)
      PROVE  \/ reopened'[e] > reopened[e]
             \/ status[e] = "bounced" /\ status'[e] = "dead_letter"
  <2>0. reopened[e] \in Nat
    OBVIOUS
  <2>1. CASE AdminRetryNow(f)
    <3>1. reopened'[e] = reopened[e] + 1
      BY <2>1 DEF AdminRetryNow
    <3> QED
      BY <2>0, <3>1
  <2>2. CASE AdminDeadLetter(f)
    BY <2>2 DEF AdminDeadLetter
  <2>3. CASE AdminCancel(f) \/ DeleteQueue(f)
    BY <2>3 DEF AdminCancel, DeleteQueue
  <2>4. CASE RetryQueue(f)
    <3>1. reopened'[e] = reopened[e] + 1
      BY <2>4 DEF RetryQueue
    <3> QED
      BY <2>0, <3>1
  <2> QED
    BY <1>2, <2>1, <2>2, <2>3, <2>4 DEF OperatorStep
<1>3. ASSUME NEW x \in Workers, SelectCandidate(x) \/ ClaimCandidate(x) \/ LoseCandidate(x)
                                 \/ AttemptDelivery(x) \/ StatementFails(x)
      PROVE  FALSE
  BY <1>3 DEF SelectCandidate, ClaimCandidate, StillClaimable, LoseCandidate,
              AttemptDelivery, StatementFails, rowVars
<1>4. ASSUME NEW x \in Workers, Report(x)
      PROVE  taken[e] > 0
  BY <1>4, ReportChanges
<1>5. CASE CrashRestart
  BY <1>5 DEF CrashRestart, rowVars
<1>6. CASE ReleaseExpiredLeases
  BY <1>6 DEF ReleaseExpiredLeases, Recoverable
<1> QED
  BY <1>1, <1>2, <1>3, <1>4, <1>5, <1>6 DEF RecoveryNext, Next, WorkerStep

\* A row that reached its end is left alone by everyone but an operator who
\* reopens it and a worker whose lease was taken.
THEOREM SettledStability == RecoverySpec => SettledStable
<1>1. TypeOK /\ LeaseExclusive /\ [RecoveryNext]_vars => [KeepsSettled]_vars
  BY SettledStep
<1> QED
  BY <1>1, Invariants, PTL DEF RecoverySpec, SettledStable

LEMMA HolderStep ==
    ASSUME TypeOK, LeaseExclusive, RecoveryNext
    PROVE  ReleasedByHolder
<1> SUFFICES ASSUME NEW e \in Entries, status[e] = "leased", status'[e] # "leased"
             PROVE  \/ taken'[e] > 0
                    \/ \E w \in Workers :
                         InFlight(w, e) /\ leaseOwner[e] = w /\ pc'[w] = "idle"
  BY DEF ReleasedByHolder
<1> USE DEF TypeOK, Claimable
<1>1. ASSUME NEW f \in Entries, Enqueue(f) \/ BackoffElapses(f) \/ LeaseExpires(f)
      PROVE  FALSE
  BY <1>1 DEF Enqueue, BackoffElapses, LeaseExpires
<1>2. ASSUME NEW f \in Entries, OperatorStep(f)
      PROVE  taken'[e] > 0
  BY <1>2 DEF OperatorStep, AdminRetryNow, AdminDeadLetter, AdminCancel, RetryQueue, DeleteQueue
<1>3. ASSUME NEW x \in Workers, SelectCandidate(x) \/ ClaimCandidate(x) \/ LoseCandidate(x)
                                 \/ AttemptDelivery(x) \/ StatementFails(x)
      PROVE  FALSE
  BY <1>3 DEF SelectCandidate, ClaimCandidate, StillClaimable, LoseCandidate,
              AttemptDelivery, StatementFails, rowVars
<1>4. ASSUME NEW x \in Workers, Report(x)
      PROVE  \/ taken'[e] > 0
             \/ InFlight(x, e) /\ leaseOwner[e] = x /\ pc'[x] = "idle"
  <2>1. UNCHANGED taken
    BY <1>4 DEF Report, ReportDelivered, ReportLeaseLost, ReportDeferred, ReportBounced,
                ReportDeadLettered, Record, historyVars
  <2> QED
    BY <1>4, <2>1, ReportChanges
<1>5. CASE CrashRestart
  BY <1>5 DEF CrashRestart, rowVars
<1>6. CASE ReleaseExpiredLeases
  BY <1>6 DEF ReleaseExpiredLeases
<1> QED
  BY <1>1, <1>2, <1>3, <1>4, <1>5, <1>6 DEF RecoveryNext, Next, WorkerStep

\* While no lease is taken, a leased row is released by its holder alone.
THEOREM HolderReleases == RecoverySpec => LeasedSettledByHolder
<1>1. TypeOK /\ LeaseExclusive /\ [RecoveryNext]_vars => [ReleasedByHolder]_vars
  BY HolderStep
<1> QED
  BY <1>1, Invariants, PTL DEF RecoverySpec, LeasedSettledByHolder

LEMMA DeliveredStep ==
    ASSUME TypeOK, RecoveryNext
    PROVE  DeliveredByHolder
<1> SUFFICES ASSUME NEW e \in Entries, status[e] # "delivered", status'[e] = "delivered"
             PROVE  \E w \in Workers :
                      /\ InFlight(w, e) /\ result[w] = "delivered"
                      /\ status[e] = "leased" /\ leaseOwner[e] = w
  BY DEF DeliveredByHolder
<1> USE DEF TypeOK
<1>1. ASSUME NEW f \in Entries,
             Enqueue(f) \/ BackoffElapses(f) \/ LeaseExpires(f) \/ OperatorStep(f)
      PROVE  FALSE
  BY <1>1 DEF Enqueue, BackoffElapses, LeaseExpires, OperatorStep, AdminRetryNow,
              AdminDeadLetter, AdminCancel, RetryQueue, DeleteQueue
<1>2. ASSUME NEW x \in Workers, SelectCandidate(x) \/ ClaimCandidate(x) \/ LoseCandidate(x)
                                 \/ AttemptDelivery(x) \/ StatementFails(x)
      PROVE  FALSE
  BY <1>2 DEF SelectCandidate, ClaimCandidate, LoseCandidate, AttemptDelivery,
              StatementFails, rowVars
<1>3. ASSUME NEW x \in Workers, ReportDelivered(x)
      PROVE  /\ InFlight(x, e) /\ result[x] = "delivered"
             /\ status[e] = "leased" /\ leaseOwner[e] = x
  BY <1>3 DEF ReportDelivered, Reports, HoldsLease, InFlight
<1>4. ASSUME NEW x \in Workers, ReportLeaseLost(x) \/ ReportDeferred(x) \/ ReportBounced(x)
                                 \/ ReportDeadLettered(x)
      PROVE  FALSE
  BY <1>4 DEF ReportLeaseLost, ReportDeferred, ReportBounced, ReportDeadLettered, Record, rowVars
<1>5. CASE CrashRestart
  BY <1>5 DEF CrashRestart, rowVars
<1>6. CASE ReleaseExpiredLeases
  BY <1>6 DEF ReleaseExpiredLeases
<1> QED
  BY <1>1, <1>2, <1>3, <1>4, <1>5, <1>6 DEF RecoveryNext, Next, WorkerStep, Report

\* Only the worker that holds the lease at that moment turns a row into
\* delivered, and only after a successful attempt at it.
THEOREM AckFenced == RecoverySpec => StaleAckRefused
<1>1. TypeOK /\ [RecoveryNext]_vars => [DeliveredByHolder]_vars
  BY DeliveredStep
<1> QED
  BY <1>1, Invariants, PTL DEF RecoverySpec, StaleAckRefused

----------------------------------------------------------------------------
(* What was reported delivered was delivered.                              *)

\* More copies were handed over than there are doubtful ones.
Sure(e) == copies[e] > unsure[e]

DeliveryInv ==
    /\ DeliveredHasCopy
    /\ \A e \in Entries : unsure[e] <= copies[e]
    /\ \A w \in Workers : pc[w] = "reporting" /\ result[w] = "delivered" => Sure(entry[w])

\* An attempt adds no more doubtful copies than copies, and fewer if it succeeds.
LEMMA AttemptCounts ==
    ASSUME TypeOK, NEW w \in Workers, AttemptDelivery(w), NEW e \in Entries
    PROVE  /\ copies'[e] - unsure'[e] >= copies[e] - unsure[e]
           /\ result'[w] = "delivered" /\ e = entry[w] =>
                  copies'[e] - unsure'[e] > copies[e] - unsure[e]
<1>1. PICK r \in Outcomes, n \in 0..MaxChain, u \in 0..MaxChain :
         /\ n = u + (IF r = "delivered" THEN 1 ELSE 0)
         /\ result' = [result EXCEPT ![w] = r]
         /\ copies' = [copies EXCEPT ![entry[w]] = @ + n]
         /\ unsure' = [unsure EXCEPT ![entry[w]] = @ + u]
  BY DEF AttemptDelivery, Owes
<1>2. /\ n \in Nat /\ u \in Nat /\ copies \in [Entries -> Nat] /\ unsure \in [Entries -> Nat]
      /\ result \in [Workers -> Outcomes \cup {"none"}]
      /\ copies[e] \in Nat /\ unsure[e] \in Nat
  BY Constants DEF TypeOK
<1>3. result'[w] = r
  BY <1>1, <1>2
<1>4. CASE e # entry[w]
  <2>1. copies'[e] = copies[e] /\ unsure'[e] = unsure[e]
    BY <1>1, <1>2, <1>4
  <2> QED
    BY <2>1, <1>2, <1>4
<1>5. CASE e = entry[w] /\ r = "delivered"
  <2>1. copies'[e] = copies[e] + n /\ unsure'[e] = unsure[e] + u /\ n = u + 1
    BY <1>1, <1>2, <1>5
  <2> QED
    BY <2>1, <1>2
<1>6. CASE e = entry[w] /\ r # "delivered"
  <2>1. copies'[e] = copies[e] + n /\ unsure'[e] = unsure[e] + u /\ n = u
    BY <1>1, <1>2, <1>6
  <2> QED
    BY <2>1, <1>2, <1>3, <1>6
<1> QED
  BY <1>4, <1>5, <1>6

LEMMA SureGrows ==
    ASSUME TypeOK, [RecoveryNext]_vars, NEW e \in Entries
    PROVE  copies'[e] - unsure'[e] >= copies[e] - unsure[e]
<1>1. CASE \E w \in Workers : AttemptDelivery(w)
  BY <1>1, AttemptCounts
<1>2. CASE ~\E w \in Workers : AttemptDelivery(w)
  <2>1. copies' = copies /\ unsure' = unsure
    BY <1>2 DEF RecoveryNext, Next, WorkerStep, Report, OperatorStep, vars, historyVars, Enqueue,
                BackoffElapses, LeaseExpires, StatementFails, CrashRestart, ReleaseExpiredLeases,
                AdminRetryNow, AdminDeadLetter, AdminCancel, RetryQueue, DeleteQueue,
                SelectCandidate, ClaimCandidate, LoseCandidate, ReportDelivered, ReportLeaseLost,
                ReportDeferred, ReportBounced, ReportDeadLettered, Record
  <2> QED
    BY <2>1 DEF TypeOK
<1> QED
  BY <1>1, <1>2

\* A row becomes delivered by the report of a worker that read the acceptance.
LEMMA BecomesDelivered ==
    ASSUME TypeOK, [RecoveryNext]_vars, NEW e \in Entries,
           status'[e] = "delivered", status[e] # "delivered"
    PROVE  \E w \in Workers : pc[w] = "reporting" /\ result[w] = "delivered" /\ entry[w] = e
<1> USE DEF TypeOK
<1>1. CASE \E w \in Workers : WorkerStep(w)
  <2>1. PICK w \in Workers : WorkerStep(w)
    BY <1>1
  <2>2. CASE SelectCandidate(w) \/ ClaimCandidate(w) \/ LoseCandidate(w) \/ AttemptDelivery(w)
    BY <2>2 DEF SelectCandidate, ClaimCandidate, LoseCandidate, AttemptDelivery, rowVars
  <2>3. CASE ReportDelivered(w)
    BY <2>3 DEF ReportDelivered, Reports
  <2>4. CASE ReportLeaseLost(w) \/ ReportDeferred(w) \/ ReportBounced(w) \/ ReportDeadLettered(w)
    BY <2>4 DEF ReportLeaseLost, ReportDeferred, ReportBounced, ReportDeadLettered, Record, rowVars
  <2> QED
    BY <2>1, <2>2, <2>3, <2>4 DEF WorkerStep, Report
<1>2. CASE \E f \in Entries : Enqueue(f) \/ OperatorStep(f) \/ BackoffElapses(f) \/ LeaseExpires(f)
  BY <1>2 DEF OperatorStep, Enqueue, BackoffElapses, LeaseExpires, AdminRetryNow, AdminDeadLetter,
              AdminCancel, RetryQueue, DeleteQueue
<1>3. CASE (\E w \in Workers : StatementFails(w)) \/ CrashRestart \/ UNCHANGED vars
  BY <1>3 DEF StatementFails, CrashRestart, vars, rowVars
<1>4. CASE ReleaseExpiredLeases
  BY <1>4 DEF ReleaseExpiredLeases
<1> QED
  BY <1>1, <1>2, <1>3, <1>4 DEF RecoveryNext, Next

\* A worker comes to report a delivery by an attempt.
LEMMA BecomesReported ==
    ASSUME TypeOK, [RecoveryNext]_vars, NEW w \in Workers,
           pc'[w] = "reporting", result'[w] = "delivered"
    PROVE  \/ pc[w] = "reporting" /\ result[w] = "delivered" /\ entry'[w] = entry[w]
           \/ AttemptDelivery(w)
<1> USE DEF TypeOK
<1>1. CASE \E v \in Workers : WorkerStep(v)
  <2>1. PICK v \in Workers : WorkerStep(v)
    BY <1>1
  <2>2. CASE SelectCandidate(v) \/ ClaimCandidate(v) \/ LoseCandidate(v)
    BY <2>2 DEF SelectCandidate, ClaimCandidate, LoseCandidate, GoIdle
  <2>3. CASE AttemptDelivery(v)
    <3>1. v # w => pc'[w] = pc[w] /\ result'[w] = result[w] /\ entry' = entry
      BY <2>3 DEF AttemptDelivery
    <3> QED
      BY <2>3, <3>1
  <2>4. CASE Report(v)
    <3>1. GoIdle(v)
      BY <2>4 DEF Report, ReportDelivered, ReportLeaseLost, ReportDeferred, ReportBounced,
                  ReportDeadLettered, Reports
    <3> QED
      BY <3>1 DEF GoIdle
  <2> QED
    BY <2>1, <2>2, <2>3, <2>4 DEF WorkerStep
<1>2. CASE \E f \in Entries : Enqueue(f) \/ OperatorStep(f) \/ BackoffElapses(f) \/ LeaseExpires(f)
  BY <1>2 DEF OperatorStep, Enqueue, BackoffElapses, LeaseExpires, AdminRetryNow, AdminDeadLetter,
              AdminCancel, RetryQueue, DeleteQueue, workerVars
<1>3. CASE (\E v \in Workers : StatementFails(v)) \/ CrashRestart
  BY <1>3 DEF StatementFails, CrashRestart, GoIdle
<1>4. CASE ReleaseExpiredLeases \/ UNCHANGED vars
  BY <1>4 DEF ReleaseExpiredLeases, vars, workerVars
<1> QED
  BY <1>1, <1>2, <1>3, <1>4 DEF RecoveryNext, Next

LEMMA DeliveryStep == TypeOK /\ TypeOK' /\ DeliveryInv /\ [RecoveryNext]_vars => DeliveryInv'
<1> SUFFICES ASSUME TypeOK, TypeOK', DeliveryInv, [RecoveryNext]_vars
             PROVE  DeliveryInv'
  OBVIOUS
<1>0. \A e \in Entries : /\ copies[e] \in Nat /\ unsure[e] \in Nat
                         /\ copies'[e] \in Nat /\ unsure'[e] \in Nat
  BY DEF TypeOK
<1>1. \A e \in Entries : Sure(e) => Sure(e)'
  BY <1>0, SureGrows DEF Sure
<1>2. \A e \in Entries : unsure'[e] <= copies'[e]
  BY <1>0, SureGrows DEF DeliveryInv
<1>3. \A w \in Workers : pc[w] = "reporting" => entry[w] \in Entries
  BY DEF TypeOK
<1>4. ASSUME NEW e \in Entries, status'[e] = "delivered"
      PROVE  Sure(e)'
  BY <1>1, <1>4, BecomesDelivered DEF DeliveryInv, DeliveredHasCopy, Sure
<1>5. ASSUME NEW w \in Workers, pc'[w] = "reporting", result'[w] = "delivered"
      PROVE  Sure(entry[w])'
  <2>1. CASE AttemptDelivery(w)
    <3>1. entry'[w] = entry[w] /\ entry[w] \in Entries
      BY <2>1 DEF AttemptDelivery, TypeOK
    <3>2. copies'[entry[w]] - unsure'[entry[w]] > copies[entry[w]] - unsure[entry[w]]
      BY <2>1, <3>1, <1>5, AttemptCounts
    <3> QED
      BY <3>1, <3>2, <1>0 DEF DeliveryInv, Sure
  <2>2. CASE pc[w] = "reporting" /\ result[w] = "delivered" /\ entry'[w] = entry[w]
    BY <2>2, <1>1, <1>3 DEF DeliveryInv, Sure
  <2> QED
    BY <2>1, <2>2, <1>5, BecomesReported
<1> QED
  BY <1>2, <1>4, <1>5 DEF DeliveryInv, DeliveredHasCopy, Sure

\* A row is delivered only after an attempt at it whose acceptance was read:
\* neither a crash, nor a lost lease, nor an operator makes it so.
THEOREM DeliveredWasHandedOver == RecoverySpec => []DeliveredHasCopy
<1>1. Init => DeliveryInv
  BY DEF Init, DeliveryInv, DeliveredHasCopy
<1>2. DeliveryInv => DeliveredHasCopy
  BY DEF DeliveryInv
<1> QED
  BY <1>1, <1>2, DeliveryStep, TypeCorrect, PTL DEF RecoverySpec

----------------------------------------------------------------------------
(* Copies.  Each time a row is made available it is claimed at most once,  *)
(* and each claim hands over at most one copy whose acceptance is known.   *)
(* So the known copies, the claims that may still add one and the row      *)
(* being available add up to no more than the times it was made available. *)

\* The workers whose attempt at e has not handed over a known copy.
Pending(e) ==
    {w \in Workers : InFlight(w, e) /\ ~(pc[w] = "reporting" /\ result[w] = "delivered")}

Open(e) == IF status[e] \in Claimable \cup {"absent"} THEN 1 ELSE 0

Known(e) == copies[e] - unsure[e]

Available(e) == 1 + reopened[e] + taken[e]

CopiesInv ==
    \A e \in Entries : Known(e) + Cardinality(Pending(e)) + Open(e) <= Available(e)

LEMMA PendingFinite ==
    ASSUME NEW e
    PROVE  IsFiniteSet(Pending(e)) /\ Cardinality(Pending(e)) \in Nat
BY WorkersAssumption, FS_Subset, FS_CardinalityType DEF Pending

LEMMA PendingFinitePrime ==
    ASSUME NEW e
    PROVE  IsFiniteSet(Pending(e)') /\ Cardinality(Pending(e)') \in Nat
BY WorkersAssumption, FS_Subset, FS_CardinalityType DEF Pending

LEMMA Summands ==
    ASSUME TypeOK, TypeOK', NEW e \in Entries
    PROVE  /\ Known(e) \in Int /\ Open(e) \in 0..1 /\ Available(e) \in Nat
           /\ Known(e)' \in Int /\ Open(e)' \in 0..1 /\ Available(e)' \in Nat
BY DEF TypeOK, Known, Open, Available

\* The three ways in which a step may change the sum.
LEMMA FewerPending ==
    ASSUME TypeOK, TypeOK', NEW e \in Entries,
           Known(e) + Cardinality(Pending(e)) + Open(e) <= Available(e),
           Pending(e)' \subseteq Pending(e), Known(e)' = Known(e),
           Open(e)' - Open(e) <= Available(e)' - Available(e)
    PROVE  (Known(e) + Cardinality(Pending(e)) + Open(e) <= Available(e))'
<1>1. Cardinality(Pending(e)') <= Cardinality(Pending(e))
  BY PendingFinite, FS_Subset
<1> QED
  BY <1>1, Summands, PendingFinite, PendingFinitePrime

LEMMA PendingLeaves ==
    ASSUME TypeOK, TypeOK', NEW e \in Entries, NEW x \in Pending(e),
           Known(e) + Cardinality(Pending(e)) + Open(e) <= Available(e),
           Pending(e)' \subseteq Pending(e) \ {x}, Available(e)' = Available(e),
           (Known(e)' - Known(e)) + (Open(e)' - Open(e)) <= 1
    PROVE  (Known(e) + Cardinality(Pending(e)) + Open(e) <= Available(e))'
<1>1. Cardinality(Pending(e)') <= Cardinality(Pending(e)) - 1
  <2>1. IsFiniteSet(Pending(e) \ {x}) /\ Cardinality(Pending(e) \ {x}) = Cardinality(Pending(e)) - 1
    BY PendingFinite, FS_RemoveElement
  <2> QED
    BY <2>1, FS_Subset
<1> QED
  BY <1>1, Summands, PendingFinite, PendingFinitePrime

LEMMA PendingJoins ==
    ASSUME TypeOK, TypeOK', NEW e \in Entries, NEW x,
           Known(e) + Cardinality(Pending(e)) + Open(e) <= Available(e),
           Pending(e)' \subseteq Pending(e) \cup {x}, Available(e)' = Available(e),
           Known(e)' = Known(e), Open(e) = 1, Open(e)' = 0
    PROVE  (Known(e) + Cardinality(Pending(e)) + Open(e) <= Available(e))'
<1>1. Cardinality(Pending(e)') <= Cardinality(Pending(e)) + 1
  <2>1. /\ IsFiniteSet(Pending(e) \cup {x})
        /\ Cardinality(Pending(e) \cup {x}) <= Cardinality(Pending(e)) + 1
    BY PendingFinite, FS_AddElement
  <2> QED
    BY <2>1, FS_Subset, PendingFinite, PendingFinitePrime, FS_CardinalityType
<1> QED
  BY <1>1, Summands, PendingFinite, PendingFinitePrime

LEMMA CopiesInit == Init => CopiesInv
<1> SUFFICES ASSUME Init, NEW e \in Entries
             PROVE  Known(e) + Cardinality(Pending(e)) + Open(e) <= Available(e)
  BY DEF CopiesInv
<1>1. Pending(e) = {}
  BY DEF Init, Pending, InFlight
<1>2. Known(e) = 0 /\ Open(e) = 1 /\ Available(e) = 1
  BY DEF Init, Known, Open, Available
<1> QED
  BY <1>1, <1>2, FS_EmptySet

LEMMA CopiesWorkerStep ==
    ASSUME TypeOK, TypeOK', CopiesInv, NEW x \in Workers, WorkerStep(x)
    PROVE  CopiesInv'
<1> SUFFICES ASSUME NEW e \in Entries
             PROVE  (Known(e) + Cardinality(Pending(e)) + Open(e) <= Available(e))'
  BY DEF CopiesInv
<1>0. Known(e) + Cardinality(Pending(e)) + Open(e) <= Available(e)
  BY DEF CopiesInv
<1>1. CASE SelectCandidate(x) \/ LoseCandidate(x)
  <2>1. Pending(e)' \subseteq Pending(e)
    BY <1>1 DEF SelectCandidate, LoseCandidate, GoIdle, Pending, InFlight, TypeOK
  <2>2. Known(e)' = Known(e) /\ Open(e)' = Open(e) /\ Available(e)' = Available(e)
    BY <1>1 DEF SelectCandidate, LoseCandidate, rowVars, historyVars, Known, Open, Available
  <2> QED
    BY <1>0, <2>1, <2>2, Summands, FewerPending
<1>2. CASE ClaimCandidate(x)
  <2>1. Known(e)' = Known(e) /\ Available(e)' = Available(e)
    BY <1>2 DEF ClaimCandidate, historyVars, Known, Available
  <2>2. CASE e = entry[x]
    <3>1. Pending(e)' \subseteq Pending(e) \cup {x}
      BY <1>2 DEF ClaimCandidate, Pending, InFlight, TypeOK
    <3>2. Open(e) = 1 /\ Open(e)' = 0
      BY <1>2, <2>2 DEF ClaimCandidate, StillClaimable, Claimable, Open, TypeOK
    <3> QED
      BY <1>0, <2>1, <3>1, <3>2, PendingJoins
  <2>3. CASE e # entry[x]
    <3>1. Pending(e)' \subseteq Pending(e) /\ Open(e)' = Open(e)
      BY <1>2, <2>3 DEF ClaimCandidate, Pending, InFlight, Open, TypeOK
    <3> QED
      BY <1>0, <2>1, <3>1, Summands, FewerPending
  <2> QED
    BY <2>2, <2>3
<1>3. CASE AttemptDelivery(x)
  <2>1. Open(e)' = Open(e) /\ Available(e)' = Available(e)
    BY <1>3 DEF AttemptDelivery, rowVars, Open, Available
  <2>2. PICK r \in Outcomes, n \in 0..MaxChain, u \in 0..MaxChain :
          /\ n = u + (IF r = "delivered" THEN 1 ELSE 0)
          /\ result' = [result EXCEPT ![x] = r]
          /\ copies' = [copies EXCEPT ![entry[x]] = @ + n]
          /\ unsure' = [unsure EXCEPT ![entry[x]] = @ + u]
    BY <1>3 DEF AttemptDelivery, Owes
  <2>3. CASE e = entry[x] /\ r = "delivered"
    <3>1. x \in Pending(e) /\ Pending(e)' \subseteq Pending(e) \ {x}
      BY <1>3, <2>2, <2>3 DEF AttemptDelivery, Pending, InFlight, TypeOK
    <3>2. Known(e)' = Known(e) + 1
      BY <2>2, <2>3, Constants DEF Known, TypeOK
    <3> QED
      BY <1>0, <2>1, <3>1, <3>2, Summands, PendingLeaves
  <2>4. CASE e # entry[x] \/ r # "delivered"
    <3>1. Pending(e)' \subseteq Pending(e)
      BY <1>3, <2>2, <2>4 DEF AttemptDelivery, Pending, InFlight, TypeOK
    <3>2. Known(e)' = Known(e)
      BY <2>2, <2>4, Constants DEF Known, TypeOK
    <3> QED
      BY <1>0, <2>1, <3>1, <3>2, Summands, FewerPending
  <2> QED
    BY <2>3, <2>4
<1>4. CASE ReportDelivered(x) \/ ReportLeaseLost(x)
  <2>1. Pending(e)' \subseteq Pending(e)
    BY <1>4 DEF ReportDelivered, ReportLeaseLost, Reports, GoIdle, Pending, InFlight, TypeOK
  <2>2. Known(e)' = Known(e) /\ Available(e)' = Available(e)
    BY <1>4 DEF ReportDelivered, ReportLeaseLost, historyVars, Known, Available
  <2>3. Open(e)' <= Open(e)
    BY <1>4 DEF ReportDelivered, ReportLeaseLost, rowVars, Claimable, Open, TypeOK
  <2> QED
    BY <1>0, <2>1, <2>2, <2>3, Summands, FewerPending
\* A failed attempt leaves, so the row may become available once more.
<1>5. CASE ReportDeferred(x) \/ ReportBounced(x) \/ ReportDeadLettered(x)
  <2>1. Known(e)' = Known(e) /\ Available(e)' = Available(e)
    BY <1>5 DEF ReportDeferred, ReportBounced, ReportDeadLettered, Record, historyVars,
                Known, Available
  <2>2. pc[x] = "reporting" /\ result[x] # "delivered" /\ GoIdle(x)
    BY <1>5 DEF ReportDeferred, ReportBounced, ReportDeadLettered, Reports
  <2>3. CASE e = entry[x]
    <3>1. x \in Pending(e) /\ Pending(e)' \subseteq Pending(e) \ {x}
      BY <2>2, <2>3 DEF GoIdle, Pending, InFlight, TypeOK
    <3> QED
      BY <1>0, <2>1, <3>1, Summands, PendingLeaves
  <2>4. CASE e # entry[x]
    <3>1. Pending(e)' \subseteq Pending(e)
      BY <2>2 DEF GoIdle, Pending, InFlight, TypeOK
    <3>2. Open(e)' = Open(e)
      BY <1>5, <2>4 DEF ReportDeferred, ReportBounced, ReportDeadLettered, Record, Open, TypeOK
    <3> QED
      BY <1>0, <2>1, <3>1, <3>2, Summands, FewerPending
  <2> QED
    BY <2>3, <2>4
<1> QED
  BY <1>1, <1>2, <1>3, <1>4, <1>5 DEF WorkerStep, Report

\* Who makes a row available, other than its worker, counts it.
LEMMA AvailableAgain ==
    ASSUME TypeOK, TypeOK', NEW e \in Entries,
           \/ \E f \in Entries : Enqueue(f) \/ OperatorStep(f) \/ BackoffElapses(f)
                                   \/ LeaseExpires(f)
           \/ \E x \in Workers : StatementFails(x)
           \/ CrashRestart
           \/ ReleaseExpiredLeases
           \/ UNCHANGED vars
    PROVE  Open(e)' - Open(e) <= Available(e)' - Available(e)
<1> USE DEF Open, Available, Claimable, TypeOK
<1>1. CASE \E f \in Entries : Enqueue(f) \/ BackoffElapses(f) \/ LeaseExpires(f)
  BY <1>1 DEF Enqueue, BackoffElapses, LeaseExpires, historyVars
<1>2. ASSUME NEW f \in Entries, OperatorStep(f)
      PROVE  Open(e)' - Open(e) <= Available(e)' - Available(e)
  <2>1. CASE AdminRetryNow(f)
    BY <2>1 DEF AdminRetryNow
  <2>2. CASE AdminDeadLetter(f) \/ AdminCancel(f) \/ DeleteQueue(f)
    BY <2>2 DEF AdminDeadLetter, AdminCancel, DeleteQueue, historyVars
  <2>3. CASE RetryQueue(f)
    BY <2>3 DEF RetryQueue
  <2> QED
    BY <1>2, <2>1, <2>2, <2>3 DEF OperatorStep
<1>3. CASE (\E x \in Workers : StatementFails(x)) \/ CrashRestart \/ UNCHANGED vars
  BY <1>3 DEF StatementFails, CrashRestart, vars, rowVars, historyVars
<1>4. CASE ReleaseExpiredLeases
  BY <1>4 DEF ReleaseExpiredLeases, Recoverable
<1> QED
  BY <1>1, <1>2, <1>3, <1>4

LEMMA CopiesStep ==
    ASSUME TypeOK, TypeOK', CopiesInv, [RecoveryNext]_vars
    PROVE  CopiesInv'
<1>1. ASSUME NEW x \in Workers, WorkerStep(x)
      PROVE  CopiesInv'
  BY <1>1, CopiesWorkerStep
\* Every other step leaves the copies alone and adds no pending attempt; one
\* that makes the row available counts it in reopened or taken.
<1>2. ASSUME \/ \E f \in Entries : Enqueue(f) \/ OperatorStep(f) \/ BackoffElapses(f)
                                     \/ LeaseExpires(f)
             \/ \E x \in Workers : StatementFails(x)
             \/ CrashRestart
             \/ ReleaseExpiredLeases
             \/ UNCHANGED vars
      PROVE  CopiesInv'
  <2> SUFFICES ASSUME NEW e \in Entries
               PROVE  (Known(e) + Cardinality(Pending(e)) + Open(e) <= Available(e))'
    BY DEF CopiesInv
  <2> USE DEF OperatorStep, AdminRetryNow, AdminDeadLetter, AdminCancel, RetryQueue, DeleteQueue
  <2>1. Pending(e)' \subseteq Pending(e)
    <3>1. \/ UNCHANGED workerVars
          \/ \E x \in Workers : GoIdle(x)
          \/ CrashRestart
      BY <1>2 DEF Enqueue, BackoffElapses, LeaseExpires, StatementFails, ReleaseExpiredLeases,
                  vars, workerVars
    <3>2. CASE UNCHANGED workerVars
      BY <3>2 DEF workerVars, Pending, InFlight
    <3>3. CASE \E x \in Workers : GoIdle(x)
      BY <3>3 DEF GoIdle, Pending, InFlight, TypeOK
    <3>4. CASE CrashRestart
      BY <3>4 DEF CrashRestart, Pending, InFlight
    <3> QED
      BY <3>1, <3>2, <3>3, <3>4
  <2>2. Known(e)' = Known(e)
    BY <1>2 DEF Enqueue, BackoffElapses, LeaseExpires, StatementFails, CrashRestart,
                ReleaseExpiredLeases, vars, historyVars, Known
  <2>3. Open(e)' - Open(e) <= Available(e)' - Available(e)
    BY <1>2, AvailableAgain
  <2> QED
    BY <2>1, <2>2, <2>3, FewerPending DEF CopiesInv
<1> QED
  BY <1>1, <1>2 DEF RecoveryNext, Next

LEMMA CopiesInvariant == RecoverySpec => []CopiesInv
<1>1. TypeOK /\ TypeOK' /\ CopiesInv /\ [RecoveryNext]_vars => CopiesInv'
  BY CopiesStep
<1> QED
  BY <1>1, CopiesInit, TypeCorrect, PTL DEF RecoverySpec

LEMMA CopiesFollow == TypeOK /\ CopiesInv => CopiesBounded
<1> SUFFICES ASSUME TypeOK, CopiesInv, NEW e \in Entries
             PROVE  copies[e] <= 1 + reopened[e] + taken[e] + unsure[e]
  BY DEF CopiesBounded
<1>1. /\ copies[e] - unsure[e] + Cardinality(Pending(e)) + Open(e)
             <= 1 + reopened[e] + taken[e]
  BY DEF CopiesInv, Known, Available
<1>2. Open(e) \in 0..1
  BY DEF Open
<1> QED
  BY <1>1, <1>2, PendingFinite DEF TypeOK

\* A recipient gets no more copies than the row was made available, besides
\* those whose acceptance was not read.
THEOREM CopiesAreBounded == RecoverySpec => []CopiesBounded
BY CopiesInvariant, CopiesFollow, TypeCorrect, PTL

\* So a row that is recorded delivered and was available once only gave the recipient
\* one copy, besides those of attempts that went unanswered.
THEOREM DeliveredRowsHaveOneCopy == RecoverySpec => []DeliveredOnce
<1>1. TypeOK /\ CopiesBounded /\ DeliveredHasCopy => DeliveredOnce
  <2> SUFFICES ASSUME TypeOK, CopiesBounded, DeliveredHasCopy, NEW e \in Entries,
                      status[e] = "delivered", reopened[e] = 0, taken[e] = 0
               PROVE  copies[e] = 1 + unsure[e]
    BY DEF DeliveredOnce
  <2>1. copies[e] \in Nat /\ unsure[e] \in Nat
    BY DEF TypeOK
  <2>2. copies[e] <= 1 + 0 + 0 + unsure[e] /\ copies[e] > unsure[e]
    BY DEF CopiesBounded, DeliveredHasCopy
  <2> QED
    BY <2>1, <2>2
<1> QED
  BY <1>1, TypeCorrect, CopiesAreBounded, DeliveredWasHandedOver, PTL

----------------------------------------------------------------------------
(* A row is stranded by a fault only.                                      *)

LEMMA StrandedWorkerStep ==
    ASSUME TypeOK, StrandedByFault, NEW x \in Workers, WorkerStep(x)
    PROVE  StrandedByFault'
<1> USE DEF InFlight, StrandedByFault, TypeOK, Live
<1>1. CASE SelectCandidate(x)
  BY <1>1 DEF SelectCandidate, rowVars, historyVars
<1>2. CASE ClaimCandidate(x)
  BY <1>2 DEF ClaimCandidate, historyVars
<1>3. CASE LoseCandidate(x)
  BY <1>3 DEF LoseCandidate, GoIdle, rowVars, historyVars
<1>4. CASE AttemptDelivery(x)
  BY <1>4 DEF AttemptDelivery, rowVars
<1>5. CASE ReportDelivered(x)
  BY <1>5 DEF ReportDelivered, Reports, GoIdle, HoldsLease, historyVars
<1>6. CASE ReportLeaseLost(x)
  BY <1>6 DEF ReportLeaseLost, Reports, GoIdle, HoldsLease, rowVars, historyVars
<1>7. CASE ReportDeferred(x) \/ ReportBounced(x) \/ ReportDeadLettered(x)
  <2>1. PICK s \in Status \ {"leased"} : Record(x, s)
    BY <1>7 DEF ReportDeferred, ReportBounced, ReportDeadLettered, Status, Claimable, Settled
  <2>2. GoIdle(x)
    BY <1>7 DEF ReportDeferred, ReportBounced, ReportDeadLettered, Reports
  <2> QED
    BY <2>1, <2>2 DEF Record, GoIdle, historyVars
<1> QED
  BY <1>1, <1>2, <1>3, <1>4, <1>5, <1>6, <1>7 DEF WorkerStep, Report

LEMMA StrandedStep ==
    ASSUME TypeOK, StrandedByFault, [RecoveryNext]_vars
    PROVE  StrandedByFault'
<1> USE DEF InFlight, StrandedByFault, TypeOK, Live
<1>1. ASSUME NEW f \in Entries, Enqueue(f) \/ BackoffElapses(f) \/ LeaseExpires(f)
      PROVE  StrandedByFault'
  BY <1>1 DEF Enqueue, BackoffElapses, LeaseExpires, workerVars, historyVars
<1>2. ASSUME NEW f \in Entries, AdminRetryNow(f) \/ AdminDeadLetter(f) \/ AdminCancel(f)
      PROVE  StrandedByFault'
  BY <1>2 DEF AdminRetryNow, AdminDeadLetter, AdminCancel, workerVars, historyVars
<1>3. ASSUME NEW f \in Entries, RetryQueue(f) \/ DeleteQueue(f)
      PROVE  StrandedByFault'
  BY <1>3 DEF RetryQueue, DeleteQueue, workerVars, historyVars
<1>4. ASSUME NEW x \in Workers, WorkerStep(x)
      PROVE  StrandedByFault'
  BY <1>4, StrandedWorkerStep
<1>5. CASE CrashRestart \/ \E x \in Workers : StatementFails(x)
  <2>1. crashes' > 0
    BY <1>5 DEF CrashRestart, StatementFails
  <2> QED
    BY <2>1
<1>6. CASE ReleaseExpiredLeases
  BY <1>6 DEF ReleaseExpiredLeases, workerVars
<1>7. CASE UNCHANGED vars
  BY <1>7 DEF vars, rowVars, workerVars, historyVars
<1> QED
  BY <1>1, <1>2, <1>3, <1>4, <1>5, <1>6, <1>7 DEF RecoveryNext, Next, OperatorStep

\* Nothing but a fault leaves a leased row without a worker: the rows that the
\* program as it is wired never recovers are those, and no others.
THEOREM OnlyFaultsStrand == RecoverySpec => []StrandedByFault
<1>1. Init => StrandedByFault
  BY DEF Init, StrandedByFault, Live
<1> QED
  BY <1>1, StrandedStep, TypeCorrect, PTL DEF RecoverySpec

----------------------------------------------------------------------------
(* Attempts.  From two attempts before its limit on, a row is claimed once *)
(* for each time it is available, for each worker that may still defer it  *)
(* because it selected the row earlier, and not more.                      *)

\* The workers that can make e available again by deferring it.
Able(e) ==
    {w \in Workers :
        /\ entry[w] = e
        /\ \/ pc[w] = "claiming" /\ seenAttempts[w] + 2 < MaxAttempts[e]
           \/ pc[w] \in {"attempting", "reporting"} /\ seenAttempts[w] + 1 < MaxAttempts[e]}

Near(e) ==
    MaxAttempts[e] >= 2 /\ attemptCount[e] >= 1 /\ attemptCount[e] + 2 >= MaxAttempts[e]

Within(e) ==
    Near(e) =>
        attemptCount[e] + Cardinality(Able(e)) + Open(e)
            <= MaxAttempts[e] - 3 + Cardinality(Workers) + Available(e)

AttemptsInv == \A e \in Entries : Within(e)

LEMMA AbleFinite ==
    ASSUME NEW e
    PROVE  /\ IsFiniteSet(Able(e)) /\ Cardinality(Able(e)) \in Nat
           /\ IsFiniteSet(Able(e)') /\ Cardinality(Able(e)') \in Nat
           /\ Cardinality(Able(e)) <= Cardinality(Workers)
           /\ Cardinality(Able(e)') <= Cardinality(Workers)
           /\ Cardinality(Workers) \in Nat
<1>1. Able(e) \subseteq Workers /\ Able(e)' \subseteq Workers
  BY DEF Able
<1> QED
  BY <1>1, WorkersAssumption, FS_Subset, FS_CardinalityType

LEMMA AttemptSummands ==
    ASSUME TypeOK, TypeOK', NEW e \in Entries
    PROVE  /\ attemptCount[e] \in Nat /\ attemptCount'[e] \in Nat /\ MaxAttempts[e] \in Nat
           /\ Open(e) \in 0..1 /\ Available(e) \in Nat
           /\ Open(e)' \in 0..1 /\ Available(e)' \in Nat
BY MaxAttemptsAssumption DEF TypeOK, Open, Available

\* The three ways in which a step may change the sum.
LEMMA FewerAble ==
    ASSUME TypeOK, TypeOK', NEW e \in Entries, Within(e),
           Able(e)' \subseteq Able(e), attemptCount'[e] = attemptCount[e],
           Open(e)' - Open(e) <= Available(e)' - Available(e)
    PROVE  Within(e)'
<1>1. Cardinality(Able(e)') <= Cardinality(Able(e))
  BY AbleFinite, FS_Subset
<1> QED
  BY <1>1, AttemptSummands, AbleFinite DEF Within, Near

LEMMA AbleLeaves ==
    ASSUME TypeOK, TypeOK', NEW e \in Entries, NEW x \in Able(e), Within(e),
           Able(e)' \subseteq Able(e) \ {x}, attemptCount'[e] = attemptCount[e],
           Available(e)' = Available(e)
    PROVE  Within(e)'
<1>1. Cardinality(Able(e)') <= Cardinality(Able(e)) - 1
  <2>1. IsFiniteSet(Able(e) \ {x}) /\ Cardinality(Able(e) \ {x}) = Cardinality(Able(e)) - 1
    BY AbleFinite, FS_RemoveElement
  <2> QED
    BY <2>1, FS_Subset
<1> QED
  BY <1>1, AttemptSummands, AbleFinite DEF Within, Near

\* A claim.  The worker is as able after it as it was before.
LEMMA OneMoreAttempt ==
    ASSUME TypeOK, TypeOK', NEW e \in Entries, NEW x \in Workers, Within(e),
           Able(e)' \subseteq Able(e), attemptCount'[e] = attemptCount[e] + 1,
           Available(e)' = Available(e), Open(e) = 1, Open(e)' = 0,
           MaxAttempts[e] = 2 => x \notin Able(e)'
    PROVE  Within(e)'
<1>1. Cardinality(Able(e)') <= Cardinality(Able(e))
  BY AbleFinite, FS_Subset
<1>2. CASE Near(e)
  BY <1>1, <1>2, AttemptSummands, AbleFinite DEF Within, Near
<1>3. CASE ~Near(e) /\ MaxAttempts[e] > 2
  BY <1>3, AttemptSummands, AbleFinite DEF Within, Near, Available, TypeOK
<1>4. CASE ~Near(e) /\ MaxAttempts[e] = 2
  <2>1. Able(e)' \subseteq Workers \ {x}
    BY <1>4 DEF Able
  <2>2. Cardinality(Able(e)') <= Cardinality(Workers) - 1
    <3>1. /\ IsFiniteSet(Workers \ {x})
          /\ Cardinality(Workers \ {x}) = Cardinality(Workers) - 1
      BY WorkersAssumption, FS_RemoveElement
    <3> QED
      BY <2>1, <3>1, FS_Subset
  <2>3. attemptCount'[e] = 1 /\ Available(e) >= 1
    BY <1>4, AttemptSummands DEF Near, Available, TypeOK
  <2> QED
    BY <1>4, <2>2, <2>3, AttemptSummands, AbleFinite DEF Within, Near
<1>5. CASE MaxAttempts[e] < 2
  BY <1>5, AttemptSummands DEF Within, Near
<1> QED
  BY <1>2, <1>3, <1>4, <1>5, AttemptSummands

LEMMA AttemptsWorkerStep ==
    ASSUME TypeOK, TypeOK', AttemptsInv, NEW x \in Workers, WorkerStep(x)
    PROVE  AttemptsInv'
<1> SUFFICES ASSUME NEW e \in Entries
             PROVE  Within(e)'
  BY DEF AttemptsInv
<1>0. Within(e) /\ MaxAttempts[e] \in Nat
  BY AttemptSummands DEF AttemptsInv
\* Near the limit a worker that selects the row now cannot defer it.
<1>1. CASE SelectCandidate(x)
  <2>1. /\ attemptCount' = attemptCount /\ Open(e)' = Open(e) /\ Available(e)' = Available(e)
    BY <1>1 DEF SelectCandidate, rowVars, historyVars, Open, Available
  <2>2. CASE Near(e)
    <3>1. Able(e)' \subseteq Able(e)
      BY <1>0, <1>1, <2>2 DEF SelectCandidate, Near, Able, TypeOK
    <3> QED
      BY <1>0, <2>1, <3>1, AttemptSummands, FewerAble
  <2>3. CASE ~Near(e)
    BY <2>1, <2>3 DEF Within, Near
  <2> QED
    BY <2>2, <2>3
<1>2. CASE ClaimCandidate(x)
  <2>1. Available(e)' = Available(e)
    BY <1>2 DEF ClaimCandidate, historyVars, Available
  <2>2. Able(e)' \subseteq Able(e)
    BY <1>0, <1>2 DEF ClaimCandidate, Able, TypeOK
  <2>3. CASE e = entry[x]
    <3>1. attemptCount'[e] = attemptCount[e] + 1 /\ Open(e) = 1 /\ Open(e)' = 0
      BY <1>2, <2>3 DEF ClaimCandidate, StillClaimable, Claimable, Open, TypeOK
    <3>2. MaxAttempts[e] = 2 => x \notin Able(e)'
      BY <1>2, <2>3 DEF ClaimCandidate, Able, TypeOK
    <3> QED
      BY <1>0, <2>1, <2>2, <3>1, <3>2, OneMoreAttempt
  <2>4. CASE e # entry[x]
    <3>1. attemptCount'[e] = attemptCount[e] /\ Open(e)' = Open(e)
      BY <1>2, <2>4 DEF ClaimCandidate, Open, TypeOK
    <3> QED
      BY <1>0, <2>1, <2>2, <3>1, AttemptSummands, FewerAble
  <2> QED
    BY <2>3, <2>4
<1>3. CASE LoseCandidate(x) \/ AttemptDelivery(x) \/ ReportDelivered(x) \/ ReportLeaseLost(x)
  <2>1. Able(e)' \subseteq Able(e)
    BY <1>3 DEF LoseCandidate, AttemptDelivery, ReportDelivered, ReportLeaseLost, Reports, GoIdle,
                Able, TypeOK
  <2>2. attemptCount' = attemptCount /\ Available(e)' = Available(e)
    BY <1>3 DEF LoseCandidate, AttemptDelivery, ReportDelivered, ReportLeaseLost, rowVars,
                historyVars, Available
  <2>3. Open(e)' <= Open(e)
    BY <1>3 DEF LoseCandidate, AttemptDelivery, ReportDelivered, ReportLeaseLost, rowVars,
                Claimable, Open, TypeOK
  <2> QED
    BY <1>0, <2>1, <2>2, <2>3, AttemptSummands, FewerAble
<1>4. CASE ReportDeferred(x) \/ ReportBounced(x) \/ ReportDeadLettered(x)
  <2>1. attemptCount' = attemptCount /\ Available(e)' = Available(e)
    BY <1>4 DEF ReportDeferred, ReportBounced, ReportDeadLettered, Record, historyVars, Available
  <2>2. pc[x] = "reporting" /\ GoIdle(x)
    BY <1>4 DEF ReportDeferred, ReportBounced, ReportDeadLettered, Reports
  <2>3. Able(e)' \subseteq Able(e) \ {x}
    BY <2>2 DEF GoIdle, Able, TypeOK
  <2>4. CASE e = entry[x] /\ ReportDeferred(x)
    <3>1. x \in Able(e)
      BY <1>0, <2>2, <2>4 DEF ReportDeferred, LastAttempt, AttemptNumber, Able, TypeOK
    <3> QED
      BY <1>0, <2>1, <2>3, <3>1, AbleLeaves
  <2>5. CASE ~(e = entry[x] /\ ReportDeferred(x))
    <3>1. Open(e)' <= Open(e)
      <4>1. CASE ReportBounced(x) \/ ReportDeadLettered(x)
        BY <4>1 DEF ReportBounced, ReportDeadLettered, Record, Claimable, Open, TypeOK
      <4>2. CASE ReportDeferred(x) /\ e # entry[x]
        <5>1. status'[e] = status[e]
          BY <4>2 DEF ReportDeferred, Record, TypeOK
        <5> QED
          BY <5>1 DEF Open
      <4> QED
        BY <1>4, <2>5, <4>1, <4>2
    <3> QED
      BY <1>0, <2>1, <2>3, <3>1, AttemptSummands, FewerAble
  <2> QED
    BY <2>4, <2>5
<1> QED
  BY <1>1, <1>2, <1>3, <1>4 DEF WorkerStep, Report

LEMMA AttemptsStep ==
    ASSUME TypeOK, TypeOK', AttemptsInv, [RecoveryNext]_vars
    PROVE  AttemptsInv'
<1>1. ASSUME NEW x \in Workers, WorkerStep(x)
      PROVE  AttemptsInv'
  BY <1>1, AttemptsWorkerStep
<1>2. ASSUME \/ \E f \in Entries : Enqueue(f) \/ OperatorStep(f) \/ BackoffElapses(f)
                                     \/ LeaseExpires(f)
             \/ \E x \in Workers : StatementFails(x)
             \/ CrashRestart
             \/ ReleaseExpiredLeases
             \/ UNCHANGED vars
      PROVE  AttemptsInv'
  <2> SUFFICES ASSUME NEW e \in Entries
               PROVE  Within(e)'
    BY DEF AttemptsInv
  <2> USE DEF OperatorStep, AdminRetryNow, AdminDeadLetter, AdminCancel, RetryQueue, DeleteQueue
  <2>1. Able(e)' \subseteq Able(e)
    <3>1. \/ UNCHANGED workerVars
          \/ \E x \in Workers : GoIdle(x)
          \/ CrashRestart
      BY <1>2 DEF Enqueue, BackoffElapses, LeaseExpires, StatementFails, ReleaseExpiredLeases,
                  vars, workerVars
    <3>2. CASE UNCHANGED workerVars
      BY <3>2 DEF workerVars, Able
    <3>3. CASE \E x \in Workers : GoIdle(x)
      BY <3>3 DEF GoIdle, Able, TypeOK
    <3>4. CASE CrashRestart
      BY <3>4 DEF CrashRestart, Able
    <3> QED
      BY <3>1, <3>2, <3>3, <3>4
  <2>2. attemptCount'[e] = attemptCount[e] \/ attemptCount'[e] = 0
    BY <1>2, ZenonT(60) DEF Enqueue, BackoffElapses, LeaseExpires, StatementFails, CrashRestart,
                ReleaseExpiredLeases, vars, rowVars, TypeOK
  <2>3. Open(e)' - Open(e) <= Available(e)' - Available(e)
    BY <1>2, AvailableAgain
  <2>4. attemptCount'[e] = 0 => Within(e)'
    BY DEF Within, Near
  <2>5. Within(e)
    BY DEF AttemptsInv
  <2> QED
    BY <2>1, <2>2, <2>3, <2>4, <2>5, FewerAble
<1> QED
  BY <1>1, <1>2 DEF RecoveryNext, Next

\* No row is attempted more often than its limit, the other workers' stale
\* snapshots, the operators' retries and the lost leases account for.
THEOREM AttemptsAreBudgeted == RecoverySpec => []AttemptBudget
<1>1. Init => AttemptsInv
  BY DEF Init, AttemptsInv, Within, Near
<1>2. TypeOK /\ AttemptsInv => AttemptBudget
  <2> SUFFICES ASSUME TypeOK, AttemptsInv, NEW e \in Entries, MaxAttempts[e] >= 2
               PROVE  attemptCount[e] <= (MaxAttempts[e] - 1) + (Cardinality(Workers) - 1)
                                             + reopened[e] + taken[e]
    BY DEF AttemptBudget
  <2>1. /\ attemptCount[e] \in Nat /\ MaxAttempts[e] \in Nat /\ reopened[e] \in Nat
        /\ taken[e] \in Nat /\ Open(e) \in 0..1
    BY MaxAttemptsAssumption DEF TypeOK, Open
  <2>5. Cardinality(Able(e)) \in Nat /\ Cardinality(Workers) \in Nat
    BY AbleFinite
  <2>2. Within(e)
    BY DEF AttemptsInv
  <2>3. CASE Near(e)
    BY <2>1, <2>2, <2>3, <2>5 DEF Within, Available
  <2>4. CASE ~Near(e)
    BY <2>1, <2>4, <2>5 DEF Near
  <2> QED
    BY <2>3, <2>4
<1>3. TypeOK /\ TypeOK' /\ AttemptsInv /\ [RecoveryNext]_vars => AttemptsInv'
  BY AttemptsStep
<1> QED
  BY <1>1, <1>2, <1>3, TypeCorrect, PTL DEF RecoverySpec

----------------------------------------------------------------------------
(* The program as it is wired today takes the steps of Next alone.         *)

LEMMA WiredIsRecovery == Spec => RecoverySpec
<1>1. [Next]_vars => [RecoveryNext]_vars
  BY DEF RecoveryNext
<1> QED
  BY <1>1, PTL DEF Spec, RecoverySpec

\* So every theorem above holds without the recovery loop too.
THEOREM WiredSafety ==
    Spec => [](TypeOK /\ LeaseExclusive /\ CopiesBounded /\ StrandedByFault) /\ StaleAckRefused
BY WiredIsRecovery, TypeCorrect, MutualExclusion, CopiesAreBounded, OnlyFaultsStrand,
   AckFenced, PTL

=============================================================================
