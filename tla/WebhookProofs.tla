--------------------------- MODULE WebhookProofs ---------------------------
(***************************************************************************)
(* Theorems about WebhookDelivery, for any events, subscriptions and       *)
(* processors, any limits of the service and any value of the bounds.      *)
(***************************************************************************)
EXTENDS WebhookDelivery, FiniteSetTheorems, TLAPS

\* The assumptions on the constants that the proofs use.
LEMMA Constants ==
    /\ MaxAttempts \in Nat \ {0} /\ SuspendAfter \in Nat \ {0} /\ MaxReplays \in Nat
    /\ IsFiniteSet(Processors)
    /\ NoRow \notin Rows /\ NoOwner \notin Processors /\ NoSub \notin Subs
BY SetsAssumption, LimitsAssumption, BoundsAssumption, NamesAssumption

LEMMA RowParts ==
    ASSUME NEW d \in Rows
    PROVE  Sub(d) \in Subs /\ d[1] \in Events
BY DEF Rows, Sub

----------------------------------------------------------------------------
(* Type correctness.                                                       *)

LEMMA TypeInit == Init => TypeOK
BY Constants DEF Init, TypeOK, Status, Settled, AdminIdle, Administrations

LEMMA TypeIdle ==
    ASSUME TypeOK, NEW p \in Processors, Idle(p) \/ GoNext(p) \/ \E d \in Rows : Drop(p, d)
    PROVE  /\ pc' \in [Processors -> {"idle", "batch", "posting", "recording", "resetting",
                                      "reading", "counting", "stopping"}]
           /\ todo' \in [Processors -> SUBSET Rows]
           /\ batch' \in [Processors -> SUBSET Rows]
           /\ seen' \in [Processors -> [Rows -> Nat]]
           /\ current' \in [Processors -> Rows \cup {NoRow}]
           /\ result' \in [Processors -> {"none", "delivered", "retryable", "refused"}]
           /\ sawSuspended' \in [Processors -> BOOLEAN]
           /\ \A q \in Processors : pc'[q] \notin {"idle", "batch"} => current'[q] \in Rows
<1>1. CASE Idle(p)
  BY <1>1 DEF TypeOK, Idle
<1>2. CASE GoNext(p)
  BY <1>2 DEF TypeOK, GoNext
<1>3. ASSUME NEW d \in Rows, Drop(p, d)
      PROVE  /\ pc' \in [Processors -> {"idle", "batch", "posting", "recording", "resetting",
                                        "reading", "counting", "stopping"}]
             /\ todo' \in [Processors -> SUBSET Rows]
             /\ batch' \in [Processors -> SUBSET Rows]
             /\ seen' \in [Processors -> [Rows -> Nat]]
             /\ \A q \in Processors : pc'[q] \notin {"idle", "batch"} => current'[q] \in Rows
  BY <1>3 DEF TypeOK, Drop
<1> QED
  BY <1>1, <1>2, <1>3 DEF TypeOK, Drop

LEMMA TypeDeliveryStep ==
    ASSUME TypeOK, NEW p \in Processors, DeliveryStep(p)
    PROVE  TypeOK'
<1>1. CASE Check(p)
  BY <1>1 DEF TypeOK, Check, rowVars, subVars, historyVars
<1>2. CASE Post(p)
  <2>1. current[p] \in Rows
    BY <1>2 DEF TypeOK, Post
  <2>2. posts' \in [Rows -> Nat] /\ accepted' \subseteq Rows
    BY <1>2, <2>1 DEF TypeOK, Post
  <2>3. result' \in [Processors -> {"none", "delivered", "retryable", "refused"}]
    BY <1>2 DEF TypeOK, Post
  <2> QED
    BY <1>2, <2>1, <2>2, <2>3 DEF TypeOK, Post, rowVars, subVars
<1>3. CASE Record(p)
  <2>1. current[p] \in Rows
    BY <1>3 DEF TypeOK, Record
  <2>2. Outcome(p) \in Status
    BY DEF Outcome, Status, Settled
  <2>3. /\ status' \in [Rows -> Status] /\ attempts' \in [Rows -> Nat]
        /\ due' \in [Rows -> BOOLEAN]
        /\ leaseOwner' \in [Rows -> Processors \cup {NoOwner}]
        /\ leaseExpired' \in [Rows -> BOOLEAN]
    BY <1>3, <2>1, <2>2 DEF TypeOK, Record
  <2> QED
    BY <1>3, <2>1, <2>3 DEF TypeOK, Record, GoTo, subVars, historyVars
<1>4. CASE RecordRefused(p)
  BY <1>4, TypeIdle DEF TypeOK, RecordRefused, rowVars, subVars, historyVars
<1>5. CASE ResetFailures(p)
  <2>1. failures' \in [Subs -> 0..SuspendAfter] /\ admin' \in Administrations
        /\ (admin'.op # "none" => admin'.sub \in Subs)
    <3>1. 0 \in 0..SuspendAfter
      BY Constants
    <3>2. failures' \in [Subs -> 0..SuspendAfter]
      BY <1>5, <3>1 DEF TypeOK, ResetFailures
    <3>3. admin' = admin \/ admin' = [admin EXCEPT !.fresh = @ /\ admin.sub # Sub(current[p])]
      BY <1>5 DEF ResetFailures, Bump
    <3> QED
      BY <3>2, <3>3 DEF TypeOK, Administrations
  <2> QED
    BY <1>5, <2>1, TypeIdle DEF TypeOK, ResetFailures, rowVars, historyVars
<1>6. CASE ReadSubscription(p)
  <2>1. CASE deleted[Sub(current[p])]
    BY <1>6, <2>1, TypeIdle DEF TypeOK, ReadSubscription, rowVars, subVars, historyVars
  <2>2. CASE ~deleted[Sub(current[p])]
    <3>1. current[p] \in Rows /\ suspended[Sub(current[p])] \in BOOLEAN
      BY <1>6, RowParts DEF TypeOK, ReadSubscription
    <3> QED
      BY <1>6, <2>2, <3>1 DEF TypeOK, ReadSubscription, rowVars, subVars, historyVars
  <2> QED
    BY <2>1, <2>2
<1>7. CASE RecordFailure(p)
  <2>1. /\ failures' \in [Subs -> 0..SuspendAfter]
        /\ suspended' \in [Subs -> BOOLEAN]
    <3> DEFINE s == Sub(current[p])
    <3>1. s \in Subs
      BY <1>7, RowParts DEF TypeOK, RecordFailure
    <3>2. failures[s] # SuspendAfter => failures[s] + 1 \in 0..SuspendAfter
      <4>1. failures[s] \in 0..SuspendAfter
        BY <3>1 DEF TypeOK
      <4> QED
        BY <4>1, LimitsAssumption
    <3>3. (suspended[s] \/ failures[s] + 1 >= SuspendAfter) \in BOOLEAN
      OBVIOUS
    <3> QED
      BY <1>7, <3>1, <3>2, <3>3 DEF TypeOK, RecordFailure
  <2>2. admin' \in Administrations /\ (admin'.op # "none" => admin'.sub \in Subs)
    BY <1>7 DEF TypeOK, RecordFailure, Bump, Administrations
  <2>3. GoNext(p) \/ GoTo(p, "stopping")
    BY <1>7 DEF RecordFailure
  <2>4. CASE GoNext(p)
    BY <1>7, <2>1, <2>2, <2>4, TypeIdle DEF TypeOK, RecordFailure, rowVars, historyVars
  <2>5. CASE GoTo(p, "stopping")
    BY <1>7, <2>1, <2>2, <2>5 DEF TypeOK, RecordFailure, GoTo, rowVars, historyVars
  <2> QED
    BY <2>3, <2>4, <2>5
<1>8. CASE StopRetrying(p)
  BY <1>8, TypeIdle, ZenonT(60) DEF TypeOK, StopRetrying, Status, Settled, subVars, historyVars
<1> QED
  BY <1>1, <1>2, <1>3, <1>4, <1>5, <1>6, <1>7, <1>8 DEF DeliveryStep

LEMMA TypeStep ==
    ASSUME TypeOK, [Next]_vars
    PROVE  TypeOK'
<1>1. ASSUME NEW e \in Events, FanOut(e)
      PROVE  TypeOK'
  BY <1>1 DEF TypeOK, FanOut, Insert, Status, subVars, processorVars, historyVars
<1>2. ASSUME NEW d \in Rows, Replay(d)
      PROVE  TypeOK'
  BY <1>2 DEF TypeOK, Replay, Insert, Status, subVars, processorVars, historyVars
<1>3. ASSUME NEW p \in Processors, ProcessorStep(p)
      PROVE  TypeOK'
  <2>1. CASE SelectDue(p)
    BY <2>1 DEF TypeOK, SelectDue, rowVars, subVars, historyVars
  <2>2. ASSUME NEW d \in Rows, Claim(p, d)
        PROVE  TypeOK'
    BY <2>2 DEF TypeOK, Claim, Status, subVars
  <2>3. ASSUME NEW d \in Rows, LoseClaim(p, d)
        PROVE  TypeOK'
    BY <2>3 DEF TypeOK, LoseClaim, rowVars, subVars, historyVars
  <2>4. CASE DeliveryStep(p)
    BY <2>4, TypeDeliveryStep
  <2> QED
    BY <1>3, <2>1, <2>2, <2>3, <2>4 DEF ProcessorStep
<1>4. ASSUME NEW p \in Processors, StatementFails(p) \/ Crash(p)
      PROVE  TypeOK'
  BY <1>4, TypeIdle DEF TypeOK, StatementFails, Crash, rowVars, subVars
<1>5. ASSUME NEW d \in Rows, BackoffElapses(d) \/ LeaseExpires(d)
      PROVE  TypeOK'
  BY <1>5 DEF TypeOK, BackoffElapses, LeaseExpires, subVars, processorVars, historyVars
<1>6. ASSUME NEW s \in Subs, DeleteSubscription(s)
      PROVE  TypeOK'
  BY <1>6 DEF TypeOK, DeleteSubscription, rowVars, processorVars, historyVars
<1>7. ASSUME NEW s \in Subs, NEW op \in {"update", "reactivate"}, ReadForUpdate(s, op)
      PROVE  TypeOK'
  <2>1. admin' \in Administrations /\ admin'.sub \in Subs /\ updates' \in Nat
    BY <1>7 DEF TypeOK, ReadForUpdate, Administrations
  <2> QED
    BY <1>7, <2>1 DEF TypeOK, ReadForUpdate, rowVars, subVars, processorVars
<1>8. CASE UpdateSubscription
  <2>1. admin.op \in {"update", "reactivate"} /\ admin.sub \in Subs
        /\ admin.suspended \in BOOLEAN /\ admin.failures \in 0..SuspendAfter
    BY <1>8 DEF TypeOK, UpdateSubscription, Administrations
  <2>2. /\ active' \in [Subs -> BOOLEAN] /\ suspended' \in [Subs -> BOOLEAN]
        /\ failures' \in [Subs -> 0..SuspendAfter]
    <3>1. 0 \in 0..SuspendAfter
      BY Constants
    <3>2. failures' \in [Subs -> 0..SuspendAfter]
      BY <1>8, <2>1, <3>1 DEF TypeOK, UpdateSubscription
    <3>3. active' \in [Subs -> BOOLEAN]
      BY <1>8 DEF TypeOK, UpdateSubscription
    <3>4. suspended' \in [Subs -> BOOLEAN]
      <4>1. (admin.op = "update" /\ admin.suspended) \in BOOLEAN
        OBVIOUS
      <4>2. \/ suspended' = suspended
            \/ suspended' = [suspended EXCEPT ![admin.sub] = admin.op = "update" /\ admin.suspended]
        BY <1>8 DEF UpdateSubscription
      <4> QED
        BY <4>1, <4>2, Zenon DEF TypeOK
    <3> QED
      BY <3>2, <3>3, <3>4
  <2>3. admin' \in Administrations /\ admin'.op = "none"
    BY <1>8, Constants DEF UpdateSubscription, AdminIdle, Administrations
  <2> QED
    BY <1>8, <2>2, <2>3 DEF TypeOK, UpdateSubscription, rowVars, processorVars, historyVars
<1>9. CASE UNCHANGED vars
  BY <1>9 DEF TypeOK, vars, rowVars, subVars, processorVars, historyVars
<1> QED
  BY <1>1, <1>2, <1>3, <1>4, <1>5, <1>6, <1>7, <1>8, <1>9 DEF Next, AdminStep

\* Every reachable state has its type: a processor past the batch works at a
\* row, and an administration under way has a subscription.
THEOREM TypeCorrect == Spec => []TypeOK
BY TypeInit, TypeStep, PTL DEF Spec

----------------------------------------------------------------------------
(* What the steps touch.                                                   *)

RowStep ==
    \/ \E e \in Events : FanOut(e)
    \/ \E d \in Rows : Replay(d) \/ BackoffElapses(d) \/ LeaseExpires(d)
    \/ \E p \in Processors, d \in Rows : Claim(p, d)
    \/ \E p \in Processors : Record(p) \/ StopRetrying(p)

LEMMA OnlyRowSteps ==
    ASSUME [Next]_vars
    PROVE  RowStep \/ UNCHANGED rowVars
<1>1. ASSUME NEW p \in Processors, ProcessorStep(p)
      PROVE  RowStep \/ UNCHANGED rowVars
  <2>1. CASE SelectDue(p) \/ \E d \in Rows : LoseClaim(p, d)
    BY <2>1 DEF SelectDue, LoseClaim
  <2>2. CASE Check(p) \/ Post(p) \/ RecordRefused(p) \/ ResetFailures(p)
              \/ ReadSubscription(p) \/ RecordFailure(p)
    BY <2>2 DEF Check, Post, RecordRefused, ResetFailures, ReadSubscription, RecordFailure
  <2> QED
    BY <1>1, <2>1, <2>2 DEF ProcessorStep, DeliveryStep, RowStep
<1>2. ASSUME NEW p \in Processors, StatementFails(p) \/ Crash(p)
      PROVE  UNCHANGED rowVars
  BY <1>2 DEF StatementFails, Crash
<1>3. ASSUME AdminStep
      PROVE  RowStep \/ UNCHANGED rowVars
  BY <1>3 DEF AdminStep, DeleteSubscription, ReadForUpdate, UpdateSubscription, RowStep
<1>4. CASE UNCHANGED vars
  BY <1>4 DEF vars
<1> QED
  BY <1>1, <1>2, <1>3, <1>4 DEF Next, RowStep

LEMMA OnlySubscriptionSteps ==
    ASSUME [Next]_vars
    PROVE  \/ \E p \in Processors : ResetFailures(p) \/ RecordFailure(p)
           \/ \E s \in Subs : DeleteSubscription(s) \/ ReadForUpdate(s, "update")
                              \/ ReadForUpdate(s, "reactivate")
           \/ UpdateSubscription
           \/ UNCHANGED <<subVars, admin>>
<1>1. ASSUME NEW p \in Processors, ProcessorStep(p)
      PROVE  ResetFailures(p) \/ RecordFailure(p) \/ UNCHANGED <<subVars, admin>>
  <2>1. CASE SelectDue(p) \/ \E d \in Rows : Claim(p, d) \/ LoseClaim(p, d)
    BY <2>1 DEF SelectDue, Claim, LoseClaim
  <2>2. CASE Check(p) \/ Post(p) \/ Record(p) \/ RecordRefused(p) \/ ReadSubscription(p)
              \/ StopRetrying(p)
    BY <2>2 DEF Check, Post, Record, RecordRefused, ReadSubscription, StopRetrying
  <2> QED
    BY <1>1, <2>1, <2>2 DEF ProcessorStep, DeliveryStep
<1>2. ASSUME \/ \E e \in Events : FanOut(e)
             \/ \E p \in Processors : StatementFails(p) \/ Crash(p)
             \/ \E d \in Rows : BackoffElapses(d) \/ LeaseExpires(d) \/ Replay(d)
             \/ UNCHANGED vars
      PROVE  UNCHANGED <<subVars, admin>>
  BY <1>2 DEF FanOut, StatementFails, Crash, BackoffElapses, LeaseExpires, Replay, vars
<1> QED
  BY <1>1, <1>2 DEF Next, AdminStep

----------------------------------------------------------------------------
(* A suspension is lifted by a reactivation alone: the version tells an    *)
(* administrator whether the suspension that was read still stands.        *)

AdminInv == admin.op # "none" /\ admin.fresh => suspended[admin.sub] = admin.suspended

LEMMA AdminStepKeeps ==
    ASSUME TypeOK, TypeOK', AdminInv, [Next]_vars
    PROVE  AdminInv'
<1>1. ASSUME NEW p \in Processors, ResetFailures(p)
      PROVE  AdminInv'
  BY <1>1 DEF ResetFailures, Bump, AdminInv, TypeOK, Administrations
<1>2. ASSUME NEW p \in Processors, RecordFailure(p)
      PROVE  AdminInv'
  BY <1>2 DEF RecordFailure, Bump, AdminInv, TypeOK, Administrations
<1>3. ASSUME NEW s \in Subs, DeleteSubscription(s)
      PROVE  AdminInv'
  BY <1>3 DEF DeleteSubscription, AdminInv
<1>4. ASSUME NEW s \in Subs, NEW op \in {"update", "reactivate"}, ReadForUpdate(s, op)
      PROVE  AdminInv'
  BY <1>4 DEF ReadForUpdate, subVars, AdminInv
<1>5. CASE UpdateSubscription
  BY <1>5 DEF UpdateSubscription, AdminIdle, AdminInv
<1>6. CASE UNCHANGED <<subVars, admin>>
  BY <1>6 DEF subVars, AdminInv
<1> QED
  BY <1>1, <1>2, <1>3, <1>4, <1>5, <1>6, OnlySubscriptionSteps

LEMMA AdminInvariant == Spec => []AdminInv
<1>1. Init => AdminInv
  BY DEF Init, AdminIdle, AdminInv
<1>2. TypeOK /\ TypeOK' /\ AdminInv /\ [Next]_vars => AdminInv'
  BY AdminStepKeeps
<1> QED
  BY <1>1, <1>2, TypeCorrect, PTL DEF Spec

LEMMA SuspensionStep ==
    ASSUME TypeOK, AdminInv, [Next]_vars, NEW s \in Subs, suspended[s], ~suspended'[s]
    PROVE  admin.op = "reactivate" /\ admin.sub = s
<1>1. CASE UpdateSubscription
  BY <1>1 DEF UpdateSubscription, VersionMatches, AdminInv, TypeOK, Administrations
<1>2. ASSUME NEW p \in Processors, ResetFailures(p) \/ RecordFailure(p)
      PROVE  FALSE
  BY <1>2 DEF ResetFailures, RecordFailure, TypeOK
<1>3. ASSUME NEW r \in Subs, DeleteSubscription(r) \/ ReadForUpdate(r, "update")
                              \/ ReadForUpdate(r, "reactivate")
      PROVE  FALSE
  BY <1>3 DEF DeleteSubscription, ReadForUpdate, subVars
<1>4. CASE UNCHANGED <<subVars, admin>>
  BY <1>4 DEF subVars
<1> QED
  BY <1>1, <1>2, <1>3, <1>4, OnlySubscriptionSteps

\* No success that comes late and no update based on an older read lifts a
\* suspension.
THEOREM SuspensionStays == Spec => SuspensionHolds
<1>1. TypeOK /\ AdminInv /\ [Next]_vars =>
        [\A s \in Subs : suspended[s] /\ ~suspended'[s] =>
            admin.op = "reactivate" /\ admin.sub = s]_vars
  BY SuspensionStep
<1> QED
  BY <1>1, TypeCorrect, AdminInvariant, PTL DEF Spec, SuspensionHolds

----------------------------------------------------------------------------
(* The work of a processor.  It never comes back to the row it works at,   *)
(* only a row its endpoint accepted is recorded delivered, and while it    *)
(* holds a lease it knows how often the row was tried.                     *)

HoldsCurrent(p, d) == status[d] = "processing" /\ leaseOwner[d] = p /\ Attends(p, d)

WorkInv ==
    \A p \in Processors :
        /\ pc[p] \notin {"idle", "batch"} => current[p] \notin batch[p]
        /\ result[p] = "delivered" =>
             pc[p] \in {"recording", "resetting"} /\ current[p] \in accepted
        /\ \A d \in Rows : HoldsCurrent(p, d) => seen[p][d] = attempts[d]

\* A row exists only for an event that was fanned out.
FanInv == \A d \in Rows : d[1] \notin fanned => status[d] = "absent"

RowInv == WorkInv /\ FanInv /\ AttemptBudget /\ DeliveredWasAccepted

LEMMA RowInit == Init => RowInv
BY Constants DEF Init, RowInv, WorkInv, FanInv, AttemptBudget, DeliveredWasAccepted,
   HoldsCurrent, Settled

\* A row that is inserted was absent.
LEMMA FanOutInserts ==
    ASSUME TypeOK, FanInv, NEW e \in Events, FanOut(e), NEW d \in Rows
    PROVE  \/ status[d] = "absent" /\ status'[d] = "pending"
           \/ status'[d] = status[d]
BY DEF FanOut, Insert, FanInv, TypeOK

LEMMA FanStep ==
    ASSUME TypeOK, FanInv, [Next]_vars
    PROVE  FanInv'
<1>0. fanned \subseteq fanned'
  <2>1. (\E e \in Events : FanOut(e)) \/ UNCHANGED fanned
    <3>1. ASSUME NEW p \in Processors, ProcessorStep(p) \/ StatementFails(p) \/ Crash(p)
          PROVE  UNCHANGED fanned
      BY <3>1 DEF ProcessorStep, DeliveryStep, SelectDue, Claim, LoseClaim, Check, Post, Record,
                  RecordRefused, ResetFailures, ReadSubscription, RecordFailure, StopRetrying,
                  StatementFails, Crash
    <3>2. CASE AdminStep \/ UNCHANGED vars
               \/ \E d \in Rows : BackoffElapses(d) \/ LeaseExpires(d)
      BY <3>2 DEF AdminStep, DeleteSubscription, ReadForUpdate, UpdateSubscription, Replay,
                  BackoffElapses, LeaseExpires, vars
    <3> QED
      BY <3>1, <3>2 DEF Next
  <2> QED
    BY <2>1 DEF FanOut
<1> SUFFICES ASSUME NEW d \in Rows, d[1] \notin fanned'
             PROVE  status'[d] = "absent"
  BY DEF FanInv
<1>1. status[d] = "absent"
  BY <1>0 DEF FanInv
<1>2. ASSUME NEW e \in Events, FanOut(e)
      PROVE  status'[d] = "absent"
  BY <1>1, <1>2 DEF FanOut, Insert, TypeOK
<1>3. ASSUME NEW r \in Rows, Replay(r)
      PROVE  status'[d] = "absent"
  <2>1. r[1] \in fanned /\ ReplayOf(r)[1] = r[1] /\ fanned' = fanned
    BY <1>3 DEF Replay, FanInv, ReplayOf
  <2>2. d # ReplayOf(r)
    BY <2>1
  <2> QED
    BY <1>1, <1>3, <2>2 DEF Replay, Insert, TypeOK
<1>4. ASSUME NEW r \in Rows, BackoffElapses(r) \/ LeaseExpires(r)
      PROVE  status'[d] = "absent"
  BY <1>1, <1>4 DEF BackoffElapses, LeaseExpires
<1>5. ASSUME NEW p \in Processors, NEW r \in Rows, Claim(p, r)
      PROVE  status'[d] = "absent"
  BY <1>1, <1>5 DEF Claim, StillClaimable, Claimable, TypeOK
<1>6. ASSUME NEW p \in Processors, Record(p) \/ StopRetrying(p)
      PROVE  status'[d] = "absent"
  BY <1>1, <1>6 DEF Record, Fenced, StopRetrying, Stoppable, TypeOK
<1>7. CASE UNCHANGED rowVars
  BY <1>1, <1>7 DEF rowVars
<1> QED
  BY <1>2, <1>3, <1>4, <1>5, <1>6, <1>7, OnlyRowSteps DEF RowStep

LEMMA BudgetStep ==
    ASSUME TypeOK, RowInv, [Next]_vars
    PROVE  AttemptBudget'
<1> SUFFICES ASSUME NEW d \in Rows
             PROVE  /\ attempts'[d] <= MaxAttempts
                    /\ status'[d] \notin Settled => attempts'[d] < MaxAttempts
  BY DEF AttemptBudget
<1>0. /\ attempts[d] \in Nat /\ attempts[d] <= MaxAttempts
      /\ status[d] \notin Settled => attempts[d] < MaxAttempts
  BY DEF RowInv, AttemptBudget, TypeOK
<1>1. ASSUME NEW p \in Processors, Record(p)
      PROVE  /\ attempts'[d] <= MaxAttempts
             /\ status'[d] \notin Settled => attempts'[d] < MaxAttempts
  <2>1. CASE d = current[p]
    <3>1. status[d] = "processing" /\ seen[p][d] = attempts[d]
      BY <1>1, <2>1 DEF Record, Fenced, RowInv, WorkInv, HoldsCurrent, Attends
    <3>2. attempts'[d] = attempts[d] + 1 /\ status'[d] = Outcome(p)
      BY <1>1, <2>1 DEF Record, TypeOK
    <3>3. Outcome(p) \notin Settled => ~(attempts[d] + 1 >= MaxAttempts)
      BY <2>1, <3>1 DEF Outcome, LastAttempt, Settled
    <3> QED
      BY <1>0, <3>1, <3>2, <3>3, LimitsAssumption DEF Settled
  <2>2. CASE d # current[p]
    BY <1>0, <1>1, <2>2 DEF Record, TypeOK
  <2> QED
    BY <2>1, <2>2
<1>2. ASSUME NEW p \in Processors, StopRetrying(p)
      PROVE  attempts'[d] = attempts[d] /\ (status'[d] = status[d] \/ status'[d] \in Settled)
  BY <1>2 DEF StopRetrying, TypeOK, Settled
<1>3. ASSUME \/ \E e \in Events : FanOut(e)
             \/ \E r \in Rows : Replay(r) \/ BackoffElapses(r) \/ LeaseExpires(r)
             \/ \E p \in Processors, r \in Rows : Claim(p, r)
             \/ UNCHANGED rowVars
      PROVE  /\ attempts'[d] = attempts[d]
             /\ status'[d] = status[d] \/ status[d] \notin Settled
  <2>1. ASSUME NEW e \in Events, FanOut(e)
        PROVE  attempts'[d] = attempts[d] /\ (status'[d] = status[d] \/ status[d] \notin Settled)
    BY <2>1, FanOutInserts DEF FanOut, Insert, RowInv, Settled
  <2>2. ASSUME NEW r \in Rows, Replay(r)
        PROVE  attempts'[d] = attempts[d] /\ (status'[d] = status[d] \/ status[d] \notin Settled)
    BY <2>2 DEF Replay, Insert, TypeOK, Settled
  <2>3. ASSUME NEW r \in Rows, BackoffElapses(r) \/ LeaseExpires(r)
        PROVE  attempts'[d] = attempts[d] /\ status'[d] = status[d]
    BY <2>3 DEF BackoffElapses, LeaseExpires
  <2>4. ASSUME NEW p \in Processors, NEW r \in Rows, Claim(p, r)
        PROVE  attempts'[d] = attempts[d] /\ (status'[d] = status[d] \/ status[d] \notin Settled)
    BY <2>4 DEF Claim, StillClaimable, Claimable, TypeOK, Settled
  <2> QED
    BY <1>3, <2>1, <2>2, <2>3, <2>4 DEF rowVars
<1> QED
  BY <1>0, <1>1, <1>2, <1>3, OnlyRowSteps DEF RowStep

LEMMA DeliveredStep ==
    ASSUME TypeOK, RowInv, [Next]_vars, NEW d \in Rows, status'[d] = "delivered"
    PROVE  d \in accepted'
<1>0. accepted \subseteq accepted'
  <2>1. ASSUME NEW p \in Processors, ProcessorStep(p) \/ StatementFails(p) \/ Crash(p)
        PROVE  accepted \subseteq accepted'
    BY <2>1 DEF ProcessorStep, DeliveryStep, SelectDue, Claim, LoseClaim, Check, Post, Record,
                RecordRefused, ResetFailures, ReadSubscription, RecordFailure, StopRetrying,
                StatementFails, Crash, historyVars
  <2>2. CASE \/ \E e \in Events : FanOut(e)
             \/ \E r \in Rows : BackoffElapses(r) \/ LeaseExpires(r)
             \/ AdminStep
             \/ UNCHANGED vars
    BY <2>2 DEF FanOut, AdminStep, DeleteSubscription, ReadForUpdate, UpdateSubscription,
                Replay, BackoffElapses, LeaseExpires, historyVars, vars
  <2> QED
    BY <2>1, <2>2 DEF Next
<1>1. CASE status[d] = "delivered"
  BY <1>0, <1>1 DEF RowInv, DeliveredWasAccepted
<1>2. CASE status[d] # "delivered"
  <2>1. PICK p \in Processors : Record(p)
    <3>1. ASSUME NEW e \in Events, FanOut(e)
          PROVE  FALSE
      BY <1>2, <3>1, FanOutInserts DEF RowInv
    <3>2. ASSUME NEW r \in Rows, Replay(r) \/ BackoffElapses(r) \/ LeaseExpires(r)
          PROVE  FALSE
      BY <1>2, <3>2 DEF Replay, Insert, BackoffElapses, LeaseExpires, TypeOK
    <3>3. ASSUME NEW p \in Processors, NEW r \in Rows, Claim(p, r)
          PROVE  FALSE
      BY <1>2, <3>3 DEF Claim, TypeOK
    <3>4. ASSUME NEW p \in Processors, StopRetrying(p)
          PROVE  FALSE
      BY <1>2, <3>4 DEF StopRetrying, TypeOK
    <3> QED
      BY <1>2, <3>1, <3>2, <3>3, <3>4, OnlyRowSteps DEF RowStep, rowVars
  <2>2. d = current[p] /\ Outcome(p) = "delivered"
    BY <1>2, <2>1 DEF Record, TypeOK
  <2>3. result[p] = "delivered"
    BY <2>2 DEF Outcome
  <2> QED
    BY <1>0, <2>2, <2>3 DEF RowInv, WorkInv
<1> QED
  BY <1>1, <1>2

\* The part of WorkInv about one processor.
Works(q) ==
    /\ pc[q] \notin {"idle", "batch"} => current[q] \notin batch[q]
    /\ result[q] = "delivered" =>
         pc[q] \in {"recording", "resetting"} /\ current[q] \in accepted
    /\ \A d \in Rows : HoldsCurrent(q, d) => seen[q][d] = attempts[d]

\* A processor that leaves a row or gives up its batch.
LEMMA LeavingWorks ==
    ASSUME TypeOK, WorkInv, NEW q \in Processors, NEW p \in Processors,
           Idle(p) \/ GoNext(p) \/ (pc[p] = "batch" /\ \E d \in Rows : Drop(p, d)),
           UNCHANGED <<leaseOwner, attempts, accepted>>,
           \A d \in Rows : status'[d] = "processing" => status[d] = "processing"
    PROVE  Works(q)'
<1> USE DEF TypeOK, WorkInv, Works, HoldsCurrent, Attends
<1>1. CASE Idle(p)
  BY <1>1 DEF Idle
<1>2. CASE GoNext(p)
  <2>1. CASE q = p
    <3>1. pc'[q] \in {"idle", "batch"} /\ result'[q] = "none" /\ batch'[q] = batch[q]
          /\ \A d \in batch[q] : seen'[q][d] = seen[q][d]
      BY <1>2, <2>1 DEF GoNext
    <3> QED
      BY <1>2, <2>1, <3>1 DEF GoNext
  <2>2. CASE q # p
    BY <1>2, <2>2 DEF GoNext
  <2> QED
    BY <2>1, <2>2
<1>3. ASSUME NEW d \in Rows, pc[p] = "batch", Drop(p, d)
      PROVE  Works(q)'
  <2>1. CASE q = p
    <3>1. pc'[q] \in {"idle", "batch"} /\ result'[q] = result[q] /\ batch'[q] = batch[q] \ {d}
          /\ \A r \in Rows \ {d} : seen'[q][r] = seen[q][r]
      BY <1>3, <2>1 DEF Drop
    <3>2. result'[q] # "delivered"
      BY <1>3, <2>1, <3>1
    <3>3. ASSUME NEW r \in Rows, HoldsCurrent(q, r)'
          PROVE  seen'[q][r] = attempts'[r]
      <4>1. r \in batch[q] /\ r # d /\ HoldsCurrent(q, r)
        BY <1>3, <3>1, <3>3
      <4> QED
        BY <3>1, <4>1
    <3> QED
      BY <3>1, <3>2, <3>3
  <2>2. CASE q # p
    BY <1>3, <2>2 DEF Drop
  <2> QED
    BY <2>1, <2>2
<1> QED
  BY <1>1, <1>2, <1>3

LEMMA WorkDeliveryStep ==
    ASSUME TypeOK, WorkInv, NEW p \in Processors, DeliveryStep(p), NEW q \in Processors
    PROVE  Works(q)'
<1> USE DEF TypeOK, WorkInv, Works, HoldsCurrent, Attends
<1>1. CASE Check(p)
  BY <1>1 DEF Check, rowVars, subVars, historyVars
<1>2. CASE Post(p)
  BY <1>2 DEF Post, Succeeds, rowVars, subVars
<1>3. CASE Record(p)
  BY <1>3 DEF Record, GoTo, Outcome, historyVars
<1>4. CASE RecordRefused(p)
  BY <1>4, LeavingWorks DEF RecordRefused, rowVars, historyVars
<1>5. CASE ResetFailures(p)
  BY <1>5, LeavingWorks DEF ResetFailures, rowVars, historyVars
<1>6. CASE ReadSubscription(p)
  <2>1. CASE GoNext(p)
    BY <1>6, <2>1, LeavingWorks DEF ReadSubscription, rowVars, historyVars
  <2>2. CASE pc' = [pc EXCEPT ![p] = "counting"] /\ UNCHANGED <<todo, batch, seen, current, result>>
    BY <1>6, <2>2 DEF ReadSubscription, rowVars, historyVars
  <2> QED
    BY <1>6, <2>1, <2>2 DEF ReadSubscription
<1>7. CASE RecordFailure(p)
  <2>1. CASE GoNext(p)
    BY <1>7, <2>1, LeavingWorks DEF RecordFailure, rowVars, historyVars
  <2>2. CASE GoTo(p, "stopping")
    BY <1>7, <2>2 DEF RecordFailure, GoTo, rowVars, historyVars
  <2> QED
    BY <1>7, <2>1, <2>2 DEF RecordFailure
<1>8. CASE StopRetrying(p)
  <2>1. \A d \in Rows : status'[d] = "processing" => status[d] = "processing"
    BY <1>8 DEF StopRetrying
  <2> QED
    BY <1>8, <2>1, LeavingWorks DEF StopRetrying, historyVars
<1> QED
  BY <1>1, <1>2, <1>3, <1>4, <1>5, <1>6, <1>7, <1>8 DEF DeliveryStep

LEMMA WorkStep ==
    ASSUME TypeOK, WorkInv, FanInv, [Next]_vars
    PROVE  WorkInv'
<1> SUFFICES ASSUME NEW q \in Processors
             PROVE  Works(q)'
  BY DEF WorkInv, Works
<1> USE DEF WorkInv, Works, HoldsCurrent, Attends
<1>1. ASSUME NEW p \in Processors, DeliveryStep(p)
      PROVE  Works(q)'
  BY <1>1, WorkDeliveryStep
<1>2. ASSUME NEW p \in Processors, SelectDue(p) \/ \E d \in Rows : LoseClaim(p, d)
      PROVE  Works(q)'
  BY <1>2 DEF SelectDue, LoseClaim, rowVars, historyVars, TypeOK
<1>3. ASSUME NEW p \in Processors, NEW d \in Rows, Claim(p, d)
      PROVE  Works(q)'
  BY <1>3 DEF Claim, TypeOK
<1>4. ASSUME NEW p \in Processors, StatementFails(p) \/ Crash(p)
      PROVE  Works(q)'
  <2>1. Idle(p) \/ GoNext(p) \/ (pc[p] = "batch" /\ \E d \in Rows : Drop(p, d))
    BY <1>4 DEF StatementFails, Crash, TypeOK
  <2> QED
    BY <1>4, <2>1, LeavingWorks DEF StatementFails, Crash, rowVars
<1>5. ASSUME NEW e \in Events, FanOut(e)
      PROVE  Works(q)'
  <2>1. \A d \in Rows : status'[d] = "processing" => status[d] = "processing"
    BY <1>5, FanOutInserts
  <2> QED
    BY <1>5, <2>1 DEF FanOut, Insert, processorVars, historyVars
<1>6. ASSUME NEW r \in Rows, Replay(r)
      PROVE  Works(q)'
  <2>1. \A d \in Rows : status'[d] = "processing" => status[d] = "processing"
    BY <1>6 DEF Replay, Insert, TypeOK
  <2> QED
    BY <1>6, <2>1 DEF Replay, Insert, processorVars, historyVars
<1>7. ASSUME \/ \E s \in Subs : DeleteSubscription(s) \/ ReadForUpdate(s, "update")
                                \/ ReadForUpdate(s, "reactivate")
             \/ UpdateSubscription
             \/ \E d \in Rows : BackoffElapses(d) \/ LeaseExpires(d)
             \/ UNCHANGED vars
      PROVE  Works(q)'
  <2>1. UNCHANGED <<processorVars, status, leaseOwner, attempts, accepted>>
    BY <1>7 DEF DeleteSubscription, ReadForUpdate, UpdateSubscription, BackoffElapses,
                LeaseExpires, vars, rowVars, historyVars
  <2> QED
    BY <2>1 DEF processorVars
<1> QED
  BY <1>1, <1>2, <1>3, <1>4, <1>5, <1>6, <1>7 DEF Next, ProcessorStep, AdminStep

LEMMA RowInvariant == Spec => []RowInv
<1>1. TypeOK /\ RowInv /\ [Next]_vars => RowInv'
  BY WorkStep, FanStep, BudgetStep, DeliveredStep DEF RowInv, DeliveredWasAccepted
<1> QED
  BY <1>1, RowInit, TypeCorrect, PTL DEF Spec

\* A delivery is tried maxAttempts times at most, whichever processors count
\* its attempts.
THEOREM BudgetHolds == Spec => []AttemptBudget
<1>1. RowInv => AttemptBudget
  BY DEF RowInv
<1> QED
  BY <1>1, RowInvariant, PTL

\* What is recorded delivered was accepted by the endpoint.
THEOREM DeliveredMeansAccepted == Spec => []DeliveredWasAccepted
<1>1. RowInv => DeliveredWasAccepted
  BY DEF RowInv
<1> QED
  BY <1>1, RowInvariant, PTL

----------------------------------------------------------------------------
(* The fan-out as EventFanout promises it.                                 *)

\* The original deliveries depend on which rows exist.
LEMMA OriginalsKept ==
    ASSUME \A d \in Rows : d[3] = 0 => (status'[d] = "absent" <=> status[d] = "absent")
    PROVE  Originals' = Originals
BY DEF Originals

\* FanOut gives the new event the subscriptions that receive it.
LEMMA FanOutFans ==
    ASSUME TypeOK, FanInv, NEW e \in Events, FanOut(e)
    PROVE  Fanout!FanoutNext
<1> DEFINE matches == {s \in Subs : Receives(s)}
<1>1. e \notin fanned /\ fanned' = fanned \cup {e}
  BY DEF FanOut
<1>2. ASSUME NEW d \in Rows, d[3] = 0
      PROVE  status'[d] # "absent" <=>
               status[d] # "absent" \/ (d[1] = e /\ d[2] \in matches)
  <2>1. d = <<d[1], d[2], 0>> /\ d[2] \in Subs
    BY <1>2 DEF Rows
  <2>2. d \in {<<e, s, 0>> : s \in matches} <=> (d[1] = e /\ d[2] \in matches)
    BY <2>1
  <2> QED
    BY <2>2 DEF FanOut, Insert, TypeOK
<1>3. Originals' = Originals \cup ({e} \X matches)
  <2>1. ASSUME NEW x \in Originals'
        PROVE  x \in Originals \cup ({e} \X matches)
    <3>1. PICK d \in Rows : d[3] = 0 /\ status'[d] # "absent" /\ x = <<d[1], d[2]>>
      BY <2>1 DEF Originals
    <3> QED
      BY <1>2, <3>1 DEF Originals
  <2>2. ASSUME NEW x \in Originals
        PROVE  x \in Originals'
    <3>1. PICK d \in Rows : d[3] = 0 /\ status[d] # "absent" /\ x = <<d[1], d[2]>>
      BY <2>2 DEF Originals
    <3> QED
      BY <1>2, <3>1 DEF Originals
  <2>3. ASSUME NEW s \in matches
        PROVE  <<e, s>> \in Originals'
    <3>1. <<e, s, 0>> \in Rows
      BY Constants DEF Rows
    <3> QED
      BY <1>2, <3>1 DEF Originals
  <2> QED
    BY <2>1, <2>2, <2>3
<1>4. e \in fanned' \ fanned /\ Fanout!Fan(e)
  BY <1>1, <1>3 DEF Fanout!Fan
<1> QED
  BY <1>4 DEF Fanout!FanoutNext

\* No other step makes or removes an original delivery.
LEMMA OtherStepsKeepOriginals ==
    ASSUME TypeOK, FanInv, [Next]_vars, ~ \E e \in Events : FanOut(e)
    PROVE  UNCHANGED <<fanned, Originals>>
<1>1. ASSUME NEW d \in Rows, d[3] = 0
      PROVE  status'[d] = "absent" <=> status[d] = "absent"
  <2>1. ASSUME NEW r \in Rows, Replay(r)
        PROVE  status'[d] = status[d]
    <3>1. r[3] \in Nat /\ ReplayOf(r)[3] = r[3] + 1
      BY Constants DEF Rows, ReplayOf
    <3>2. d # ReplayOf(r)
      BY <1>1, <3>1
    <3> QED
      BY <2>1, <3>2 DEF Replay, Insert, TypeOK
  <2>2. ASSUME NEW r \in Rows, BackoffElapses(r) \/ LeaseExpires(r)
        PROVE  status'[d] = status[d]
    BY <2>2 DEF BackoffElapses, LeaseExpires
  <2>3. ASSUME NEW p \in Processors, NEW r \in Rows, Claim(p, r)
        PROVE  status'[d] = "absent" <=> status[d] = "absent"
    BY <2>3 DEF Claim, StillClaimable, Claimable, TypeOK
  <2>4. ASSUME NEW p \in Processors, Record(p)
        PROVE  status'[d] = "absent" <=> status[d] = "absent"
    BY <2>4 DEF Record, Fenced, Outcome, TypeOK
  <2>5. ASSUME NEW p \in Processors, StopRetrying(p)
        PROVE  status'[d] = "absent" <=> status[d] = "absent"
    BY <2>5 DEF StopRetrying, Stoppable, TypeOK
  <2>6. CASE UNCHANGED rowVars
    BY <2>6 DEF rowVars
  <2> QED
    BY <2>1, <2>2, <2>3, <2>4, <2>5, <2>6, OnlyRowSteps DEF RowStep
<1>2. UNCHANGED fanned
  <2>1. ASSUME NEW p \in Processors, ProcessorStep(p) \/ StatementFails(p) \/ Crash(p)
        PROVE  UNCHANGED fanned
    BY <2>1 DEF ProcessorStep, DeliveryStep, SelectDue, Claim, LoseClaim, Check, Post, Record,
                RecordRefused, ResetFailures, ReadSubscription, RecordFailure, StopRetrying,
                StatementFails, Crash
  <2>2. CASE AdminStep \/ UNCHANGED vars
             \/ \E d \in Rows : BackoffElapses(d) \/ LeaseExpires(d)
    BY <2>2 DEF AdminStep, DeleteSubscription, ReadForUpdate, UpdateSubscription, Replay,
                BackoffElapses, LeaseExpires, vars
  <2> QED
    BY <2>1, <2>2 DEF Next
<1> QED
  BY <1>1, <1>2, OriginalsKept

\* The tables implement EventFanout through leases, replays and administration.
THEOREM DeliveriesKeepFanout == Spec => FanoutContract
<1>1. Init => Fanout!FanoutInit
  BY DEF Init, Originals, Fanout!FanoutInit
<1>2. TypeOK /\ FanInv /\ [Next]_vars => [Fanout!FanoutNext]_(Fanout!fanoutVars)
  BY FanOutFans, OtherStepsKeepOriginals DEF Fanout!fanoutVars
<1>3. RowInv => FanInv
  BY DEF RowInv
<1> QED
  BY <1>1, <1>2, <1>3, TypeCorrect, RowInvariant, PTL DEF Spec, FanoutContract, Fanout!FanoutSpec

----------------------------------------------------------------------------
(* Leases in the hands of their processors.                                *)

\* The lease of d and the place of p in its batch, unless it fails or dies.
Attended(p, d) == leaseOwner[d] = p /\ Attends(p, d)

\* A processor that goes on keeps the rows it holds until it has recorded them or
\* finds that another one has taken them over.
LEMMA DeliveryKeepsLeases ==
    ASSUME TypeOK, NEW p \in Processors, DeliveryStep(p),
           NEW q \in Processors, NEW d \in Rows, Attended(q, d),
           status[d] = "processing", status'[d] = "processing"
    PROVE  Attended(q, d)'
<1> USE DEF TypeOK, Attended, Attends
<1>1. CASE Check(p)
  BY <1>1 DEF Check, rowVars
<1>2. CASE Post(p)
  BY <1>2 DEF Post, rowVars
<1>3. CASE Record(p)
  <2>1. d # current[p]
    BY <1>3 DEF Record, Outcome
  <2> QED
    BY <1>3, <2>1 DEF Record, GoTo
<1>4. CASE RecordRefused(p)
  <2>1. ~(q = p /\ current[q] = d)
    BY <1>4 DEF RecordRefused, Fenced
  <2> QED
    BY <1>4, <2>1 DEF RecordRefused, GoNext, rowVars
<1>5. CASE ResetFailures(p) \/ ReadSubscription(p) \/ RecordFailure(p) \/ StopRetrying(p)
  <2>1. /\ pc[p] \notin {"posting", "recording"} /\ UNCHANGED <<leaseOwner, batch>>
        /\ \A r \in Processors \ {p} : pc'[r] = pc[r] /\ current'[r] = current[r]
    BY <1>5 DEF ResetFailures, ReadSubscription, RecordFailure, StopRetrying, GoNext, GoTo, rowVars
  <2> QED
    BY <2>1
<1> QED
  BY <1>1, <1>2, <1>3, <1>4, <1>5 DEF DeliveryStep

\* While nothing fails every lease is in the hands of the processor it names.
LEMMA LeaseStep ==
    ASSUME TypeOK, FanInv, LeaseAttended, [Next]_vars
    PROVE  LeaseAttended'
<1> SUFFICES ASSUME crashes' = 0, NEW d \in Rows, status'[d] = "processing"
             PROVE  \E q \in Processors : Attended(q, d)'
  BY DEF LeaseAttended, Attended, Attends
<1>0. ASSUME crashes = 0, status[d] = "processing"
      PROVE  \E q \in Processors : Attended(q, d)
  BY <1>0 DEF LeaseAttended, Attended
<1>1. ASSUME NEW p \in Processors, DeliveryStep(p)
      PROVE  \E q \in Processors : Attended(q, d)'
  <2>1. UNCHANGED crashes
    BY <1>1 DEF DeliveryStep, Check, Post, Record, RecordRefused, ResetFailures, ReadSubscription,
                RecordFailure, StopRetrying, historyVars
  <2>2. status[d] = "processing"
    BY <1>1 DEF DeliveryStep, Check, Post, Record, RecordRefused, ResetFailures, ReadSubscription,
                RecordFailure, StopRetrying, Stoppable, Outcome, rowVars, TypeOK
  <2> QED
    BY <1>0, <1>1, <2>1, <2>2, DeliveryKeepsLeases
<1>2. ASSUME NEW p \in Processors, SelectDue(p) \/ \E r \in Rows : LoseClaim(p, r)
      PROVE  \E q \in Processors : Attended(q, d)'
  <2>1. status[d] = "processing" /\ crashes = 0
    BY <1>2 DEF SelectDue, LoseClaim, rowVars, historyVars
  <2>2. PICK q \in Processors : Attended(q, d)
    BY <1>0, <2>1
  <2>3. Attended(q, d)'
    BY <1>2, <2>2 DEF SelectDue, LoseClaim, rowVars, TypeOK, Attended, Attends
  <2> QED
    BY <2>3
<1>3. ASSUME NEW p \in Processors, NEW r \in Rows, Claim(p, r)
      PROVE  \E q \in Processors : Attended(q, d)'
  <2>1. CASE d = r
    <3>1. Attended(p, d)'
      BY <1>3, <2>1 DEF Claim, TypeOK, Attended, Attends
    <3> QED
      BY <3>1
  <2>2. CASE d # r
    <3>1. PICK q \in Processors : Attended(q, d)
      BY <1>0, <1>3, <2>2 DEF Claim, TypeOK
    <3>2. Attended(q, d)'
      BY <1>3, <2>2, <3>1 DEF Claim, TypeOK, Attended, Attends
    <3> QED
      BY <3>2
  <2> QED
    BY <2>1, <2>2
<1>4. ASSUME NEW p \in Processors, StatementFails(p) \/ Crash(p)
      PROVE  FALSE
  <2>1. crashes' = crashes + 1
    BY <1>4 DEF StatementFails, Crash
  <2> QED
    BY <2>1 DEF TypeOK
<1>5. ASSUME \/ AdminStep
             \/ \E e \in Events : FanOut(e)
             \/ \E r \in Rows : BackoffElapses(r) \/ LeaseExpires(r)
             \/ UNCHANGED vars
      PROVE  \E q \in Processors : Attended(q, d)'
  <2>1. UNCHANGED <<leaseOwner, pc, batch, current, crashes>>
    BY <1>5 DEF AdminStep, DeleteSubscription, ReadForUpdate, UpdateSubscription, Replay, FanOut,
                Insert, BackoffElapses, LeaseExpires, vars, rowVars, processorVars, historyVars
  <2>2. status[d] = "processing"
    <3>1. ASSUME NEW r \in Rows, Replay(r)
          PROVE  status[d] = "processing"
      BY <3>1 DEF Replay, Insert, TypeOK
    <3>2. ASSUME NEW e \in Events, FanOut(e)
          PROVE  status[d] = "processing"
      BY <3>2, FanOutInserts
    <3>3. CASE UNCHANGED status
      BY <3>3
    <3> QED
      BY <1>5, <3>1, <3>2, <3>3 DEF AdminStep, DeleteSubscription, ReadForUpdate,
         UpdateSubscription, BackoffElapses, LeaseExpires, vars, rowVars
  <2> QED
    BY <1>0, <2>1, <2>2 DEF Attended, Attends
<1> QED
  BY <1>1, <1>2, <1>3, <1>4, <1>5 DEF Next, ProcessorStep

\* Only a crash or a failing statement leaves a leased row to the expiry of its
\* lease.
THEOREM OnlyFaultsWaitForExpiry == Spec => []LeaseAttended
<1>1. Init => LeaseAttended
  BY DEF Init, LeaseAttended
<1>2. TypeOK /\ RowInv /\ LeaseAttended /\ [Next]_vars => LeaseAttended'
  BY LeaseStep DEF RowInv
<1> QED
  BY <1>1, <1>2, TypeCorrect, RowInvariant, PTL DEF Spec

----------------------------------------------------------------------------
(* Ends of attempts and of rows.                                           *)

LEMMA SettledStep ==
    ASSUME TypeOK, FanInv, [Next]_vars, NEW d \in Rows, status[d] \in Settled
    PROVE  status'[d] = status[d]
<1> USE DEF Settled
<1>1. ASSUME NEW e \in Events, FanOut(e)
      PROVE  status'[d] = status[d]
  BY <1>1, FanOutInserts
<1>2. ASSUME NEW r \in Rows, Replay(r) \/ BackoffElapses(r) \/ LeaseExpires(r)
      PROVE  status'[d] = status[d]
  BY <1>2 DEF Replay, Insert, BackoffElapses, LeaseExpires, TypeOK
<1>3. ASSUME NEW p \in Processors, NEW r \in Rows, Claim(p, r)
      PROVE  status'[d] = status[d]
  BY <1>3 DEF Claim, StillClaimable, Claimable, TypeOK
<1>4. ASSUME NEW p \in Processors, Record(p) \/ StopRetrying(p)
      PROVE  status'[d] = status[d]
  BY <1>4 DEF Record, Fenced, StopRetrying, Stoppable, TypeOK
<1> QED
  BY <1>1, <1>2, <1>3, <1>4, OnlyRowSteps DEF RowStep, rowVars

\* A row that has ended stays as it is.
THEOREM SettledStays == Spec => SettledFinal
<1>1. TypeOK /\ RowInv /\ [Next]_vars =>
        [\A d \in Rows : status[d] \in Settled => status'[d] = status[d]]_vars
  BY SettledStep DEF RowInv
<1> QED
  BY <1>1, TypeCorrect, RowInvariant, PTL DEF Spec, SettledFinal

LEMMA EndStep ==
    ASSUME TypeOK, FanInv, [Next]_vars, NEW d \in Rows,
           status[d] = "processing", status'[d] # "processing"
    PROVE  \E p \in Processors : leaseOwner[d] = p /\ current[p] = d /\ pc[p] = "recording"
<1>1. ASSUME NEW p \in Processors, Record(p)
      PROVE  leaseOwner[d] = p /\ current[p] = d /\ pc[p] = "recording"
  BY <1>1 DEF Record, Fenced, TypeOK
<1>2. ASSUME NEW e \in Events, FanOut(e)
      PROVE  FALSE
  BY <1>2, FanOutInserts
<1>3. ASSUME NEW r \in Rows, Replay(r) \/ BackoffElapses(r) \/ LeaseExpires(r)
      PROVE  FALSE
  BY <1>3 DEF Replay, Insert, BackoffElapses, LeaseExpires, TypeOK
<1>4. ASSUME NEW p \in Processors, NEW r \in Rows, Claim(p, r)
      PROVE  FALSE
  BY <1>4 DEF Claim, TypeOK
<1>5. ASSUME NEW p \in Processors, StopRetrying(p)
      PROVE  FALSE
  BY <1>5 DEF StopRetrying, Stoppable, TypeOK
<1> QED
  BY <1>1, <1>2, <1>3, <1>4, <1>5, OnlyRowSteps DEF RowStep, rowVars

\* An attempt is ended by the processor that holds the lease.
THEOREM HolderEnds == Spec => EndedByHolder
<1>1. TypeOK /\ RowInv /\ [Next]_vars =>
        [\A d \in Rows :
           status[d] = "processing" /\ status'[d] # "processing" =>
               \E p \in Processors :
                   leaseOwner[d] = p /\ current[p] = d /\ pc[p] = "recording"]_vars
  BY EndStep DEF RowInv
<1> QED
  BY <1>1, TypeCorrect, RowInvariant, PTL DEF Spec, EndedByHolder

----------------------------------------------------------------------------
(* Requests to the endpoint.  PostsBounded says nothing of the processors  *)
(* that have leased a row and not posted it yet, some of which may have    *)
(* lost their lease.  Counted with the posts they stay within the bound,   *)
(* because each claim of a row either starts an attempt or counts as taken.*)

\* The processors that will post d once more.
Pending(d) == {p \in Processors : d \in batch[p] \/ (pc[p] = "posting" /\ current[p] = d)}

Open(d) == IF status[d] = "processing" THEN 1 ELSE 0

Allowed(d) == attempts[d] + taken[d] + Open(d)

PostsInv == \A d \in Rows : posts[d] + Cardinality(Pending(d)) <= Allowed(d)

LEMMA PendingFinite ==
    ASSUME NEW d
    PROVE  /\ IsFiniteSet(Pending(d)) /\ Cardinality(Pending(d)) \in Nat
           /\ IsFiniteSet(Pending(d)') /\ Cardinality(Pending(d)') \in Nat
BY SetsAssumption, FS_Subset, FS_CardinalityType DEF Pending

LEMMA Summands ==
    ASSUME TypeOK, TypeOK', NEW d \in Rows
    PROVE  /\ posts[d] \in Nat /\ Open(d) \in 0..1 /\ Allowed(d) \in Nat
           /\ posts'[d] \in Nat /\ Open(d)' \in 0..1 /\ Allowed(d)' \in Nat
BY DEF TypeOK, Open, Allowed

LEMMA FewerPending ==
    ASSUME TypeOK, TypeOK', PostsInv, NEW d \in Rows,
           Pending(d)' \subseteq Pending(d), posts'[d] = posts[d], Allowed(d)' >= Allowed(d)
    PROVE  (posts[d] + Cardinality(Pending(d)) <= Allowed(d))'
<1>1. Cardinality(Pending(d)') <= Cardinality(Pending(d))
  BY PendingFinite, FS_Subset
<1> QED
  BY <1>1, Summands, PendingFinite DEF PostsInv

LEMMA PostsWorkStep ==
    ASSUME TypeOK, TypeOK', WorkInv, PostsInv, NEW p \in Processors, ProcessorStep(p),
           NEW d \in Rows
    PROVE  (posts[d] + Cardinality(Pending(d)) <= Allowed(d))'
<1>1. ASSUME NEW r \in Rows, Claim(p, r)
      PROVE  (posts[d] + Cardinality(Pending(d)) <= Allowed(d))'
  <2>1. CASE d = r
    <3>1. Pending(d)' \subseteq Pending(d) \cup {p}
      BY <1>1 DEF Claim, Pending, TypeOK
    <3>2. Cardinality(Pending(d)') <= Cardinality(Pending(d)) + 1
      <4>1. /\ IsFiniteSet(Pending(d) \cup {p})
            /\ Cardinality(Pending(d) \cup {p}) <= Cardinality(Pending(d)) + 1
        <5>1. IsFiniteSet(Pending(d)) /\ Cardinality(Pending(d)) \in Nat
          BY PendingFinite
        <5>2. /\ IsFiniteSet(Pending(d) \cup {p})
              /\ Cardinality(Pending(d) \cup {p}) =
                   IF p \in Pending(d) THEN Cardinality(Pending(d)) ELSE Cardinality(Pending(d)) + 1
          BY <5>1, FS_AddElement, Zenon
        <5> QED
          BY <5>1, <5>2
      <4> QED
        BY <3>1, <4>1, FS_Subset, FS_CardinalityType, PendingFinite
    <3>3. posts'[d] = posts[d] /\ Allowed(d)' = Allowed(d) + 1
      BY <1>1, <2>1 DEF Claim, StillClaimable, Claimable, Allowed, Open, TypeOK
    <3> QED
      BY <3>2, <3>3, Summands, PendingFinite DEF PostsInv
  <2>2. CASE d # r
    <3>1. Pending(d)' \subseteq Pending(d)
      BY <1>1, <2>2 DEF Claim, Pending, TypeOK
    <3>2. posts'[d] = posts[d] /\ Allowed(d)' = Allowed(d)
      BY <1>1, <2>2 DEF Claim, Allowed, Open, TypeOK
    <3> QED
      BY <3>1, <3>2, Summands, FewerPending
  <2> QED
    BY <2>1, <2>2
<1>2. CASE Post(p)
  <2>1. Allowed(d)' = Allowed(d)
    BY <1>2 DEF Post, rowVars, Allowed, Open
  <2>2. CASE d = current[p]
    <3>1. p \in Pending(d) /\ Pending(d)' \subseteq Pending(d) \ {p}
      BY <1>2, <2>2 DEF Post, Pending, WorkInv, TypeOK
    <3>2. Cardinality(Pending(d)') <= Cardinality(Pending(d)) - 1
      <4>1. /\ IsFiniteSet(Pending(d) \ {p})
            /\ Cardinality(Pending(d) \ {p}) = Cardinality(Pending(d)) - 1
        BY <3>1, PendingFinite, FS_RemoveElement
      <4> QED
        BY <3>1, <4>1, FS_Subset
    <3>3. posts'[d] = posts[d] + 1
      BY <1>2, <2>2 DEF Post, TypeOK
    <3> QED
      BY <2>1, <3>2, <3>3, Summands, PendingFinite DEF PostsInv
  <2>3. CASE d # current[p]
    <3>1. Pending(d)' \subseteq Pending(d) /\ posts'[d] = posts[d]
      BY <1>2, <2>3 DEF Post, Pending, TypeOK
    <3> QED
      BY <2>1, <3>1, Summands, FewerPending
  <2> QED
    BY <2>2, <2>3
\* The end of an attempt moves the row from Open to attempts.
<1>3. CASE Record(p)
  <2>1. Pending(d)' \subseteq Pending(d) /\ posts'[d] = posts[d]
    BY <1>3 DEF Record, GoTo, Pending, historyVars, TypeOK
  <2>2. Allowed(d)' >= Allowed(d)
    BY <1>3 DEF Record, Fenced, Allowed, Open, historyVars, TypeOK
  <2> QED
    BY <2>1, <2>2, FewerPending
<1>4. CASE \/ SelectDue(p) \/ (\E r \in Rows : LoseClaim(p, r)) \/ Check(p) \/ RecordRefused(p)
           \/ ResetFailures(p) \/ ReadSubscription(p) \/ RecordFailure(p) \/ StopRetrying(p)
  <2>1. Pending(d)' \subseteq Pending(d)
    BY <1>4 DEF SelectDue, LoseClaim, Check, RecordRefused, ResetFailures, ReadSubscription,
                RecordFailure, StopRetrying, GoNext, GoTo, Pending,
                TypeOK
  <2>2. posts'[d] = posts[d] /\ Allowed(d)' = Allowed(d)
    BY <1>4 DEF SelectDue, LoseClaim, Check, RecordRefused, ResetFailures, ReadSubscription,
                RecordFailure, StopRetrying, Stoppable, rowVars, historyVars, Allowed, Open,
                TypeOK
  <2> QED
    BY <2>1, <2>2, Summands, FewerPending
<1> QED
  BY <1>1, <1>2, <1>3, <1>4 DEF ProcessorStep, DeliveryStep

LEMMA PostsStep ==
    ASSUME TypeOK, TypeOK', WorkInv, FanInv, PostsInv, [Next]_vars
    PROVE  PostsInv'
<1> SUFFICES ASSUME NEW d \in Rows
             PROVE  (posts[d] + Cardinality(Pending(d)) <= Allowed(d))'
  BY DEF PostsInv
<1>1. ASSUME NEW p \in Processors, ProcessorStep(p)
      PROVE  (posts[d] + Cardinality(Pending(d)) <= Allowed(d))'
  BY <1>1, PostsWorkStep
<1>2. ASSUME NEW p \in Processors, StatementFails(p) \/ Crash(p)
      PROVE  (posts[d] + Cardinality(Pending(d)) <= Allowed(d))'
  <2>1. Pending(d)' \subseteq Pending(d)
    BY <1>2 DEF StatementFails, Crash, Idle, GoNext, Drop, Pending, TypeOK
  <2>2. posts'[d] = posts[d] /\ Allowed(d)' = Allowed(d)
    BY <1>2 DEF StatementFails, Crash, rowVars, Allowed, Open
  <2> QED
    BY <2>1, <2>2, Summands, FewerPending
<1>3. ASSUME \/ \E e \in Events : FanOut(e)
             \/ \E r \in Rows : BackoffElapses(r) \/ LeaseExpires(r)
             \/ AdminStep
             \/ UNCHANGED vars
      PROVE  (posts[d] + Cardinality(Pending(d)) <= Allowed(d))'
  <2>1. UNCHANGED <<processorVars, posts, attempts, taken>>
    BY <1>3 DEF FanOut, Insert, AdminStep, DeleteSubscription, ReadForUpdate, UpdateSubscription,
                Replay, BackoffElapses, LeaseExpires, rowVars, historyVars, vars
  <2>2. Open(d)' >= Open(d)
    <3>1. status[d] = "processing" => status'[d] = "processing"
      <4>1. ASSUME NEW e \in Events, FanOut(e)
            PROVE  status[d] = "processing" => status'[d] = "processing"
        BY <4>1, FanOutInserts
      <4>2. ASSUME NEW r \in Rows, Replay(r)
            PROVE  status[d] = "processing" => status'[d] = "processing"
        BY <4>2 DEF Replay, Insert, TypeOK
      <4> QED
        BY <1>3, <4>1, <4>2 DEF AdminStep, DeleteSubscription, ReadForUpdate, UpdateSubscription,
                                BackoffElapses, LeaseExpires, rowVars, vars
    <3> QED
      BY <3>1 DEF Open
  <2>3. Pending(d)' = Pending(d)
    BY <2>1 DEF processorVars, Pending
  <2>4. Allowed(d)' >= Allowed(d)
    <3>1. Allowed(d)' = attempts[d] + taken[d] + Open(d)'
      BY <2>1 DEF Allowed
    <3>2. attempts[d] \in Nat /\ taken[d] \in Nat
      BY DEF TypeOK
    <3> QED
      BY <2>2, <3>1, <3>2, Summands DEF Allowed
  <2> QED
    BY <2>1, <2>3, <2>4, FewerPending
<1> QED
  BY <1>1, <1>2, <1>3 DEF Next

LEMMA PostsInit == Init => PostsInv
<1> SUFFICES ASSUME Init, NEW d \in Rows
             PROVE  posts[d] + Cardinality(Pending(d)) <= Allowed(d)
  BY DEF PostsInv
<1>1. Pending(d) = {}
  BY DEF Init, Pending
<1>2. posts[d] = 0 /\ Allowed(d) = 0
  BY DEF Init, Allowed, Open
<1> QED
  BY <1>1, <1>2, FS_EmptySet

\* An endpoint gets one request for each attempt, besides those of processors
\* whose lease expired.
THEOREM PostsAreBounded == Spec => []PostsBounded
<1>1. TypeOK /\ TypeOK' /\ RowInv /\ PostsInv /\ [Next]_vars => PostsInv'
  BY PostsStep DEF RowInv
<1>2. TypeOK /\ PostsInv => PostsBounded
  <2> SUFFICES ASSUME TypeOK, PostsInv, NEW d \in Rows
               PROVE  posts[d] <= attempts[d] + taken[d]
                                    + (IF status[d] = "processing" THEN 1 ELSE 0)
    BY DEF PostsBounded
  <2>1. posts[d] + Cardinality(Pending(d)) <= Allowed(d)
    BY DEF PostsInv
  <2> QED
    BY <2>1, PendingFinite DEF TypeOK, Allowed, Open
<1> QED
  BY <1>1, <1>2, PostsInit, TypeCorrect, RowInvariant, PTL DEF Spec
=============================================================================
