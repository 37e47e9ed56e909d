--------------------------- MODULE JobLifecycle ---------------------------
(***************************************************************************)
(* What a platform job promises, whichever worker runs it: the transition  *)
(* table allowedTransitions of internal/platform/jobs/domain.go, and what  *)
(* a cancellation request means for it.  The repository never consults the *)
(* table: PlatformJobs shows that its SQL statements obey it.              *)
(***************************************************************************)
CONSTANT Jobs

VARIABLES
    state, \* the status of each job
    asked  \* a cancellation was requested

lifecycleVars == <<state, asked>>

Move(j, from, to) == state[j] = from /\ state' = [state EXCEPT ![j] = to]

LifecycleInit ==
    /\ state = [j \in Jobs |-> "absent"]
    /\ asked = [j \in Jobs |-> FALSE]

Create(j) == Move(j, "absent", "queued") /\ UNCHANGED asked

\* A job whose cancellation was requested is never started again, and it
\* never succeeds.
Start(j) == ~asked[j] /\ Move(j, "queued", "running") /\ UNCHANGED asked
Succeed(j) == ~asked[j] /\ Move(j, "running", "succeeded") /\ UNCHANGED asked

GiveUp(j) == Move(j, "running", "failed") /\ UNCHANGED asked

\* An attempt is over and the job waits for another, or is retried by hand.
Requeue(j) ==
    /\ Move(j, "running", "queued") \/ Move(j, "failed", "queued")
    /\ UNCHANGED asked

CancelQueued(j) ==
    Move(j, "queued", "cancelled") /\ asked' = [asked EXCEPT ![j] = TRUE]

AskRunning(j) ==
    /\ state[j] = "running" /\ UNCHANGED state
    /\ asked' = [asked EXCEPT ![j] = TRUE]

CancelRunning(j) == asked[j] /\ Move(j, "running", "cancelled") /\ UNCHANGED asked

JobStep(j) ==
    \/ Create(j)
    \/ Start(j)
    \/ Succeed(j)
    \/ GiveUp(j)
    \/ Requeue(j)
    \/ CancelQueued(j)
    \/ AskRunning(j)
    \/ CancelRunning(j)

LifecycleNext == \E j \in Jobs : JobStep(j)

LifecycleSpec == LifecycleInit /\ [][LifecycleNext]_lifecycleVars
=============================================================================
