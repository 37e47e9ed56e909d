----------------------------- MODULE Importer -----------------------------
(***************************************************************************)
(* The bulk import of a platform: an uploaded source is validated, run by  *)
(* a durable platform job in batches, cancelled, and compensated (undone). *)
(* Requests of several clients, the job's workers, people who edit the     *)
(* imported entities and a second upload of the same source meet in four   *)
(* tables and one staged file.                                             *)
(*                                                                         *)
(* One import, of platform scope: the job type is registered for no other. *)
(* Each SQL statement is one step.  Resume is Execute under another key,   *)
(* so Execute is both.  The durable job is what PlatformJobs shows of it.  *)
(***************************************************************************)
EXTENDS Integers, FiniteSets

CONSTANTS
    Clients,      \* concurrent HTTP requests
    Workers,      \* workers of the platform jobs
    Keys,         \* idempotency keys of the clients
    NoWorker,
    NoKey,
    NoResource,
    TotalRows,
    Kind,         \* of each row: its entity exists, will have a unique name or not, it is a
                  \* membership of a group, or the row is invalid
    BatchSize,
    MaxAttempts,  \* of the durable job
    MaxRequests,  \* bound: requests in all
    MaxEvents     \* bound: crashes, failing statements, lost leases, stale claims, edits,
                  \* uploads, manual retries of the job, results that are too long

ASSUME SetsAssumption == IsFiniteSet(Clients) /\ IsFiniteSet(Workers) /\ IsFiniteSet(Keys)
ASSUME NamesAssumption == NoWorker \notin Workers /\ NoKey \notin Keys
ASSUME RowsAssumption ==
    /\ TotalRows \in Nat \ {0} /\ BatchSize \in Nat \ {0} /\ MaxAttempts \in Nat \ {0}
    /\ Kind \in [1..TotalRows -> {"existing", "unique", "free", "member", "invalid"}]
ASSUME BoundsAssumption ==
    /\ MaxRequests \in Nat /\ MaxEvents \in Nat

Rows == 1..TotalRows

\* What a run of the job can touch: the entity that was there before, or the
\* one that this run creates.  Runs are numbered by the job's attempt.
MaxRuns == MaxAttempts + MaxEvents
Resources == Rows \X (0..MaxRuns)
Resource(r, run) == <<r, IF Kind[r] = "existing" THEN 0 ELSE run>>

ASSUME NoResourceAssumption == NoResource \notin Resources

VARIABLES
    imp,        \* the row of platform_imports: status, version, linked to the job
    staged,     \* the staged source is there
    job,        \* the durable job: status, held, asked to cancel, attempt, holder
    claim,      \* platform_import_idempotency: how far the request of each key is
    checkpoint, \* processed_count of the last checkpoint
    records,    \* platform_import_compensations: the status for each resource
    entity,     \* each resource, as the import or a person left it
    req,        \* each client's request
    run,        \* each worker's run of HandleImportJob
    \* history
    attempted,  \* rows that some run has dealt with
    broken,     \* runs that lost their lease or the record of a mutation
    orphans,    \* resources whose record was lost
    late,       \* resources whose record was saved when the import no longer ran
    kept,       \* entities edited after the import and before its compensation
    holdOver,   \* the hold of the job ran out before it was activated
    spent       \* the bounded events so far

vars == <<imp, staged, job, claim, checkpoint, records, entity, req, run,
          attempted, broken, orphans, late, kept, holdOver, spent>>

Status == {"uploaded", "validating", "validated", "validation_failed", "running", "completed",
           "cancelled", "compensating", "compensated", "compensation_failed"}
JobStatus == {"absent", "queued", "running", "succeeded", "failed", "cancelled"}
Ops == {"validate", "execute", "cancel", "compensate"}

\* importTransitions, without failed and paused: nothing sets them.
CanTransition ==
    [uploaded            |-> {"validating", "cancelled"},
     validating          |-> {"validated", "validation_failed", "cancelled"},
     validated           |-> {"running", "validating", "cancelled"},
     validation_failed   |-> {"cancelled"},
     running             |-> {"completed", "cancelled", "running"},
     completed           |-> {"compensating"},
     cancelled           |-> {},
     compensating        |-> {"compensated", "compensation_failed"},
     compensated         |-> {},
     compensation_failed |-> {"compensating"}]

Terminal == {"completed", "cancelled", "compensated", "compensation_failed"}

\* A key belongs to the request it was first used for: for the other operation
\* it is refused, and nothing changes.
Requests == {"execute", "compensate"} \X Keys
Keyed == {"execute", "compensate"}

NoRequest == [pc |-> "idle", op |-> "none", key |-> NoKey, status |-> "uploaded", version |-> 0,
              linked |-> FALSE, todo |-> {}, current |-> NoResource, clean |-> TRUE]
NoRun == [pc |-> "idle", attempt |-> 0, version |-> 0, row |-> 0, made |-> NoResource]

RequestStates == {"idle", "read", "claimed", "planning", "submitted", "activating", "finishing",
                  "records", "next", "undoing", "restoring", "undone", "refused", "cancelling"}
RunStates == {"idle", "loading", "resuming", "checking", "applying", "recording", "checkpointing",
              "beating", "finishing", "completing", "ok", "retryable", "fatal"}

TypeOK ==
    /\ imp \in [status : Status, version : Nat, linked : BOOLEAN]
    /\ staged \in BOOLEAN
    /\ job \in [status : JobStatus, held : BOOLEAN, asked : BOOLEAN, attempt : 0..MaxRuns,
                holder : Workers \cup {NoWorker}]
    /\ claim \in [Requests -> {"free", "inflight", "done"}]
    /\ checkpoint \in 0..TotalRows
    /\ records \in [Resources -> {"none", "pending", "compensating", "failed", "compensated"}]
    /\ entity \in [Resources -> {"untouched", "made", "edited", "undone"}]
    /\ req \in [Clients -> [pc : RequestStates, op : Ops \cup {"none"}, key : Keys \cup {NoKey},
                            status : Status, version : Nat, linked : BOOLEAN,
                            todo : SUBSET Resources, current : Resources \cup {NoResource},
                            clean : BOOLEAN]]
    /\ run \in [Workers -> [pc : RunStates, attempt : 0..MaxRuns, version : Nat,
                            row : 0..TotalRows, made : Resources \cup {NoResource}]]
    /\ attempted \subseteq Rows
    /\ broken \in Nat
    /\ orphans \subseteq Resources /\ late \subseteq Resources /\ kept \subseteq Resources
    /\ holdOver \in BOOLEAN
    /\ spent \in [requests : Nat, events : Nat]

\* Create: the source is staged and the import uploaded.
Init ==
    /\ imp = [status |-> "uploaded", version |-> 1, linked |-> FALSE]
    /\ staged = TRUE
    /\ job = [status |-> "absent", held |-> FALSE, asked |-> FALSE, attempt |-> 0,
              holder |-> NoWorker]
    /\ claim = [k \in Requests |-> "free"]
    /\ checkpoint = 0
    /\ records = [x \in Resources |-> "none"]
    /\ entity = [x \in Resources |-> "untouched"]
    /\ req = [c \in Clients |-> NoRequest]
    /\ run = [w \in Workers |-> NoRun]
    /\ attempted = {}
    /\ broken = 0
    /\ orphans = {} /\ late = {} /\ kept = {}
    /\ holdOver = FALSE
    /\ spent = [requests |-> 0, events |-> 0]

historyVars == <<attempted, broken, orphans, late, kept, holdOver, spent>>

\* One of the bounded events happens.
Event == spent.events < MaxEvents /\ spent' = [spent EXCEPT !.events = @ + 1]

\* Create again, with the same bytes: the staged file is named after them, so
\* it is written over, and removed (if that works) when the import is active.
UploadAgain ==
    /\ Event
    /\ staged' \in {imp.status \in Terminal, TRUE}
    /\ UNCHANGED <<imp, job, claim, checkpoint, records, entity, req, run,
                   attempted, broken, orphans, late, kept, holdOver>>

----------------------------------------------------------------------------
(* Requests.                                                               *)

Goto(c, pc) == req' = [req EXCEPT ![c].pc = pc]
EndRequest(c) == req' = [req EXCEPT ![c] = NoRequest]

\* Mutant: the row is updated by id.
MatchesById(status, version) == imp.status \in Status

\* UpdateStatus: the row is as it was read.
Matches(status, version) == imp.status = status /\ imp.version = version

SetStatus(to) == imp' = [imp EXCEPT !.status = to, !.version = @ + 1]

Request(c) == <<req[c].op, req[c].key>>

\* IdempotencyAbandon deletes the claim of the key whoever made it.
Abandon(c) ==
    /\ claim' = [claim EXCEPT ![Request(c)] = IF @ = "inflight" THEN "free" ELSE @]
    /\ EndRequest(c)

Owned(k) == \E c \in Clients : Request(c) = k /\ req[c].pc \notin {"idle", "read"}

\* The handler reads the import.  A request that its status excludes returns
\* at once, except that Execute and Compensate first look at their key.
Begin(c) ==
    /\ req[c].pc = "idle"
    /\ spent.requests < MaxRequests
    /\ spent' = [spent EXCEPT !.requests = @ + 1]
    /\ \E op \in Ops :
        /\ op = "validate" => "validating" \in CanTransition[imp.status] /\ staged
        /\ op = "cancel" => "cancelled" \in CanTransition[imp.status]
        /\ \E k \in IF op \in Keyed THEN Keys ELSE {NoKey} :
            req' = [req EXCEPT ![c] =
                [NoRequest EXCEPT !.pc = "read", !.op = op, !.key = k, !.status = imp.status,
                                  !.version = imp.version, !.linked = imp.linked]]
    /\ UNCHANGED <<imp, staged, job, claim, checkpoint, records, entity, run,
                   attempted, broken, orphans, late, kept, holdOver>>

\* Validate
StartValidation(c) ==
    /\ req[c].pc = "read" /\ req[c].op = "validate"
    /\ IF Matches(req[c].status, req[c].version)
       THEN SetStatus("validating") /\ Goto(c, "planning")
       ELSE EndRequest(c) /\ UNCHANGED imp
    /\ UNCHANGED <<staged, job, claim, checkpoint, records, entity, run, historyVars>>

\* The dry run succeeds or not, and the report is saved; nothing is written
\* when the import was cancelled meanwhile.
FinishValidation(c) ==
    /\ req[c].pc = "planning"
    /\ IF Matches("validating", req[c].version + 1)
       THEN \E to \in {"validated", "validation_failed"} : SetStatus(to)
       ELSE UNCHANGED imp
    /\ EndRequest(c)
    /\ UNCHANGED <<staged, job, claim, checkpoint, records, entity, run, historyVars>>

\* IdempotencyBegin finds no claim of the key, or one in flight for more than
\* ten minutes, which it takes for abandoned.
ClaimKey(c) ==
    LET k == Request(c) IN
    /\ req[c].pc = "read" /\ req[c].op \in Keyed
    /\ \/ claim[k] = "free" /\ UNCHANGED spent
       \/ /\ claim[k] = "inflight"
          /\ IF Owned(k) THEN Event ELSE UNCHANGED spent
    /\ claim' = [claim EXCEPT ![k] = "inflight"]
    /\ Goto(c, "claimed")
    /\ UNCHANGED <<imp, staged, job, checkpoint, records, entity, run,
                   attempted, broken, orphans, late, kept, holdOver>>

\* The key is in flight, or its result is replayed.
KeyTaken(c) ==
    /\ req[c].pc = "read" /\ req[c].op \in Keyed
    /\ claim[Request(c)] # "free"
    /\ EndRequest(c)
    /\ UNCHANGED <<imp, staged, job, claim, checkpoint, records, entity, run, historyVars>>

\* Mutant: the job is submitted without a hold.
SubmitJobNow ==
    job' = IF job.status = "absent" THEN [job EXCEPT !.status = "queued"] ELSE job

\* Submit: the key of the job is the import's, so there is one for ever.
SubmitJob ==
    job' = IF job.status = "absent"
           THEN [job EXCEPT !.status = "queued", !.held = TRUE] ELSE job

\* executeDurable: a linked import is running, and its job is activated again.
StartExecution(c) ==
    /\ req[c].pc = "claimed" /\ req[c].op = "execute"
    /\ CASE ~staged \/ "running" \notin CanTransition[req[c].status] ->
              Abandon(c) /\ UNCHANGED job
         [] staged /\ req[c].linked /\ "running" \in CanTransition[req[c].status] ->
              Goto(c, "activating") /\ UNCHANGED <<job, claim>>
         [] staged /\ ~req[c].linked /\ req[c].status = "validated" ->
              SubmitJob /\ Goto(c, "submitted") /\ UNCHANGED claim
         [] OTHER -> Abandon(c) /\ UNCHANGED job
    /\ UNCHANGED <<imp, staged, checkpoint, records, entity, run, historyVars>>

\* MarkRunningAndLink: somebody else may have linked the same job.
MarkRunningAndLink(c) ==
    /\ req[c].pc = "submitted"
    /\ CASE Matches(req[c].status, req[c].version) ->
              /\ imp' = [status |-> "running", version |-> imp.version + 1, linked |-> TRUE]
              /\ Goto(c, "activating") /\ UNCHANGED claim
         [] imp.status = "running" /\ imp.linked ->
              Goto(c, "activating") /\ UNCHANGED <<imp, claim>>
         [] OTHER -> Abandon(c) /\ UNCHANGED imp
    /\ UNCHANGED <<staged, job, checkpoint, records, entity, run, historyVars>>

\* Activate succeeds whatever has become of the job.
Activate(c) ==
    /\ req[c].pc = "activating"
    /\ job' = [job EXCEPT !.held = FALSE]
    /\ Goto(c, "finishing")
    /\ UNCHANGED <<imp, staged, claim, checkpoint, records, entity, run, historyVars>>

\* IdempotencyComplete
CompleteKey(c) ==
    /\ req[c].pc = "finishing"
    /\ claim' = [claim EXCEPT ![Request(c)] = IF @ = "inflight" THEN "done" ELSE @]
    /\ EndRequest(c)
    /\ UNCHANGED <<imp, staged, job, checkpoint, records, entity, run, historyVars>>

\* Cancel: RequestCancellation of the job, which may fail or be refused, then
\* the import all the same.
AskJob(c) ==
    /\ req[c].pc = "read" /\ req[c].op = "cancel"
    /\ \/ /\ job' = IF req[c].linked /\ job.status \in {"queued", "running"}
                    THEN [job EXCEPT !.asked = TRUE,
                                     !.status = IF @ = "queued" THEN "cancelled" ELSE @]
                    ELSE job
          /\ UNCHANGED spent
       \/ req[c].linked /\ Event /\ UNCHANGED job
    /\ Goto(c, "cancelling")
    /\ UNCHANGED <<imp, staged, claim, checkpoint, records, entity, run,
                   attempted, broken, orphans, late, kept, holdOver>>

CancelImport(c) ==
    /\ req[c].pc = "cancelling"
    /\ IF Matches(req[c].status, req[c].version) THEN SetStatus("cancelled") ELSE UNCHANGED imp
    /\ EndRequest(c)
    /\ UNCHANGED <<staged, job, claim, checkpoint, records, entity, run, historyVars>>
----------------------------------------------------------------------------
(* Compensation.                                                           *)

\* doCompensate
StartCompensation(c) ==
    /\ req[c].pc = "claimed" /\ req[c].op = "compensate"
    /\ IF "compensating" \in CanTransition[req[c].status] /\ Matches(req[c].status, req[c].version)
       THEN SetStatus("compensating") /\ Goto(c, "records") /\ UNCHANGED claim
       ELSE Abandon(c) /\ UNCHANGED imp
    /\ UNCHANGED <<staged, job, checkpoint, records, entity, run, historyVars>>

Outstanding(x) == records[x] \in {"pending", "failed"}

\* GetCompensationRecords; the order in which they are undone is left open.
ReadRecords(c) ==
    /\ req[c].pc = "records"
    /\ req' = [req EXCEPT ![c].pc = "next", ![c].todo = {x \in Resources : Outstanding(x)}]
    /\ UNCHANGED <<imp, staged, job, claim, checkpoint, records, entity, run, historyVars>>

\* ClaimCompensationRecord
ClaimRecord(c) ==
    /\ req[c].pc = "next"
    /\ \E x \in req[c].todo :
        IF Outstanding(x)
        THEN /\ records' = [records EXCEPT ![x] = "compensating"]
             /\ req' = [req EXCEPT ![c].pc = "undoing", ![c].current = x,
                                   ![c].todo = @ \ {x}]
        ELSE req' = [req EXCEPT ![c].todo = @ \ {x}] /\ UNCHANGED records
    /\ UNCHANGED <<imp, staged, job, claim, checkpoint, entity, run, historyVars>>

\* Mutant: the after-image is not compared.
UnchangedAnyway(x) == TRUE

\* safeFieldMismatch finds the entity as the import left it.
AsImported(x) == entity[x] = "made"

\* compensateEntity, or its first half: what the import created is deleted,
\* edited or not; what it updated is compared with the after-image first.
CompensateEntity(c) ==
    LET x == req[c].current IN
    /\ req[c].pc = "undoing"
    /\ CASE Kind[x[1]] # "existing" ->
              \/ entity' = [entity EXCEPT ![x] = "undone"] /\ Goto(c, "undone")
              \/ UNCHANGED entity /\ Goto(c, "refused")
         [] Kind[x[1]] = "existing" /\ AsImported(x) -> UNCHANGED entity /\ Goto(c, "restoring")
         [] OTHER -> UNCHANGED entity /\ Goto(c, "refused")
    /\ UNCHANGED <<imp, staged, job, claim, checkpoint, records, run, historyVars>>

\* The before-image is written back, whatever the entity is now.
Restore(c) ==
    LET x == req[c].current IN
    /\ req[c].pc = "restoring"
    /\ \/ entity' = [entity EXCEPT ![x] = "undone"] /\ Goto(c, "undone")
       \/ UNCHANGED entity /\ Goto(c, "refused")
    /\ UNCHANGED <<imp, staged, job, claim, checkpoint, records, run, historyVars>>

\* Mutant: a refusal is recorded and forgotten.
RecordUndoOnly(c) ==
    /\ req[c].pc \in {"undone", "refused"}
    /\ records' = [records EXCEPT ![req[c].current] =
                     IF req[c].pc = "undone" THEN "compensated" ELSE "failed"]
    /\ req' = [req EXCEPT ![c].pc = "next", ![c].current = NoResource]
    /\ UNCHANGED <<imp, staged, job, claim, checkpoint, entity, run, historyVars>>

\* UpdateCompensationStatus
RecordUndo(c) ==
    /\ req[c].pc \in {"undone", "refused"}
    /\ records' = [records EXCEPT ![req[c].current] =
                     IF req[c].pc = "undone" THEN "compensated" ELSE "failed"]
    /\ req' = [req EXCEPT ![c].pc = "next", ![c].current = NoResource,
                          ![c].clean = @ /\ req[c].pc = "undone"]
    /\ UNCHANGED <<imp, staged, job, claim, checkpoint, entity, run, historyVars>>

\* The result of the compensation; the request then completes its key.
FinishCompensation(c) ==
    /\ req[c].pc = "next" /\ req[c].todo = {}
    /\ IF Matches("compensating", req[c].version + 1)
       THEN /\ SetStatus(IF req[c].clean THEN "compensated" ELSE "compensation_failed")
            /\ Goto(c, "finishing") /\ UNCHANGED claim
       ELSE Abandon(c) /\ UNCHANGED imp
    /\ UNCHANGED <<staged, job, checkpoint, records, entity, run, historyVars>>
----------------------------------------------------------------------------
(* The durable job: HandleImportJob and Executor.Execute.                  *)

RunTo(w, pc) == run' = [run EXCEPT ![w].pc = pc]
Leased(w) == job.holder = w /\ job.attempt = run[w].attempt

\* Mutant: the claim ignores a cancellation request.
ClaimJobAsked(w) ==
    /\ run[w].pc = "idle"
    /\ job.status = "queued" /\ ~job.held
    /\ job' = [job EXCEPT !.status = "running", !.attempt = @ + 1, !.holder = w]
    /\ run' = [run EXCEPT ![w] = [NoRun EXCEPT !.pc = "loading", !.attempt = job.attempt + 1]]
    /\ UNCHANGED <<imp, staged, claim, checkpoint, records, entity, req, historyVars>>

\* ClaimOne
ClaimJob(w) ==
    /\ run[w].pc = "idle"
    /\ job.status = "queued" /\ ~job.held /\ ~job.asked
    /\ job' = [job EXCEPT !.status = "running", !.attempt = @ + 1, !.holder = w]
    /\ run' = [run EXCEPT ![w] = [NoRun EXCEPT !.pc = "loading", !.attempt = job.attempt + 1]]
    /\ UNCHANGED <<imp, staged, claim, checkpoint, records, entity, req, historyVars>>

\* The guards of HandleImportJob, up to its first heartbeat.
Load(w) ==
    /\ run[w].pc = "loading"
    /\ run' = [run EXCEPT
         ![w].pc = IF imp.linked /\ imp.status = "running" /\ staged /\ Leased(w) /\ ~job.asked
                   THEN "resuming" ELSE "fatal",
         ![w].version = imp.version]
    /\ UNCHANGED <<imp, staged, job, claim, checkpoint, records, entity, req, historyVars>>

\* Execute continues after the last checkpoint that was saved.
ResumeFrom(w) ==
    /\ run[w].pc = "resuming"
    /\ run' = [run EXCEPT
         ![w].pc = IF checkpoint < TotalRows THEN "checking" ELSE "finishing",
         ![w].row = IF checkpoint < TotalRows THEN checkpoint + 1 ELSE TotalRows]
    /\ UNCHANGED <<imp, staged, job, claim, checkpoint, records, entity, req, historyVars>>

\* On to the next row, or past the last one.
Advance(w) ==
    run' = [run EXCEPT ![w].pc = IF run[w].row = TotalRows THEN "finishing" ELSE "checking",
                       ![w].row = IF @ = TotalRows THEN @ ELSE @ + 1,
                       ![w].made = NoResource]

\* A batch may be full.
EndRow(w) ==
    IF run[w].row % BatchSize = 0
    THEN run' = [run EXCEPT ![w].pc = "checkpointing", ![w].made = NoResource]
    ELSE Advance(w)

\* Mutant: the executor trusts the checkpoint alone.
NothingRecorded(r) == FALSE

\* CompensationExistsForRow
Recorded(r) == \E x \in Resources : x[1] = r /\ records[x] # "none"

\* A row that has a record is skipped, without a look at the batch.
CheckRow(w) ==
    /\ run[w].pc = "checking"
    /\ IF Recorded(run[w].row) THEN Advance(w) ELSE RunTo(w, "applying")
    /\ UNCHANGED <<imp, staged, job, claim, checkpoint, records, entity, req, historyVars>>

Stands(x) == entity[x] \in {"made", "edited"}

\* The dispatch helpers find something to create or, under the policy
\* update_safe_fields, to change.  Aliases have no unique name; a member cannot
\* be added to a group twice.
Applies(w) ==
    LET r == run[w].row IN
    CASE Kind[r] = "existing" -> entity[Resource(r, 0)] # "made"
      [] Kind[r] \in {"unique", "member"} -> ~\E x \in Resources : x[1] = r /\ Stands(x)
      [] Kind[r] = "free" -> TRUE
      [] Kind[r] = "invalid" -> FALSE

\* executeEntity changes the entity, which SaveCompensationRecord is to record.
ApplyRow(w) ==
    LET x == Resource(run[w].row, run[w].attempt) IN
    /\ run[w].pc = "applying" /\ Applies(w) /\ Kind[run[w].row] # "member"
    /\ entity' = [entity EXCEPT ![x] = "made"]
    /\ attempted' = attempted \cup {run[w].row}
    /\ run' = [run EXCEPT ![w].pc = "recording", ![w].made = x]
    /\ UNCHANGED <<imp, staged, job, claim, checkpoint, records, req,
                   broken, orphans, late, kept, holdOver, spent>>

\* createGroupMembershipOutcome adds the member and returns no resource: the
\* loop saves no record and goes on to the batch.
AddMember(w) ==
    LET x == Resource(run[w].row, run[w].attempt) IN
    /\ run[w].pc = "applying" /\ Applies(w) /\ Kind[run[w].row] = "member"
    /\ entity' = [entity EXCEPT ![x] = "made"]
    /\ attempted' = attempted \cup {run[w].row}
    /\ EndRow(w)
    /\ UNCHANGED <<imp, staged, job, claim, checkpoint, records, req,
                   broken, orphans, late, kept, holdOver, spent>>

\* Nothing to create or to change, or creating it fails and that is passed over.
LeaveRow(w) ==
    /\ run[w].pc = "applying" /\ Kind[run[w].row] \notin {"member", "invalid"}
    /\ IF Applies(w) THEN Event ELSE UNCHANGED spent
    /\ attempted' = attempted \cup {run[w].row}
    /\ EndRow(w)
    /\ UNCHANGED <<imp, staged, job, claim, checkpoint, records, entity, req,
                   broken, orphans, late, kept, holdOver>>

\* The row is invalid, a conflict under the policy fail or a member already, or
\* it is refused: the loop goes on without a look at the batch.
RefuseRow(w) ==
    /\ run[w].pc = "applying"
    /\ IF Applies(w) THEN Event ELSE UNCHANGED spent
    /\ attempted' = attempted \cup {run[w].row}
    /\ Advance(w)
    /\ UNCHANGED <<imp, staged, job, claim, checkpoint, records, entity, req,
                   broken, orphans, late, kept, holdOver>>

\* SaveCompensationRecord
RecordRow(w) ==
    /\ run[w].pc = "recording"
    /\ records' = [records EXCEPT ![run[w].made] = "pending"]
    /\ late' = IF imp.status = "running" THEN late ELSE late \cup {run[w].made}
    /\ EndRow(w)
    /\ UNCHANGED <<imp, staged, job, claim, checkpoint, entity, req,
                   attempted, broken, orphans, kept, holdOver, spent>>

\* Mutant: the checkpoint counts the row that comes next.
SaveCheckpointAhead(w) ==
    /\ run[w].pc = "checkpointing"
    /\ checkpoint' = IF run[w].row = TotalRows THEN TotalRows ELSE run[w].row + 1
    /\ RunTo(w, "beating")
    /\ UNCHANGED <<imp, staged, job, claim, records, entity, req, historyVars>>

\* checkpointBatch saves the checkpoint; the progress it writes is not read.
SaveCheckpoint(w) ==
    /\ run[w].pc = "checkpointing"
    /\ checkpoint' = run[w].row
    /\ RunTo(w, "beating")
    /\ UNCHANGED <<imp, staged, job, claim, records, entity, req, historyVars>>

\* CancellationRequested, Heartbeat and SetProgress.
Beat(w) ==
    /\ run[w].pc = "beating"
    /\ CASE ~Leased(w) -> RunTo(w, "retryable")
         [] Leased(w) /\ job.asked -> RunTo(w, "fatal")
         [] OTHER -> Advance(w)
    /\ UNCHANGED <<imp, staged, job, claim, checkpoint, records, entity, req, historyVars>>

\* The final checkpoint.
FinishRun(w) ==
    /\ run[w].pc = "finishing"
    /\ checkpoint' = TotalRows
    /\ RunTo(w, "completing")
    /\ UNCHANGED <<imp, staged, job, claim, records, entity, req, historyVars>>

\* The import is completed if it is still the one the run has loaded; the
\* lease is not looked at again.
CompleteImport(w) ==
    /\ run[w].pc = "completing"
    /\ IF Matches("running", run[w].version)
       THEN SetStatus("completed") /\ RunTo(w, "ok")
       ELSE RunTo(w, "retryable") /\ UNCHANGED imp
    /\ UNCHANGED <<staged, job, claim, checkpoint, records, entity, req, historyVars>>

Requeued == IF job.attempt < MaxAttempts THEN "queued" ELSE "failed"

\* RunOnce settles the job, under its lease.
Report(w) ==
    /\ run[w].pc \in {"ok", "retryable", "fatal"}
    /\ job' = IF Leased(w)
              THEN [job EXCEPT !.holder = NoWorker,
                     !.status = CASE job.asked -> "cancelled"
                                  [] ~job.asked /\ run[w].pc = "ok" -> "succeeded"
                                  [] ~job.asked /\ run[w].pc = "retryable" -> Requeued
                                  [] OTHER -> "failed"]
              ELSE job
    /\ run' = [run EXCEPT ![w] = NoRun]
    /\ UNCHANGED <<imp, staged, claim, checkpoint, records, entity, req, historyVars>>

\* The list of the created resources is longer than a result may be: Complete
\* refuses it, and the job keeps its lease until it runs out.
RefuseResult(w) ==
    /\ run[w].pc = "ok" /\ ~(Leased(w) /\ job.asked)
    /\ Event
    /\ run' = [run EXCEPT ![w] = NoRun]
    /\ UNCHANGED <<imp, staged, job, claim, checkpoint, records, entity, req,
                   attempted, broken, orphans, late, kept, holdOver>>
----------------------------------------------------------------------------
(* Time, people and failures.                                              *)

\* The run of w stops: a mutation that it has not recorded is never recorded.
Lost(w) ==
    /\ broken' = IF run[w].pc = "recording" THEN broken + 1 ELSE broken
    /\ orphans' = IF run[w].pc = "recording" THEN orphans \cup {run[w].made} ELSE orphans

\* The handler's timeout, a failing statement or a refused heartbeat ends it.
RunFails(w) ==
    /\ run[w].pc \notin {"idle", "ok", "retryable", "fatal"}
    /\ \/ (~Leased(w) \/ job.asked) /\ UNCHANGED spent
       \/ Event
    /\ Lost(w)
    /\ run' = [run EXCEPT ![w].pc = "retryable", ![w].made = NoResource]
    /\ UNCHANGED <<imp, staged, job, claim, checkpoint, records, entity, req,
                   attempted, late, kept, holdOver>>

\* The worker's process dies and starts again, or it cannot report.
CrashRun(w) ==
    /\ run[w].pc # "idle"
    /\ Event
    /\ Lost(w)
    /\ run' = [run EXCEPT ![w] = NoRun]
    /\ UNCHANGED <<imp, staged, job, claim, checkpoint, records, entity, req,
                   attempted, late, kept, holdOver>>

Attended == \E w \in Workers : run[w].pc # "idle" /\ Leased(w)

\* RecoverExpired takes the job from a worker that died.
RecoverJob ==
    /\ job.status = "running" /\ ~Attended
    /\ job' = [job EXCEPT !.status = Requeued, !.holder = NoWorker]
    /\ UNCHANGED <<imp, staged, claim, checkpoint, records, entity, req, run, historyVars>>

\* ... or from one that did not renew its lease in time and works on.
LoseLease ==
    /\ job.status = "running" /\ Attended
    /\ Event
    /\ broken' = broken + 1
    /\ job' = [job EXCEPT !.status = Requeued, !.holder = NoWorker]
    /\ UNCHANGED <<imp, staged, claim, checkpoint, records, entity, req, run,
                   attempted, orphans, late, kept, holdOver>>

\* ManualRetry of the failed job.
RetryJob ==
    /\ job.status = "failed"
    /\ Event
    /\ job' = [job EXCEPT !.status = "queued", !.held = FALSE]
    /\ UNCHANGED <<imp, staged, claim, checkpoint, records, entity, req, run,
                   attempted, broken, orphans, late, kept, holdOver>>

\* Mutant: a job whose import is linked stays held until it is activated.
HoldExpiresUnlinked ==
    /\ job.status = "queued" /\ job.held /\ ~imp.linked
    /\ job' = [job EXCEPT !.held = FALSE]
    /\ holdOver' = TRUE
    /\ UNCHANGED <<imp, staged, claim, checkpoint, records, entity, req, run,
                   attempted, broken, orphans, late, kept, spent>>

\* activationHold is over and nobody has activated the job.
HoldExpires ==
    /\ job.status = "queued" /\ job.held
    /\ job' = [job EXCEPT !.held = FALSE]
    /\ holdOver' = TRUE
    /\ UNCHANGED <<imp, staged, claim, checkpoint, records, entity, req, run,
                   attempted, broken, orphans, late, kept, spent>>

\* A person edits what the import made, once the import is over; a membership
\* has nothing to edit.
Edit(x) ==
    /\ entity[x] = "made" /\ Kind[x[1]] # "member" /\ imp.status # "running"
    /\ Event
    /\ entity' = [entity EXCEPT ![x] = "edited"]
    /\ kept' = IF imp.status = "completed" THEN kept \cup {x} ELSE kept
    /\ UNCHANGED <<imp, staged, job, claim, checkpoint, records, req, run,
                   attempted, broken, orphans, late, holdOver>>

\* A statement of the request fails: it returns, and gives up its key.
RequestFails(c) ==
    /\ req[c].pc \notin {"idle", "read"}
    /\ Event
    /\ IF req[c].key \in Keys THEN Abandon(c) ELSE EndRequest(c) /\ UNCHANGED claim
    /\ UNCHANGED <<imp, staged, job, checkpoint, records, entity, run,
                   attempted, broken, orphans, late, kept, holdOver>>

\* The process that serves it dies.
CrashRequest(c) ==
    /\ req[c].pc # "idle"
    /\ Event
    /\ EndRequest(c)
    /\ UNCHANGED <<imp, staged, job, claim, checkpoint, records, entity, run,
                   attempted, broken, orphans, late, kept, holdOver>>
----------------------------------------------------------------------------
RequestStep(c) ==
    \/ StartValidation(c)
    \/ FinishValidation(c)
    \/ ClaimKey(c)
    \/ KeyTaken(c)
    \/ StartExecution(c)
    \/ MarkRunningAndLink(c)
    \/ Activate(c)
    \/ CompleteKey(c)
    \/ AskJob(c)
    \/ CancelImport(c)
    \/ StartCompensation(c)
    \/ ReadRecords(c)
    \/ ClaimRecord(c)
    \/ CompensateEntity(c)
    \/ Restore(c)
    \/ RecordUndo(c)
    \/ FinishCompensation(c)

WorkerStep(w) ==
    \/ ClaimJob(w)
    \/ Load(w)
    \/ ResumeFrom(w)
    \/ CheckRow(w)
    \/ ApplyRow(w)
    \/ AddMember(w)
    \/ LeaveRow(w)
    \/ RefuseRow(w)
    \/ RecordRow(w)
    \/ SaveCheckpoint(w)
    \/ Beat(w)
    \/ FinishRun(w)
    \/ CompleteImport(w)
    \/ Report(w)
    \/ RefuseResult(w)

Next ==
    \/ \E c \in Clients : Begin(c) \/ RequestStep(c) \/ RequestFails(c) \/ CrashRequest(c)
    \/ \E w \in Workers : WorkerStep(w) \/ RunFails(w) \/ CrashRun(w)
    \/ RecoverJob
    \/ LoseLease
    \/ RetryJob
    \/ HoldExpires
    \/ \E x \in Resources : Edit(x)
    \/ UploadAgain

Spec == Init /\ [][Next]_vars

\* The workers poll for as long as the server runs, expired leases are
\* recovered by every poll, and the hold runs out after a day.
Fairness ==
    /\ \A w \in Workers : WF_vars(WorkerStep(w))
    /\ WF_vars(RecoverJob)
    /\ WF_vars(HoldExpires)

FairSpec == Spec /\ Fairness
----------------------------------------------------------------------------
(* Properties.                                                             *)

Over == {"completed", "compensating", "compensated", "compensation_failed"}

\* However often the job was interrupted, resumed from the checkpoint of
\* another run or run twice at once, an import is only completed when every
\* row of its source has been dealt with.
CompletedMeansAttempted == imp.status \in Over => attempted = Rows

Copies(r) ==
    {x \in Resources : x[1] = r /\ Kind[r] # "existing" /\ entity[x] # "untouched"}

\* A row is only imported a second time when a run lost its lease or stopped
\* between a mutation and its record (see broken).
CopiesAccounted == \A r \in Rows : Cardinality(Copies(r)) <= 1 + broken

\* A worker that has changed the resource and not recorded it yet.
InHand(x) == \E w \in Workers : run[w].pc = "recording" /\ run[w].made = x

\* When the import counts as compensated, what it made or changed is undone,
\* except what a run had no time to record, or recorded after the import was
\* completed by another run, and the members it added to groups: they are never
\* recorded, and all of them stay.
CompensatedClean ==
    imp.status = "compensated" =>
        \A x \in Resources :
            Stands(x) => Kind[x[1]] = "member" \/ x \in orphans \cup late \/ InHand(x)

\* The job reports success only for an import that was completed.
SuccessMeansCompleted == job.status = "succeeded" => imp.status \in Over

\* No worker gets the job before the import is linked to it and runs, unless
\* the hold ran out first.
HoldProtects ==
    job.status \in {"running", "succeeded", "failed"} /\ ~holdOver => imp.linked

\* An entity that existed before the import and that a person edited before
\* the compensation keeps the edit, unless a run that was late changed it again.
EditKept ==
    \A x \in kept :
        Kind[x[1]] = "existing" =>
            entity[x] = "edited" \/ x \in orphans \cup late \/ InHand(x)

Moves == imp'.status # imp.status => imp'.status \in CanTransition[imp.status]

\* The status only moves along importTransitions, although requests and runs
\* write it on the strength of what they read earlier.
ObeysTransitions == [][Moves]_vars

\* The durable job obeys the life cycle that PlatformJobs implements.
Lifecycle == INSTANCE JobLifecycle
    WITH Jobs <- {"import"}, state <- [j \in {"import"} |-> job.status],
         asked <- [j \in {"import"} |-> job.asked]

\* What the importer does to its durable job, and what it lets happen to it, is
\* a behaviour of the job's life cycle.
JobContract == Lifecycle!LifecycleSpec

\* A running import is completed or cancelled, or its job ends: it never hangs
\* on a hold that nobody lifts or on a worker that is gone.
RunEnds ==
    imp.status = "running" ~>
        imp.status # "running" \/ job.status \in {"failed", "cancelled"} \/ job.asked
=============================================================================
