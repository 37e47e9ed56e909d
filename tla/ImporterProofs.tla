-------------------------- MODULE ImporterProofs --------------------------
(***************************************************************************)
(* What TLAPS proves of Importer: for any clients, workers and keys, any   *)
(* source, any size of a batch and any bounds.  Each invariant is a        *)
(* conjunction of named parts and every action is looked at once for each. *)
(***************************************************************************)
EXTENDS Importer, FiniteSetTheorems, TLAPS

ReqTypes == [pc : RequestStates, op : Ops \cup {"none"}, key : Keys \cup {NoKey},
             status : Status, version : Nat, linked : BOOLEAN, todo : SUBSET Resources,
             current : Resources \cup {NoResource}, clean : BOOLEAN]

RunTypes == [pc : RunStates, attempt : 0..MaxRuns, version : Nat,
             row : 0..TotalRows, made : Resources \cup {NoResource}]

ImpTypes == [status : Status, version : Nat, linked : BOOLEAN]

JobTypes == [status : JobStatus, held : BOOLEAN, asked : BOOLEAN, attempt : 0..MaxRuns,
             holder : Workers \cup {NoWorker}]

-----------------------------------------------------------------------------
(* Types.                                                                  *)

InRow == {"checking", "applying", "recording", "checkpointing", "beating"}

\* A run that is at a row is at a row of the source; what it has changed is a
\* resource.
Shape(w) ==
    /\ run[w].pc \in InRow => run[w].row \in Rows
    /\ run[w].pc = "recording" => run[w].made \in Resources

\* Attempts at the job, counted against its limit and the bounded events.
Budget ==
    /\ spent.events <= MaxEvents
    /\ job.attempt <= MaxAttempts + spent.events
    /\ job.status \in {"absent", "queued"} => job.attempt < MaxAttempts + spent.events

TypeInv ==
    /\ TypeOK
    /\ Budget
    /\ \A w \in Workers : Shape(w)

\* A row's resource is one.
LEMMA ResourceInResources ==
    ASSUME NEW r \in Rows, NEW a \in 0..MaxRuns
    PROVE  Resource(r, a) \in Resources
BY RowsAssumption, BoundsAssumption DEF Resource, Resources, MaxRuns, Rows

\* The fields of a request that an action sets are of their types.
LEMMA ReqStep ==
    ASSUME req \in [Clients -> ReqTypes], NEW c \in Clients, NEW r \in ReqTypes,
           req' = [req EXCEPT ![c] = r]
    PROVE  req' \in [Clients -> ReqTypes]
OBVIOUS

LEMMA RunStep ==
    ASSUME run \in [Workers -> RunTypes], NEW w \in Workers, NEW r \in RunTypes,
           run' = [run EXCEPT ![w] = r]
    PROVE  run' \in [Workers -> RunTypes]
OBVIOUS

LEMMA NoRequestType == NoRequest \in ReqTypes
BY DEF NoRequest, ReqTypes, RequestStates, Ops, Status

LEMMA NoRunType == NoRun \in RunTypes
BY RowsAssumption, BoundsAssumption DEF NoRun, RunTypes, RunStates, MaxRuns

LEMMA GotoType ==
    ASSUME req \in [Clients -> ReqTypes], NEW c \in Clients, NEW pc \in RequestStates, Goto(c, pc)
    PROVE  req' \in [Clients -> ReqTypes]
BY DEF Goto, ReqTypes

LEMMA EndType ==
    ASSUME req \in [Clients -> ReqTypes], NEW c \in Clients, EndRequest(c)
    PROVE  req' \in [Clients -> ReqTypes]
BY NoRequestType DEF EndRequest

LEMMA RunToType ==
    ASSUME run \in [Workers -> RunTypes], NEW w \in Workers, NEW pc \in RunStates, RunTo(w, pc)
    PROVE  run' \in [Workers -> RunTypes]
BY DEF RunTo, RunTypes

LEMMA AdvanceType ==
    ASSUME run \in [Workers -> RunTypes], NEW w \in Workers, Advance(w), run[w].row \in Rows
    PROVE  /\ run' \in [Workers -> RunTypes]
           /\ run'[w].pc \in {"checking", "finishing"}
           /\ run'[w].row \in Rows
<1> DEFINE p == IF run[w].row = TotalRows THEN "finishing" ELSE "checking"
           r == IF run[w].row = TotalRows THEN run[w].row ELSE run[w].row + 1
<1>1. p \in {"checking", "finishing"} /\ p \in RunStates
  BY DEF RunStates
<1>2. r \in Rows /\ r \in 0..TotalRows
  BY RowsAssumption DEF Rows
<1>3. run' = [run EXCEPT ![w].pc = p, ![w].row = r, ![w].made = NoResource]
  BY DEF Advance
<1> HIDE DEF p, r
<1> QED
  BY <1>1, <1>2, <1>3 DEF RunTypes

LEMMA EndRowType ==
    ASSUME run \in [Workers -> RunTypes], NEW w \in Workers, EndRow(w), run[w].row \in Rows
    PROVE  /\ run' \in [Workers -> RunTypes]
           /\ run'[w].pc \in {"checking", "finishing", "checkpointing"}
           /\ run'[w].row \in Rows
<1>1. CASE run[w].row % BatchSize = 0
  BY <1>1 DEF EndRow, RunTypes, RunStates
<1>2. CASE run[w].row % BatchSize # 0
  BY <1>2, AdvanceType DEF EndRow
<1> QED BY <1>1, <1>2

LEMMA SetStatusType ==
    ASSUME imp \in ImpTypes, NEW to \in Status, SetStatus(to)
    PROVE  imp' \in ImpTypes /\ imp'.status = to /\ imp'.linked = imp.linked
<1>1. imp' = [imp EXCEPT !.status = to, !.version = imp.version + 1]
  BY DEF SetStatus
<1>2. imp.version + 1 \in Nat
  BY DEF ImpTypes
<1> QED
  BY <1>1, <1>2 DEF ImpTypes

LEMMA SpentType ==
    ASSUME spent \in [requests : Nat, events : Nat], spent.events <= MaxEvents, Event
    PROVE  /\ spent' \in [requests : Nat, events : Nat]
           /\ spent'.events = spent.events + 1 /\ spent'.events <= MaxEvents
BY BoundsAssumption DEF Event

LEMMA AbandonType ==
    ASSUME TypeOK, NEW c \in Clients, Abandon(c)
    PROVE  /\ claim' \in [Requests -> {"free", "inflight", "done"}]
           /\ req' \in [Clients -> ReqTypes]
<1>1. req' \in [Clients -> ReqTypes]
  BY EndType DEF Abandon, TypeOK, ReqTypes
<1>2. claim' \in [Requests -> {"free", "inflight", "done"}]
  BY DEF Abandon, TypeOK
<1> QED
  BY <1>1, <1>2

\* What stays when only the import, a claim, a record, an entity or a request
\* changes.
LEMMA RequestFrame ==
    ASSUME TypeInv, UNCHANGED <<staged, job, checkpoint, run, historyVars>>,
           imp' \in ImpTypes, claim' \in [Requests -> {"free", "inflight", "done"}],
           records' \in [Resources -> {"none", "pending", "compensating", "failed", "compensated"}],
           entity' \in [Resources -> {"untouched", "made", "edited", "undone"}],
           req' \in [Clients -> ReqTypes]
    PROVE  TypeInv'
<1>1. TypeOK'
  BY DEF TypeInv, TypeOK, ImpTypes, ReqTypes, historyVars
<1>2. Budget' /\ \A w \in Workers : Shape(w)'
  BY DEF TypeInv, Budget, Shape, historyVars
<1> QED
  BY <1>1, <1>2 DEF TypeInv

LEMMA RequestTypes ==
    ASSUME TypeInv, NEW c \in Clients, RequestStep(c)
    PROVE  TypeInv'
<1>0. /\ imp \in ImpTypes /\ req \in [Clients -> ReqTypes]
      /\ claim \in [Requests -> {"free", "inflight", "done"}]
      /\ records \in [Resources -> {"none", "pending", "compensating", "failed", "compensated"}]
      /\ entity \in [Resources -> {"untouched", "made", "edited", "undone"}]
  BY DEF TypeInv, TypeOK, ImpTypes, ReqTypes
<1>1. CASE StartValidation(c)
  <2>1. imp' \in ImpTypes /\ req' \in [Clients -> ReqTypes]
    BY <1>0, <1>1, SetStatusType, GotoType, EndType DEF StartValidation, Status, RequestStates
  <2> QED
    BY <1>0, <1>1, <2>1, RequestFrame DEF StartValidation
<1>2. CASE FinishValidation(c)
  <2>1. imp' \in ImpTypes /\ req' \in [Clients -> ReqTypes]
    BY <1>0, <1>2, SetStatusType, EndType DEF FinishValidation, Status
  <2> QED
    BY <1>0, <1>2, <2>1, RequestFrame DEF FinishValidation
<1>3. CASE ClaimKey(c)
  <2>1. req' \in [Clients -> ReqTypes]
    BY <1>0, <1>3, GotoType DEF ClaimKey, RequestStates
  <2>2. claim' \in [Requests -> {"free", "inflight", "done"}]
    BY <1>0, <1>3 DEF ClaimKey
  <2>3. spent' \in [requests : Nat, events : Nat] /\ spent'.events >= spent.events /\ spent'.events <= MaxEvents
    BY <1>3, SpentType DEF ClaimKey, TypeInv, TypeOK, Budget
  <2>4. TypeOK'
    BY <1>3, <2>1, <2>2, <2>3 DEF ClaimKey, TypeInv, TypeOK, ReqTypes
  <2>5. Budget' /\ \A w \in Workers : Shape(w)'
    <3>1. \A w \in Workers : Shape(w)'
      BY <1>3 DEF ClaimKey, TypeInv, Shape
    <3>2. job' = job /\ job.attempt \in Int /\ spent.events \in Int /\ spent'.events \in Int
      BY <1>3, <2>3, RowsAssumption, BoundsAssumption DEF ClaimKey, TypeInv, TypeOK, MaxRuns
    <3> QED
      BY <2>3, <3>1, <3>2, RowsAssumption DEF TypeInv, Budget
  <2> QED
    BY <2>4, <2>5 DEF TypeInv
<1>4. CASE KeyTaken(c)
  BY <1>0, <1>4, EndType, RequestFrame DEF KeyTaken
<1>5. CASE StartExecution(c)
  <2>1. req' \in [Clients -> ReqTypes] /\ claim' \in [Requests -> {"free", "inflight", "done"}]
    BY <1>0, <1>5, AbandonType, GotoType DEF StartExecution, RequestStates, TypeInv
  <2>2. job' \in JobTypes /\ job'.attempt = job.attempt
        /\ (job'.status \in {"absent", "queued"} => job.status \in {"absent", "queued"})
    <3>1. job \in JobTypes
      BY DEF TypeInv, TypeOK, JobTypes
    <3>2. job' = job \/ SubmitJob
      BY <1>5 DEF StartExecution
    <3>3. job' = job \/ (job.status = "absent" /\ job' = [job EXCEPT !.status = "queued", !.held = TRUE])
      BY <3>2 DEF SubmitJob
    <3> QED
      BY <3>1, <3>3 DEF JobTypes, JobStatus
  <2>3. TypeOK'
    BY <1>5, <2>1, <2>2 DEF StartExecution, TypeInv, TypeOK, ReqTypes, JobTypes, historyVars
  <2>4. Budget' /\ \A w \in Workers : Shape(w)'
    BY <1>5, <2>2 DEF StartExecution, TypeInv, Budget, Shape, historyVars
  <2> QED
    BY <2>3, <2>4 DEF TypeInv
<1>6. CASE MarkRunningAndLink(c)
  <2>1. req' \in [Clients -> ReqTypes] /\ claim' \in [Requests -> {"free", "inflight", "done"}]
    BY <1>0, <1>6, AbandonType, GotoType DEF MarkRunningAndLink, RequestStates, TypeInv
  <2>2. imp' \in ImpTypes
    <3>1. imp' = imp \/ imp' = [status |-> "running", version |-> imp.version + 1, linked |-> TRUE]
      BY <1>6 DEF MarkRunningAndLink
    <3>2. "running" \in Status /\ imp.version + 1 \in Nat /\ TRUE \in BOOLEAN
      BY <1>0 DEF ImpTypes, Status
    <3>3. [status |-> "running", version |-> imp.version + 1, linked |-> TRUE] \in ImpTypes
      BY <3>2 DEF ImpTypes
    <3> QED
      BY <1>0, <3>1, <3>3
  <2> QED
    BY <1>0, <1>6, <2>1, <2>2, RequestFrame DEF MarkRunningAndLink
<1>7. CASE Activate(c)
  <2>1. req' \in [Clients -> ReqTypes]
    BY <1>0, <1>7, GotoType DEF Activate, RequestStates
  <2>2. job' \in JobTypes /\ job'.attempt = job.attempt /\ job'.status = job.status
    BY <1>7 DEF Activate, TypeInv, TypeOK, JobTypes
  <2>3. TypeOK'
    BY <1>7, <2>1, <2>2 DEF Activate, TypeInv, TypeOK, ReqTypes, JobTypes, historyVars
  <2>4. Budget' /\ \A w \in Workers : Shape(w)'
    BY <1>7, <2>2 DEF Activate, TypeInv, Budget, Shape, historyVars
  <2> QED
    BY <2>3, <2>4 DEF TypeInv
<1>8. CASE CompleteKey(c)
  <2>1. claim' \in [Requests -> {"free", "inflight", "done"}]
    BY <1>0, <1>8 DEF CompleteKey
  <2> QED
    BY <1>0, <1>8, <2>1, EndType, RequestFrame DEF CompleteKey
<1>9. CASE AskJob(c)
  <2>1. req' \in [Clients -> ReqTypes]
    BY <1>0, <1>9, GotoType DEF AskJob, RequestStates
  <2>2. job' \in JobTypes /\ job'.attempt = job.attempt
        /\ (job'.status \in {"absent", "queued"} => job.status \in {"absent", "queued"})
    <3>1. job \in JobTypes
      BY DEF TypeInv, TypeOK, JobTypes
    <3> DEFINE s == IF job.status = "queued" THEN "cancelled" ELSE job.status
    <3>2. s \in JobStatus /\ s # "queued" /\ (s = "absent" => job.status = "absent")
      BY <3>1 DEF JobTypes, JobStatus
    <3>3. job' = job \/ job' = [job EXCEPT !.asked = TRUE, !.status = s]
      BY <1>9 DEF AskJob
    <3> HIDE DEF s
    <3>4. CASE job' = job
      BY <3>1, <3>4
    <3>5. CASE job' = [job EXCEPT !.asked = TRUE, !.status = s]
      <4>1. job' \in JobTypes
        BY <3>1, <3>2, <3>5 DEF JobTypes
      <4>2. job'.attempt = job.attempt /\ job'.status = s
        BY <3>1, <3>5 DEF JobTypes
      <4> QED
        BY <3>2, <4>1, <4>2
    <3> QED
      BY <3>3, <3>4, <3>5
  <2>3. spent' \in [requests : Nat, events : Nat] /\ spent'.events >= spent.events /\ spent'.events <= MaxEvents
    BY <1>9, SpentType DEF AskJob, TypeInv, TypeOK, Budget
  <2>4. TypeOK'
    BY <1>9, <2>1, <2>2, <2>3 DEF AskJob, TypeInv, TypeOK, ReqTypes, JobTypes
  <2>5. \A w \in Workers : Shape(w)'
    BY <1>9 DEF AskJob, TypeInv, Shape
  <2>6. job.attempt \in Int /\ spent.events \in Int /\ spent'.events \in Int
    BY <2>3, RowsAssumption, BoundsAssumption DEF TypeInv, TypeOK, MaxRuns
  <2>7. Budget'
    BY <2>2, <2>3, <2>6, RowsAssumption DEF TypeInv, Budget
  <2> QED
    BY <2>4, <2>5, <2>7 DEF TypeInv
<1>10. CASE CancelImport(c)
  <2>1. imp' \in ImpTypes
    BY <1>0, <1>10, SetStatusType DEF CancelImport, Status
  <2> QED
    BY <1>0, <1>10, <2>1, EndType, RequestFrame DEF CancelImport
<1>11. CASE StartCompensation(c)
  <2>1. imp' \in ImpTypes
    BY <1>0, <1>11, SetStatusType DEF StartCompensation, Status
  <2>2. req' \in [Clients -> ReqTypes] /\ claim' \in [Requests -> {"free", "inflight", "done"}]
    BY <1>0, <1>11, AbandonType, GotoType DEF StartCompensation, RequestStates, TypeInv
  <2> QED
    BY <1>0, <1>11, <2>1, <2>2, RequestFrame DEF StartCompensation
<1>12. CASE ReadRecords(c)
  <2>1. req' \in [Clients -> ReqTypes]
    <3> DEFINE s == {x \in Resources : Outstanding(x)}
    <3>1. s \in SUBSET Resources /\ "next" \in RequestStates
      BY DEF RequestStates
    <3>2. req' = [req EXCEPT ![c].pc = "next", ![c].todo = s]
      BY <1>12 DEF ReadRecords
    <3> HIDE DEF s
    <3>3. [req[c] EXCEPT !.pc = "next", !.todo = s] \in ReqTypes
      <4>1. req[c] \in ReqTypes
        BY <1>0
      <4> QED
        BY <3>1, <4>1 DEF ReqTypes
    <3>4. req' = [req EXCEPT ![c] = [req[c] EXCEPT !.pc = "next", !.todo = s]]
      BY <3>2
    <3> QED
      BY <1>0, <3>3, <3>4, ReqStep
  <2> QED
    BY <1>0, <1>12, <2>1, RequestFrame DEF ReadRecords
<1>13. CASE ClaimRecord(c)
  <2>1. PICK x \in req[c].todo :
          IF Outstanding(x)
          THEN /\ records' = [records EXCEPT ![x] = "compensating"]
               /\ req' = [req EXCEPT ![c].pc = "undoing", ![c].current = x,
                                     ![c].todo = req[c].todo \ {x}]
          ELSE req' = [req EXCEPT ![c].todo = req[c].todo \ {x}] /\ UNCHANGED records
    BY <1>13 DEF ClaimRecord
  <2>2. x \in Resources /\ req[c].todo \ {x} \in SUBSET Resources /\ "undoing" \in RequestStates
    BY <1>0, <2>1 DEF ReqTypes, RequestStates
  <2>3. req' \in [Clients -> ReqTypes]
    BY <1>0, <2>1, <2>2 DEF ReqTypes
  <2>4. records' \in [Resources -> {"none", "pending", "compensating", "failed", "compensated"}]
    BY <1>0, <2>1, <2>2
  <2> QED
    BY <1>0, <1>13, <2>3, <2>4, RequestFrame DEF ClaimRecord
<1>14. CASE CompensateEntity(c) \/ Restore(c)
  <2>1. req' \in [Clients -> ReqTypes]
    BY <1>0, <1>14, GotoType DEF CompensateEntity, Restore, RequestStates
  <2>2. entity' \in [Resources -> {"untouched", "made", "edited", "undone"}]
    BY <1>0, <1>14 DEF CompensateEntity, Restore
  <2> QED
    BY <1>0, <1>14, <2>1, <2>2, RequestFrame DEF CompensateEntity, Restore
<1>15. CASE RecordUndo(c)
  <2>1. records' \in [Resources -> {"none", "pending", "compensating", "failed", "compensated"}]
    BY <1>0, <1>15 DEF RecordUndo
  <2>2. req' \in [Clients -> ReqTypes]
    <3> DEFINE b == req[c].clean /\ req[c].pc = "undone"
    <3>1. b \in BOOLEAN /\ "next" \in RequestStates
      BY DEF RequestStates
    <3>2. req' = [req EXCEPT ![c].pc = "next", ![c].current = NoResource, ![c].clean = b]
      BY <1>15 DEF RecordUndo
    <3> HIDE DEF b
    <3>3. [req[c] EXCEPT !.pc = "next", !.current = NoResource, !.clean = b] \in ReqTypes
      <4>1. req[c] \in ReqTypes
        BY <1>0
      <4> QED
        BY <3>1, <4>1 DEF ReqTypes
    <3>4. req' = [req EXCEPT ![c] = [req[c] EXCEPT !.pc = "next", !.current = NoResource, !.clean = b]]
      BY <3>2
    <3> QED
      BY <1>0, <3>3, <3>4, ReqStep
  <2> QED
    BY <1>0, <1>15, <2>1, <2>2, RequestFrame DEF RecordUndo
<1>16. CASE FinishCompensation(c)
  <2>1. imp' \in ImpTypes
    BY <1>0, <1>16, SetStatusType DEF FinishCompensation, Status
  <2>2. req' \in [Clients -> ReqTypes] /\ claim' \in [Requests -> {"free", "inflight", "done"}]
    BY <1>0, <1>16, AbandonType, GotoType DEF FinishCompensation, RequestStates, TypeInv
  <2> QED
    BY <1>0, <1>16, <2>1, <2>2, RequestFrame DEF FinishCompensation
<1> QED
  BY <1>1, <1>2, <1>3, <1>4, <1>5, <1>6, <1>7, <1>8, <1>9, <1>10, <1>11, <1>12, <1>13, <1>14,
     <1>15, <1>16 DEF RequestStep

\* What stays when a run takes a step.
LEMMA WorkerFrame ==
    ASSUME TypeInv, NEW w \in Workers, UNCHANGED <<staged, job, claim, req, kept, holdOver>>,
           imp' \in ImpTypes, checkpoint' \in 0..TotalRows,
           records' \in [Resources -> {"none", "pending", "compensating", "failed", "compensated"}],
           entity' \in [Resources -> {"untouched", "made", "edited", "undone"}],
           run' \in [Workers -> RunTypes], Shape(w)', \A v \in Workers : v # w => run'[v] = run[v],
           attempted' \subseteq Rows, broken' \in Nat,
           orphans' \subseteq Resources, late' \subseteq Resources,
           spent' = spent \/ Event
    PROVE  TypeInv'
<1>1. /\ spent' \in [requests : Nat, events : Nat]
      /\ spent'.events >= spent.events /\ spent'.events <= MaxEvents
  BY SpentType DEF TypeInv, TypeOK, Budget
<1>2. TypeOK'
  BY <1>1 DEF TypeInv, TypeOK, ImpTypes, RunTypes
<1>3. \A v \in Workers : Shape(v)'
  BY DEF TypeInv, Shape
<1>4. job.attempt \in Int /\ spent.events \in Int /\ spent'.events \in Int
  BY <1>1, RowsAssumption, BoundsAssumption DEF TypeInv, TypeOK, MaxRuns
<1>5. Budget'
  BY <1>1, <1>4, RowsAssumption DEF TypeInv, Budget
<1> QED
  BY <1>2, <1>3, <1>5 DEF TypeInv

LEMMA AdvanceShape ==
    ASSUME run \in [Workers -> RunTypes], NEW w \in Workers, run[w].row \in Rows,
           Advance(w) \/ EndRow(w)
    PROVE  /\ run' \in [Workers -> RunTypes] /\ Shape(w)'
           /\ \A v \in Workers : v # w => run'[v] = run[v]
<1>1. run' \in [Workers -> RunTypes] /\ Shape(w)'
  BY AdvanceType, EndRowType DEF Shape
<1>2. \A v \in Workers : v # w => run'[v] = run[v]
  BY DEF Advance, EndRow
<1> QED
  BY <1>1, <1>2

LEMMA RunToShape ==
    ASSUME run \in [Workers -> RunTypes], NEW w \in Workers, NEW pc \in RunStates, RunTo(w, pc),
           pc \in InRow => run[w].row \in Rows, pc # "recording"
    PROVE  /\ run' \in [Workers -> RunTypes] /\ Shape(w)'
           /\ \A v \in Workers : v # w => run'[v] = run[v]
<1>1. run' \in [Workers -> RunTypes] /\ run'[w].pc = pc /\ run'[w].row = run[w].row
  BY DEF RunTo, RunTypes
<1>2. \A v \in Workers : v # w => run'[v] = run[v]
  BY DEF RunTo
<1> QED
  BY <1>1, <1>2 DEF Shape

LEMMA WorkerTypes ==
    ASSUME TypeInv, NEW w \in Workers, WorkerStep(w) \/ RunFails(w) \/ CrashRun(w)
    PROVE  TypeInv'
<1>0. /\ imp \in ImpTypes /\ run \in [Workers -> RunTypes] /\ job \in JobTypes
      /\ records \in [Resources -> {"none", "pending", "compensating", "failed", "compensated"}]
      /\ entity \in [Resources -> {"untouched", "made", "edited", "undone"}]
      /\ checkpoint \in 0..TotalRows /\ attempted \subseteq Rows /\ broken \in Nat
      /\ orphans \subseteq Resources /\ late \subseteq Resources
      /\ Shape(w)
  BY DEF TypeInv, TypeOK, ImpTypes, RunTypes, JobTypes
<1>00. run[w].pc \in InRow => run[w].row \in Rows
  BY <1>0 DEF Shape
<1>1. CASE ClaimJob(w)
  <2>1. /\ job.attempt + 1 \in 0..MaxRuns /\ job.attempt + 1 <= MaxAttempts + spent.events
        /\ "loading" \in RunStates /\ "running" \in JobStatus
    <3>1. /\ spent.events \in Nat /\ spent.events <= MaxEvents
          /\ job.attempt < MaxAttempts + spent.events
      BY <1>1 DEF ClaimJob, TypeInv, Budget, TypeOK
    <3>2. job.attempt \in 0..MaxRuns
      BY <1>0 DEF JobTypes
    <3>3. job.attempt \in Nat /\ MaxAttempts \in Nat /\ MaxEvents \in Nat
      BY <3>2, RowsAssumption, BoundsAssumption DEF MaxRuns
    <3>4. job.attempt + 1 \in 0..MaxRuns /\ job.attempt + 1 <= MaxAttempts + spent.events
      BY <3>1, <3>3 DEF MaxRuns
    <3> QED
      BY <3>4 DEF RunStates, JobStatus
  <2> DEFINE r == [NoRun EXCEPT !.pc = "loading", !.attempt = job.attempt + 1]
             b == [job EXCEPT !.status = "running", !.attempt = job.attempt + 1, !.holder = w]
  <2>2. r \in RunTypes /\ r.pc = "loading"
    BY <2>1, NoRunType DEF RunTypes
  <2>3. b \in JobTypes /\ b.attempt = job.attempt + 1 /\ b.status = "running"
    BY <1>0, <2>1 DEF JobTypes
  <2>4. run' = [run EXCEPT ![w] = r] /\ job' = b
    BY <1>1 DEF ClaimJob
  <2> HIDE DEF r, b
  <2>5. run' \in [Workers -> RunTypes] /\ job' \in JobTypes
    BY <1>0, <2>2, <2>3, <2>4
  <2>6. TypeOK'
    BY <1>1, <2>5 DEF ClaimJob, TypeInv, TypeOK, RunTypes, JobTypes, historyVars
  <2>7. Budget'
    BY <1>1, <2>1, <2>3, <2>4 DEF ClaimJob, TypeInv, Budget, historyVars
  <2>8. \A v \in Workers : Shape(v)'
    BY <1>0, <2>2, <2>4 DEF TypeInv, Shape, InRow
  <2> QED
    BY <2>6, <2>7, <2>8 DEF TypeInv
<1>2. CASE Load(w)
  <2> DEFINE p == IF imp.linked /\ imp.status = "running" /\ staged /\ Leased(w) /\ ~job.asked
                  THEN "resuming" ELSE "fatal"
             r == [run[w] EXCEPT !.pc = p, !.version = imp.version]
  <2>1. p \in RunStates /\ p \notin InRow
    BY DEF RunStates, InRow
  <2>2. imp.version \in Nat /\ run[w] \in RunTypes
    BY <1>0 DEF ImpTypes
  <2>3. run' = [run EXCEPT ![w] = r]
    BY <1>2 DEF Load
  <2> HIDE DEF p
  <2>4. r \in RunTypes /\ r.pc = p
    BY <2>1, <2>2 DEF RunTypes
  <2> HIDE DEF r
  <2>5. run' \in [Workers -> RunTypes] /\ Shape(w)' /\ \A v \in Workers : v # w => run'[v] = run[v]
    BY <1>0, <2>1, <2>3, <2>4 DEF Shape, InRow
  <2> QED
    BY <1>0, <1>2, <2>5, WorkerFrame DEF Load, historyVars
<1>3. CASE ResumeFrom(w)
  <2> DEFINE p == IF checkpoint < TotalRows THEN "checking" ELSE "finishing"
             n == IF checkpoint < TotalRows THEN checkpoint + 1 ELSE TotalRows
             r == [run[w] EXCEPT !.pc = p, !.row = n]
  <2>1. p \in RunStates /\ p # "recording"
    BY DEF RunStates
  <2>2. n \in 0..TotalRows /\ n \in Rows /\ run[w] \in RunTypes
    BY <1>0, RowsAssumption DEF Rows
  <2>3. run' = [run EXCEPT ![w] = r]
    BY <1>3 DEF ResumeFrom
  <2> HIDE DEF p, n
  <2>4. r \in RunTypes /\ r.pc = p /\ r.row = n
    BY <2>1, <2>2 DEF RunTypes
  <2> HIDE DEF r
  <2>5. run' \in [Workers -> RunTypes] /\ Shape(w)' /\ \A v \in Workers : v # w => run'[v] = run[v]
    BY <1>0, <2>1, <2>2, <2>3, <2>4 DEF Shape
  <2> QED
    BY <1>0, <1>3, <2>5, WorkerFrame DEF ResumeFrom, historyVars
<1>4. CASE CheckRow(w)
  <2>1. run' \in [Workers -> RunTypes] /\ Shape(w)' /\ \A v \in Workers : v # w => run'[v] = run[v]
    BY <1>0, <1>00, <1>4, AdvanceShape, RunToShape DEF CheckRow, RunStates, InRow
  <2> QED
    BY <1>0, <1>4, <2>1, WorkerFrame DEF CheckRow, historyVars
<1>5. CASE ApplyRow(w)
  <2>1. run[w].row \in Rows /\ run[w].attempt \in 0..MaxRuns /\ run[w] \in RunTypes
    BY <1>0, <1>00, <1>5 DEF ApplyRow, InRow, RunTypes
  <2> DEFINE x == Resource(run[w].row, run[w].attempt)
             r == [run[w] EXCEPT !.pc = "recording", !.made = x]
  <2>2. x \in Resources /\ "recording" \in RunStates
    BY <2>1, ResourceInResources DEF RunStates
  <2>3. /\ run' = [run EXCEPT ![w] = r] /\ entity' = [entity EXCEPT ![x] = "made"]
        /\ attempted' = attempted \cup {run[w].row}
    BY <1>5 DEF ApplyRow
  <2> HIDE DEF x
  <2>4. r \in RunTypes /\ r.made = x /\ r.row = run[w].row
    BY <2>1, <2>2 DEF RunTypes
  <2> HIDE DEF r
  <2>5. run' \in [Workers -> RunTypes] /\ Shape(w)' /\ \A v \in Workers : v # w => run'[v] = run[v]
    BY <1>0, <2>1, <2>2, <2>3, <2>4 DEF Shape
  <2>6. entity' \in [Resources -> {"untouched", "made", "edited", "undone"}] /\ attempted' \subseteq Rows
    BY <1>0, <2>1, <2>3
  <2> QED
    BY <1>0, <1>5, <2>5, <2>6, WorkerFrame DEF ApplyRow
<1>6. CASE LeaveRow(w) \/ RefuseRow(w)
  <2>1. run[w].row \in Rows
    BY <1>00, <1>6 DEF LeaveRow, RefuseRow, InRow
  <2>2. run' \in [Workers -> RunTypes] /\ Shape(w)' /\ \A v \in Workers : v # w => run'[v] = run[v]
    BY <1>0, <1>6, <2>1, AdvanceShape DEF LeaveRow, RefuseRow
  <2>3. attempted' \subseteq Rows /\ (spent' = spent \/ Event)
    BY <1>0, <1>6, <2>1 DEF LeaveRow, RefuseRow
  <2> QED
    BY <1>0, <1>6, <2>2, <2>3, WorkerFrame DEF LeaveRow, RefuseRow
<1>7. CASE RecordRow(w)
  <2>1. run[w].row \in Rows /\ run[w].made \in Resources
    BY <1>0, <1>7 DEF RecordRow, Shape, InRow
  <2>2. run' \in [Workers -> RunTypes] /\ Shape(w)' /\ \A v \in Workers : v # w => run'[v] = run[v]
    BY <1>0, <1>7, <2>1, AdvanceShape DEF RecordRow
  <2>3. late' \subseteq Resources
        /\ records' \in [Resources -> {"none", "pending", "compensating", "failed", "compensated"}]
    BY <1>0, <1>7, <2>1 DEF RecordRow
  <2> QED
    BY <1>0, <1>7, <2>2, <2>3, WorkerFrame DEF RecordRow
<1>8. CASE SaveCheckpoint(w) \/ FinishRun(w)
  <2>1. run' \in [Workers -> RunTypes] /\ Shape(w)' /\ \A v \in Workers : v # w => run'[v] = run[v]
    BY <1>0, <1>00, <1>8, RunToShape DEF SaveCheckpoint, FinishRun, RunStates, InRow
  <2>2. checkpoint' \in 0..TotalRows
    BY <1>0, <1>8, RowsAssumption DEF SaveCheckpoint, FinishRun, RunTypes
  <2> QED
    BY <1>0, <1>8, <2>1, <2>2, WorkerFrame DEF SaveCheckpoint, FinishRun, historyVars
<1>9. CASE Beat(w)
  <2>1. run[w].row \in Rows
    BY <1>00, <1>9 DEF Beat, InRow
  <2>2. run' \in [Workers -> RunTypes] /\ Shape(w)' /\ \A v \in Workers : v # w => run'[v] = run[v]
    BY <1>0, <1>9, <2>1, AdvanceShape, RunToShape DEF Beat, RunStates, InRow
  <2> QED
    BY <1>0, <1>9, <2>2, WorkerFrame DEF Beat, historyVars
<1>10. CASE CompleteImport(w)
  <2>1. run' \in [Workers -> RunTypes] /\ Shape(w)' /\ \A v \in Workers : v # w => run'[v] = run[v]
    BY <1>0, <1>10, RunToShape DEF CompleteImport, RunStates, InRow
  <2>2. imp' \in ImpTypes
    BY <1>0, <1>10, SetStatusType DEF CompleteImport, Status
  <2> QED
    BY <1>0, <1>10, <2>1, <2>2, WorkerFrame DEF CompleteImport, historyVars
<1>11. CASE Report(w)
  <2>1. run' = [run EXCEPT ![w] = NoRun]
    BY <1>11 DEF Report
  <2>2. run' \in [Workers -> RunTypes] /\ \A v \in Workers : Shape(v)'
    BY <1>0, <2>1, NoRunType DEF TypeInv, Shape, NoRun, InRow
  <2> DEFINE s == CASE job.asked -> "cancelled"
                    [] ~job.asked /\ run[w].pc = "ok" -> "succeeded"
                    [] ~job.asked /\ run[w].pc = "retryable" -> Requeued
                    [] OTHER -> "failed"
  <2>3. s \in JobStatus /\ (s = "queued" => job.attempt < MaxAttempts) /\ s # "absent"
    BY DEF Requeued, JobStatus
  <2>4. job' = job \/ job' = [job EXCEPT !.holder = NoWorker, !.status = s]
    BY <1>11 DEF Report
  <2> HIDE DEF s
  <2>5. job' \in JobTypes /\ job'.attempt = job.attempt /\ (job' = job \/ job'.status = s)
    <3>1. CASE job' = job
      BY <1>0, <3>1
    <3>2. CASE job' = [job EXCEPT !.holder = NoWorker, !.status = s]
      <4>1. job' \in JobTypes
        BY <1>0, <2>3, <3>2 DEF JobTypes
      <4>2. job'.attempt = job.attempt /\ job'.status = s
        BY <1>0, <3>2 DEF JobTypes
      <4> QED
        BY <4>1, <4>2
    <3> QED
      BY <2>4, <3>1, <3>2
  <2>6. TypeOK'
    BY <1>11, <2>2, <2>5 DEF Report, TypeInv, TypeOK, RunTypes, JobTypes, historyVars
  <2>7. Budget'
    <3>1. spent' = spent /\ spent.events \in Nat /\ job.attempt \in Int
      BY <1>11, RowsAssumption, BoundsAssumption DEF Report, historyVars, TypeInv, TypeOK, MaxRuns
    <3> QED
      BY <2>3, <2>5, <3>1, RowsAssumption DEF TypeInv, Budget
  <2> QED
    BY <2>2, <2>6, <2>7 DEF TypeInv
<1>12. CASE RunFails(w) \/ CrashRun(w)
  <2>1. broken' \in Nat /\ orphans' \subseteq Resources
    BY <1>0, <1>12 DEF RunFails, CrashRun, Lost, Shape
  <2>2. run' \in [Workers -> RunTypes] /\ Shape(w)' /\ \A v \in Workers : v # w => run'[v] = run[v]
    <3>1. CASE RunFails(w)
      <4>1. run' = [run EXCEPT ![w] = [run[w] EXCEPT !.pc = "retryable", !.made = NoResource]]
        BY <3>1 DEF RunFails
      <4>2. [run[w] EXCEPT !.pc = "retryable", !.made = NoResource] \in RunTypes
        BY <1>0 DEF RunTypes, RunStates
      <4>3. run'[w].pc = "retryable"
        BY <1>0, <4>1 DEF RunTypes
      <4> QED
        BY <1>0, <4>1, <4>2, <4>3, RunStep DEF Shape, InRow
    <3>2. CASE CrashRun(w)
      <4>1. run' = [run EXCEPT ![w] = NoRun]
        BY <3>2 DEF CrashRun
      <4> QED
        BY <1>0, <4>1, NoRunType DEF Shape, NoRun, InRow
    <3> QED
      BY <1>12, <3>1, <3>2
  <2> QED
    BY <1>0, <1>12, <2>1, <2>2, WorkerFrame DEF RunFails, CrashRun
<1>13. CASE AddMember(w)
  <2>1. run[w].row \in Rows /\ run[w].attempt \in 0..MaxRuns
    BY <1>0, <1>00, <1>13 DEF AddMember, InRow, RunTypes
  <2> DEFINE x == Resource(run[w].row, run[w].attempt)
  <2>2. x \in Resources
    BY <2>1, ResourceInResources
  <2>3. /\ EndRow(w) /\ entity' = [entity EXCEPT ![x] = "made"]
        /\ attempted' = attempted \cup {run[w].row}
    BY <1>13 DEF AddMember
  <2> HIDE DEF x
  <2>4. run' \in [Workers -> RunTypes] /\ Shape(w)' /\ \A v \in Workers : v # w => run'[v] = run[v]
    BY <1>0, <2>1, <2>3, AdvanceShape
  <2>5. entity' \in [Resources -> {"untouched", "made", "edited", "undone"}] /\ attempted' \subseteq Rows
    BY <1>0, <2>1, <2>3
  <2> QED
    BY <1>0, <1>13, <2>4, <2>5, WorkerFrame DEF AddMember
<1>14. CASE RefuseResult(w)
  <2>1. run' \in [Workers -> RunTypes] /\ Shape(w)' /\ \A v \in Workers : v # w => run'[v] = run[v]
    BY <1>0, <1>14, NoRunType DEF RefuseResult, Shape, NoRun, InRow
  <2> QED
    BY <1>0, <1>14, <2>1, WorkerFrame DEF RefuseResult
<1> QED
  BY <1>1, <1>2, <1>3, <1>4, <1>5, <1>6, <1>7, <1>8, <1>9, <1>10, <1>11, <1>12, <1>13, <1>14
     DEF WorkerStep

\* The job's recovery, time, people and the second upload.
LEMMA OtherTypes ==
    ASSUME TypeInv, RecoverJob \/ LoseLease \/ RetryJob \/ HoldExpires \/ UploadAgain
                    \/ \E x \in Resources : Edit(x)
    PROVE  TypeInv'
<1>0. /\ job \in JobTypes /\ spent \in [requests : Nat, events : Nat] /\ spent.events \in Nat
      /\ job.attempt \in Int /\ MaxAttempts \in Nat /\ broken \in Nat
  BY RowsAssumption, BoundsAssumption DEF TypeInv, TypeOK, JobTypes, MaxRuns
<1>1. \A w \in Workers : Shape(w)'
  BY DEF TypeInv, Shape, RecoverJob, LoseLease, RetryJob, HoldExpires, UploadAgain, Edit
<1>2. CASE RecoverJob \/ LoseLease
  <2>1. Requeued \in JobStatus /\ Requeued # "absent" /\ (Requeued = "queued" => job.attempt < MaxAttempts)
    BY DEF Requeued, JobStatus
  <2>2. job' = [job EXCEPT !.status = Requeued, !.holder = NoWorker]
    BY <1>2 DEF RecoverJob, LoseLease
  <2> HIDE DEF Requeued
  <2>3. job' \in JobTypes
    BY <1>0, <2>1, <2>2 DEF JobTypes
  <2>4. job'.attempt = job.attempt /\ job'.status = Requeued
    BY <1>0, <2>2 DEF JobTypes
  <2>5. /\ spent' \in [requests : Nat, events : Nat] /\ spent'.events >= spent.events
        /\ spent'.events <= MaxEvents /\ broken' \in Nat
    BY <1>0, <1>2, SpentType DEF RecoverJob, LoseLease, historyVars, TypeInv, Budget
  <2>6. TypeOK'
    BY <1>2, <2>3, <2>5 DEF RecoverJob, LoseLease, TypeInv, TypeOK, JobTypes, historyVars
  <2>7. spent'.events \in Nat
    BY <2>5
  <2>8. Budget'
    BY <1>0, <2>1, <2>4, <2>5, <2>7 DEF TypeInv, Budget
  <2> QED
    BY <1>1, <2>6, <2>8 DEF TypeInv
<1>3. CASE RetryJob
  <2>1. job' \in JobTypes /\ job'.attempt = job.attempt
    BY <1>0, <1>3 DEF RetryJob, JobTypes, JobStatus
  <2>2. /\ spent' \in [requests : Nat, events : Nat] /\ spent'.events = spent.events + 1
        /\ spent'.events <= MaxEvents
    BY <1>0, <1>3, SpentType DEF RetryJob, TypeInv, Budget
  <2>3. TypeOK'
    BY <1>3, <2>1, <2>2 DEF RetryJob, TypeInv, TypeOK, JobTypes
  <2>4. Budget'
    BY <1>0, <2>1, <2>2 DEF TypeInv, Budget
  <2> QED
    BY <1>1, <2>3, <2>4 DEF TypeInv
<1>4. CASE HoldExpires
  <2>1. job' \in JobTypes /\ job'.attempt = job.attempt /\ job'.status = job.status
    BY <1>0, <1>4 DEF HoldExpires, JobTypes
  <2>2. TypeOK'
    BY <1>4, <2>1 DEF HoldExpires, TypeInv, TypeOK, JobTypes
  <2>3. Budget'
    BY <1>4, <2>1 DEF HoldExpires, TypeInv, Budget
  <2> QED
    BY <1>1, <2>2, <2>3 DEF TypeInv
<1>5. CASE UploadAgain \/ \E x \in Resources : Edit(x)
  <2>1. /\ spent' \in [requests : Nat, events : Nat] /\ spent'.events = spent.events + 1
        /\ spent'.events <= MaxEvents /\ job' = job
    BY <1>0, <1>5, SpentType DEF UploadAgain, Edit, TypeInv, Budget
  <2>2. Budget'
    BY <1>0, <2>1 DEF TypeInv, Budget
  <2>3. CASE UploadAgain
    <3>1. staged' \in BOOLEAN
      <4>1. (imp.status \in Terminal) \in BOOLEAN
        OBVIOUS
      <4> QED
        BY <2>3, <4>1 DEF UploadAgain
    <3>2. TypeOK'
      BY <2>1, <2>3, <3>1 DEF UploadAgain, TypeInv, TypeOK
    <3> QED
      BY <1>1, <2>2, <3>2 DEF TypeInv
  <2>4. ASSUME NEW x \in Resources, Edit(x)
        PROVE  TypeInv'
    <3>1. entity' \in [Resources -> {"untouched", "made", "edited", "undone"}] /\ kept' \subseteq Resources
      BY <2>4 DEF Edit, TypeInv, TypeOK
    <3> QED
      BY <1>1, <2>1, <2>2, <2>4, <3>1 DEF Edit, TypeInv, TypeOK
  <2> QED
    BY <1>5, <2>3, <2>4
<1> QED
  BY <1>2, <1>3, <1>4, <1>5

\* The beginning of a request, and its failures.
LEMMA RequestEndsTypes ==
    ASSUME TypeInv, NEW c \in Clients, Begin(c) \/ RequestFails(c) \/ CrashRequest(c)
    PROVE  TypeInv'
<1>0. /\ req \in [Clients -> ReqTypes] /\ imp \in ImpTypes
      /\ claim \in [Requests -> {"free", "inflight", "done"}]
      /\ spent \in [requests : Nat, events : Nat] /\ spent.events <= MaxEvents
      /\ spent.events \in Nat /\ job.attempt \in Int /\ MaxAttempts \in Nat
  BY RowsAssumption, BoundsAssumption DEF TypeInv, TypeOK, ReqTypes, ImpTypes, Budget, MaxRuns
<1>1. \A w \in Workers : Shape(w)'
  BY DEF TypeInv, Shape, Begin, RequestFails, CrashRequest
<1>2. req' \in [Clients -> ReqTypes] /\ claim' \in [Requests -> {"free", "inflight", "done"}]
  <2>1. CASE Begin(c)
    <3>1. PICK op \in Ops, k \in Keys \cup {NoKey} :
            req' = [req EXCEPT ![c] =
                [NoRequest EXCEPT !.pc = "read", !.op = op, !.key = k, !.status = imp.status,
                                  !.version = imp.version, !.linked = imp.linked]]
      BY <2>1 DEF Begin
    <3>2. [NoRequest EXCEPT !.pc = "read", !.op = op, !.key = k, !.status = imp.status,
                            !.version = imp.version, !.linked = imp.linked] \in ReqTypes
      <4>1. "read" \in RequestStates /\ op \in Ops \cup {"none"} /\ imp.status \in Status
            /\ imp.version \in Nat /\ imp.linked \in BOOLEAN
        BY <1>0 DEF RequestStates, ImpTypes
      <4> QED
        BY <4>1, NoRequestType DEF ReqTypes
    <3> QED
      BY <1>0, <2>1, <3>1, <3>2, ReqStep DEF Begin
  <2>2. CASE RequestFails(c) \/ CrashRequest(c)
    BY <1>0, <2>2, AbandonType, EndType DEF RequestFails, CrashRequest, TypeInv
  <2> QED
    BY <2>1, <2>2
<1>3. /\ spent' \in [requests : Nat, events : Nat] /\ spent'.events >= spent.events
      /\ spent'.events <= MaxEvents /\ job' = job
  <2>1. CASE Begin(c)
    <3>1. spent' = [spent EXCEPT !.requests = spent.requests + 1] /\ job' = job
      BY <2>1 DEF Begin
    <3>2. spent.requests + 1 \in Nat
      BY <1>0
    <3>3. spent'.events = spent.events
      BY <1>0, <3>1
    <3>4. spent' \in [requests : Nat, events : Nat]
      BY <1>0, <3>1, <3>2
    <3> QED
      BY <1>0, <3>1, <3>3, <3>4
  <2>2. CASE RequestFails(c) \/ CrashRequest(c)
    BY <1>0, <2>2, SpentType DEF RequestFails, CrashRequest
  <2> QED
    BY <2>1, <2>2
<1>4. TypeOK'
  BY <1>2, <1>3, ZenonT(60) DEF Begin, RequestFails, CrashRequest, TypeInv, TypeOK, ReqTypes
<1>5. spent'.events \in Nat
  BY <1>3
<1>6. Budget'
  BY <1>0, <1>3, <1>5 DEF TypeInv, Budget
<1> QED
  BY <1>1, <1>4, <1>6 DEF TypeInv

LEMMA TypeInit == Init => TypeInv
<1> SUFFICES ASSUME Init
             PROVE  TypeInv
  OBVIOUS
<1>1. TypeOK
  <2>1. /\ req \in [Clients -> ReqTypes] /\ run \in [Workers -> RunTypes]
        /\ imp \in ImpTypes /\ job \in JobTypes
    <3>1. 0 \in 0..MaxRuns /\ "uploaded" \in Status /\ "absent" \in JobStatus
      BY RowsAssumption, BoundsAssumption DEF MaxRuns, Status, JobStatus
    <3> QED
      BY <3>1, NoRequestType, NoRunType DEF Init, ImpTypes, JobTypes
  <2>2. 0 \in 0..TotalRows
    BY RowsAssumption
  <2> QED
    BY <2>1, <2>2 DEF Init, TypeOK, ReqTypes, RunTypes, ImpTypes, JobTypes
<1>2. Budget
  BY RowsAssumption, BoundsAssumption DEF Init, Budget
<1>3. \A w \in Workers : Shape(w)
  BY DEF Init, Shape, NoRun, InRow
<1> QED
  BY <1>1, <1>2, <1>3 DEF TypeInv

LEMMA TypeStep == TypeInv /\ [Next]_vars => TypeInv'
<1> SUFFICES ASSUME TypeInv, [Next]_vars
             PROVE  TypeInv'
  OBVIOUS
<1>1. CASE Next
  BY <1>1, RequestTypes, RequestEndsTypes, WorkerTypes, OtherTypes DEF Next
<1>2. CASE UNCHANGED vars
  BY <1>2 DEF vars, TypeInv, TypeOK, Budget, Shape
<1> QED
  BY <1>1, <1>2

\* Every variable keeps its type, whatever requests, runs, failures and people do
\* (tables and handlers of internal/platform/importer): an attempt at the job never
\* exceeds its limit but for manual retries, and a run never leaves the source.
THEOREM TypeCorrect == Spec => []TypeOK
<1>1. TypeInv => TypeOK
  BY DEF TypeInv
<1> QED
  BY <1>1, TypeInit, TypeStep, PTL DEF Spec

-----------------------------------------------------------------------------
(* The transition table.                                                   *)

\* What a request found in the import it read.
Found(c) ==
    /\ req[c].pc = "read" /\ req[c].op = "validate" => "validating" \in CanTransition[req[c].status]
    /\ req[c].pc = "read" /\ req[c].op = "cancel" => "cancelled" \in CanTransition[req[c].status]
    /\ req[c].pc = "cancelling" => "cancelled" \in CanTransition[req[c].status]
    /\ req[c].pc = "submitted" => req[c].status = "validated"

RequestInv == \A c \in Clients : Found(c)

\* Where the table leads.
LEMMA Table ==
    /\ "running" \in CanTransition["validated"]
    /\ {"validated", "validation_failed"} \subseteq CanTransition["validating"]
    /\ {"compensated", "compensation_failed"} \subseteq CanTransition["compensating"]
    /\ "completed" \in CanTransition["running"]
    /\ \A s \in Over : CanTransition[s] \subseteq Over
    /\ \A s \in Status : "compensating" \in CanTransition[s] => s \in Over
    /\ CanTransition["compensating"] = {"compensated", "compensation_failed"}
    /\ \A s \in Status : "compensating" \in CanTransition[s] => s \notin {"compensating", "compensated"}
<1>1. /\ CanTransition["uploaded"] = {"validating", "cancelled"}
      /\ CanTransition["validating"] = {"validated", "validation_failed", "cancelled"}
      /\ CanTransition["validated"] = {"running", "validating", "cancelled"}
      /\ CanTransition["validation_failed"] = {"cancelled"}
      /\ CanTransition["running"] = {"completed", "cancelled", "running"}
      /\ CanTransition["completed"] = {"compensating"}
      /\ CanTransition["cancelled"] = {}
      /\ CanTransition["compensating"] = {"compensated", "compensation_failed"}
      /\ CanTransition["compensated"] = {}
      /\ CanTransition["compensation_failed"] = {"compensating"}
  BY DEF CanTransition
<1>2. \A s \in Over : CanTransition[s] \subseteq Over
  BY <1>1 DEF Over
<1>3. \A s \in Status : "compensating" \in CanTransition[s] =>
                            s \in Over /\ s \notin {"compensating", "compensated"}
  BY <1>1 DEF Over, Status
<1> QED
  BY <1>1, <1>2, <1>3

\* The requests that stay where they are keep what they found.
LEMMA FoundFrame ==
    ASSUME RequestInv, NEW c \in Clients, \A d \in Clients : d # c => req'[d] = req[d], Found(c)'
    PROVE  RequestInv'
BY DEF RequestInv, Found

\* Only the steps of requests change requests, each its own.
LEMMA RequestsMove ==
    ASSUME [Next]_vars
    PROVE  \/ req' = req
           \/ \E c \in Clients : RequestStep(c) \/ Begin(c) \/ RequestFails(c) \/ CrashRequest(c)
BY DEF Next, vars, WorkerStep, ClaimJob, Load, ResumeFrom, CheckRow, ApplyRow, AddMember,
       LeaveRow, RefuseRow, RecordRow, SaveCheckpoint, Beat, FinishRun, CompleteImport, Report,
       RefuseResult, RunFails, CrashRun, RecoverJob, LoseLease, RetryJob, HoldExpires, Edit,
       UploadAgain

LEMMA OtherRequests ==
    ASSUME req \in [Clients -> ReqTypes], NEW c \in Clients, NEW d \in Clients, d # c,
           RequestStep(d) \/ Begin(d) \/ RequestFails(d) \/ CrashRequest(d)
    PROVE  req'[c] = req[c]
<1>1. EndRequest(d) \/ Abandon(d) \/ (\E pc \in RequestStates : Goto(d, pc)) => req'[c] = req[c]
  BY DEF EndRequest, Abandon, Goto
<1>2. CASE Begin(d) \/ ReadRecords(d) \/ ClaimRecord(d) \/ RecordUndo(d)
  <2>1. CASE Begin(d)
    BY <2>1 DEF Begin
  <2>2. CASE ReadRecords(d) \/ RecordUndo(d)
    BY <2>2 DEF ReadRecords, RecordUndo
  <2>3. CASE ClaimRecord(d)
    BY <2>3 DEF ClaimRecord
  <2> QED
    BY <1>2, <2>1, <2>2, <2>3
<1>3. CASE ~(Begin(d) \/ ReadRecords(d) \/ ClaimRecord(d) \/ RecordUndo(d))
  <2>1. EndRequest(d) \/ Abandon(d) \/ (\E pc \in RequestStates : Goto(d, pc))
    BY <1>3 DEF RequestStep, RequestFails, CrashRequest, StartValidation, FinishValidation,
                ClaimKey, KeyTaken, StartExecution, MarkRunningAndLink, Activate, CompleteKey,
                AskJob, CancelImport, StartCompensation, CompensateEntity, Restore,
                FinishCompensation, RequestStates
  <2> QED
    BY <1>1, <2>1
<1> QED
  BY <1>2, <1>3

LEMMA RequestInvStep ==
    ASSUME TypeInv, RequestInv, [Next]_vars
    PROVE  RequestInv'
<1>0. req \in [Clients -> ReqTypes]
  BY DEF TypeInv, TypeOK, ReqTypes
<1>1. CASE req' = req
  BY <1>1 DEF RequestInv, Found
<1>2. ASSUME NEW c \in Clients, RequestStep(c) \/ Begin(c) \/ RequestFails(c) \/ CrashRequest(c)
      PROVE  RequestInv'
  <2>1. ASSUME EndRequest(c) \/ Abandon(c)
        PROVE  RequestInv'
    <3>1. req' = [req EXCEPT ![c] = NoRequest]
      BY <2>1 DEF EndRequest, Abandon
    <3>2. req'[c].pc = "idle"
      BY <1>0, <3>1 DEF NoRequest
    <3> QED
      BY <1>0, <3>1, <3>2, FoundFrame DEF Found
  <2>2. ASSUME NEW pc \in RequestStates \ {"read", "cancelling", "submitted"}, Goto(c, pc)
        PROVE  RequestInv'
    <3>1. req'[c].pc = pc /\ \A d \in Clients : d # c => req'[d] = req[d]
      BY <1>0, <2>2 DEF Goto, ReqTypes
    <3> QED
      BY <3>1, FoundFrame DEF Found
  <2>3. CASE Begin(c)
    <3>1. PICK op \in Ops, k \in Keys \cup {NoKey} :
            /\ op = "validate" => "validating" \in CanTransition[imp.status]
            /\ op = "cancel" => "cancelled" \in CanTransition[imp.status]
            /\ req' = [req EXCEPT ![c] =
                [NoRequest EXCEPT !.pc = "read", !.op = op, !.key = k, !.status = imp.status,
                                  !.version = imp.version, !.linked = imp.linked]]
      BY <2>3 DEF Begin
    <3>2. req'[c].pc = "read" /\ req'[c].op = op /\ req'[c].status = imp.status
      BY <1>0, <3>1, NoRequestType DEF ReqTypes
    <3>3. \A d \in Clients : d # c => req'[d] = req[d]
      BY <3>1
    <3> QED
      BY <3>1, <3>2, <3>3, FoundFrame DEF Found
  <2>4. CASE AskJob(c)
    <3>1. /\ req'[c].pc = "cancelling" /\ req'[c].status = req[c].status
          /\ \A d \in Clients : d # c => req'[d] = req[d]
      BY <1>0, <2>4 DEF AskJob, Goto, ReqTypes
    <3>2. Found(c)'
      BY <2>4, <3>1 DEF AskJob, RequestInv, Found
    <3> QED
      BY <3>1, <3>2, FoundFrame
  <2>5. CASE StartExecution(c)
    <3>1. Abandon(c) \/ Goto(c, "activating") \/ (Goto(c, "submitted") /\ req[c].status = "validated")
      BY <2>5 DEF StartExecution
    <3>2. CASE Goto(c, "submitted") /\ req[c].status = "validated"
      <4>1. /\ req'[c].pc = "submitted" /\ req'[c].status = "validated"
            /\ \A d \in Clients : d # c => req'[d] = req[d]
        BY <1>0, <3>2 DEF Goto, ReqTypes
      <4> QED
        BY <4>1, FoundFrame DEF Found
    <3> QED
      BY <2>1, <2>2, <3>1, <3>2 DEF RequestStates
  <2>6. CASE StartValidation(c) \/ FinishValidation(c) \/ ClaimKey(c) \/ KeyTaken(c)
             \/ MarkRunningAndLink(c) \/ Activate(c) \/ CompleteKey(c) \/ CancelImport(c)
             \/ StartCompensation(c) \/ FinishCompensation(c) \/ RequestFails(c) \/ CrashRequest(c)
    <3>1. \/ EndRequest(c) \/ Abandon(c)
          \/ \E pc \in {"planning", "claimed", "activating", "finishing", "records"} : Goto(c, pc)
      BY <2>6 DEF StartValidation, FinishValidation, ClaimKey, KeyTaken, MarkRunningAndLink,
                  Activate, CompleteKey, CancelImport, StartCompensation, FinishCompensation,
                  RequestFails, CrashRequest
    <3> QED
      BY <2>1, <2>2, <3>1 DEF RequestStates
  <2>7. CASE ReadRecords(c) \/ ClaimRecord(c) \/ RecordUndo(c)
    <3>1. /\ req'[c].pc \in {"next", "undoing"}
          /\ \A d \in Clients : d # c => req'[d] = req[d]
      <4>1. CASE ReadRecords(c) \/ RecordUndo(c)
        BY <1>0, <4>1 DEF ReadRecords, RecordUndo, ReqTypes
      <4>2. CASE ClaimRecord(c)
        <5>1. PICK x \in req[c].todo :
                \/ req' = [req EXCEPT ![c].pc = "undoing", ![c].current = x,
                                      ![c].todo = req[c].todo \ {x}]
                \/ req' = [req EXCEPT ![c].todo = req[c].todo \ {x}]
          BY <4>2 DEF ClaimRecord
        <5>2. req[c].pc = "next"
          BY <4>2 DEF ClaimRecord
        <5> QED
          BY <1>0, <5>1, <5>2 DEF ReqTypes
      <4> QED
        BY <2>7, <4>1, <4>2
    <3> QED
      BY <3>1, FoundFrame DEF Found
  <2>8. CASE CompensateEntity(c) \/ Restore(c)
    <3>1. \E pc \in {"undone", "refused", "restoring"} : Goto(c, pc)
      BY <2>8 DEF CompensateEntity, Restore
    <3> QED
      BY <2>2, <3>1 DEF RequestStates
  <2> QED
    BY <1>2, <2>3, <2>4, <2>5, <2>6, <2>7, <2>8 DEF RequestStep
<1> QED
  BY <1>1, <1>2, RequestsMove

\* How a step changes the import: along the table, and to a state that is over
\* only from one that is, or by the run that completes it.
LEMMA ImportMoves ==
    ASSUME TypeInv, RequestInv, [Next]_vars
    PROVE  /\ Moves
           /\ imp'.status \in Over => \/ imp.status \in Over
                                      \/ \E w \in Workers : CompleteImport(w)
           /\ imp.linked => imp'.linked
<1>0. imp \in ImpTypes
  BY DEF TypeInv, TypeOK, ImpTypes
<1>1. CASE imp' = imp
  BY <1>1 DEF Moves
<1>2. ASSUME NEW c \in Clients, StartValidation(c) \/ CancelImport(c) \/ FinishValidation(c)
      PROVE  /\ Moves /\ imp'.linked = imp.linked
             /\ imp'.status \in Over => imp.status \in Over
  <2>1. \/ imp' = imp
        \/ /\ Matches(req[c].status, req[c].version) /\ SetStatus("validating")
           /\ "validating" \in CanTransition[req[c].status]
        \/ /\ Matches(req[c].status, req[c].version) /\ SetStatus("cancelled")
           /\ "cancelled" \in CanTransition[req[c].status]
        \/ /\ imp.status = "validating"
           /\ \E to \in {"validated", "validation_failed"} : SetStatus(to)
    BY <1>2 DEF StartValidation, CancelImport, FinishValidation, RequestInv, Found, Matches
  <2> QED
    BY <1>0, <2>1, SetStatusType, Table DEF Moves, Matches, Over, Status
<1>3. ASSUME NEW c \in Clients, MarkRunningAndLink(c)
      PROVE  /\ Moves /\ (imp.linked => imp'.linked)
             /\ imp'.status \in Over => imp.status \in Over
  <2>1. \/ imp' = imp
        \/ /\ imp.status = "validated"
           /\ imp' = [status |-> "running", version |-> imp.version + 1, linked |-> TRUE]
    BY <1>3 DEF MarkRunningAndLink, RequestInv, Found, Matches
  <2> QED
    BY <2>1, Table DEF Moves, Over
<1>4. ASSUME NEW c \in Clients, StartCompensation(c) \/ FinishCompensation(c)
      PROVE  /\ Moves /\ imp'.linked = imp.linked
             /\ imp'.status \in Over => imp.status \in Over
  <2>1. \/ imp' = imp
        \/ "compensating" \in CanTransition[imp.status] /\ SetStatus("compensating")
        \/ /\ imp.status = "compensating"
           /\ \E to \in {"compensated", "compensation_failed"} : SetStatus(to)
    BY <1>4 DEF StartCompensation, FinishCompensation, Matches
  <2>2. imp.status \in Status
    BY <1>0 DEF ImpTypes
  <2> QED
    BY <1>0, <2>1, <2>2, SetStatusType, Table DEF Moves, Over, Status
<1>5. ASSUME NEW w \in Workers, CompleteImport(w)
      PROVE  /\ Moves /\ imp'.linked = imp.linked
  <2>1. imp' = imp \/ (imp.status = "running" /\ SetStatus("completed"))
    BY <1>5, SMTT(30) DEF CompleteImport, Matches
  <2> QED
    BY <1>0, <2>1, SetStatusType, Table DEF Moves, Status
<1>6. \/ imp' = imp
      \/ \E c \in Clients : StartValidation(c) \/ CancelImport(c) \/ FinishValidation(c)
      \/ \E c \in Clients : MarkRunningAndLink(c)
      \/ \E c \in Clients : StartCompensation(c) \/ FinishCompensation(c)
      \/ \E w \in Workers : CompleteImport(w)
  BY ZenonT(60) DEF Next, vars, Begin, RequestFails, CrashRequest, RequestStep, ClaimKey,
                    KeyTaken, StartExecution, Activate, CompleteKey, AskJob, ReadRecords,
                    ClaimRecord, CompensateEntity, Restore, RecordUndo, WorkerStep, ClaimJob,
                    Load, ResumeFrom, CheckRow, ApplyRow, AddMember, LeaveRow, RefuseRow,
                    RecordRow, SaveCheckpoint, Beat, FinishRun, Report, RefuseResult, RunFails,
                    CrashRun, RecoverJob, LoseLease, RetryJob, HoldExpires, Edit, UploadAgain
<1> QED
  BY <1>1, <1>2, <1>3, <1>4, <1>5, <1>6

LEMMA RequestInvInit == Init => RequestInv
BY DEF Init, RequestInv, Found, NoRequest

\* The import's status only moves along importTransitions (domain.go), although
\* handlers and runs write it on the strength of what they read earlier.
THEOREM TransitionsAreObeyed == Spec => ObeysTransitions
<1>1. TypeInv /\ RequestInv /\ [Next]_vars => [Moves]_vars
  BY ImportMoves
<1>2. TypeInv /\ RequestInv /\ [Next]_vars => RequestInv'
  BY RequestInvStep
<1> QED
  BY <1>1, <1>2, TypeInit, TypeStep, RequestInvInit, PTL DEF Spec, ObeysTransitions

-----------------------------------------------------------------------------
(* Rows that were attempted.                                               *)

\* Where a run is, every row before it has been attempted, by whatever run.
Behind(w) ==
    /\ run[w].pc \in {"checking", "applying"} =>
         \A r \in Rows : r < run[w].row => r \in attempted
    /\ run[w].pc \in {"recording", "checkpointing", "beating"} =>
         \A r \in Rows : r <= run[w].row => r \in attempted
    /\ run[w].pc = "recording" => run[w].made[1] \in attempted
    /\ run[w].pc \in {"finishing", "completing"} => attempted = Rows
    /\ run[w].pc = "ok" => imp.status \in Over

\* So has every row behind the checkpoint, and every row that has a record.
ProgressInv ==
    /\ \A r \in Rows : r <= checkpoint => r \in attempted
    /\ \A x \in Resources : records[x] # "none" => x[1] \in attempted
    /\ \A c \in Clients : req[c].current \in Resources => req[c].current[1] \in attempted
    /\ \A w \in Workers : Behind(w)
    /\ imp.status \in Over => attempted = Rows
    /\ job.status = "succeeded" => imp.status \in Over

LEMMA ProgressInit == Init => ProgressInv
BY NoResourceAssumption DEF Init, ProgressInv, Behind, NoRun, NoRequest, Over, Rows

\* Steps that leave the runs and what they have attempted alone.
LEMMA ProgressFrame ==
    ASSUME TypeInv, ProgressInv, UNCHANGED <<run, attempted, checkpoint>>,
           imp.status \in Over => imp'.status \in Over,
           imp'.status \in Over => imp.status \in Over,
           \A x \in Resources : records'[x] # "none" => x[1] \in attempted,
           \A c \in Clients : req'[c].current \in Resources => req'[c].current[1] \in attempted,
           job'.status = "succeeded" => job.status = "succeeded"
    PROVE  ProgressInv'
BY DEF ProgressInv, Behind

LEMMA OverStays ==
    ASSUME TypeInv, RequestInv, [Next]_vars, imp.status \in Over
    PROVE  imp'.status \in Over
BY ImportMoves, Table DEF Moves

LEMMA ProgressRequest ==
    ASSUME TypeInv, RequestInv, ProgressInv, NEW c \in Clients,
           RequestStep(c) \/ Begin(c) \/ RequestFails(c) \/ CrashRequest(c)
    PROVE  ProgressInv'
<1>0. [Next]_vars
  BY DEF Next
<1>1. /\ req \in [Clients -> ReqTypes]
      /\ records \in [Resources -> {"none", "pending", "compensating", "failed", "compensated"}]
  BY DEF TypeInv, TypeOK, ReqTypes
<1>2. UNCHANGED <<run, attempted, checkpoint>>
  BY DEF RequestStep, Begin, RequestFails, CrashRequest, StartValidation, FinishValidation,
         ClaimKey, KeyTaken, StartExecution, MarkRunningAndLink, Activate, CompleteKey, AskJob,
         CancelImport, StartCompensation, ReadRecords, ClaimRecord, CompensateEntity, Restore,
         RecordUndo, FinishCompensation, historyVars
<1>3. ~ \E w \in Workers : CompleteImport(w)
  BY <1>1, <1>2 DEF CompleteImport, RunTo, TypeInv, TypeOK
<1>4. imp'.status \in Over <=> imp.status \in Over
  BY <1>0, <1>3, ImportMoves, OverStays
<1>5. job'.status = "succeeded" => job.status = "succeeded"
  <2>1. CASE StartExecution(c) \/ Activate(c) \/ AskJob(c)
    BY <2>1 DEF StartExecution, SubmitJob, Activate, AskJob, TypeInv, TypeOK
  <2>2. CASE job' = job
    BY <2>2
  <2> QED
    BY <2>1, <2>2 DEF RequestStep, Begin, RequestFails, CrashRequest, StartValidation,
         FinishValidation, ClaimKey, KeyTaken, MarkRunningAndLink, CompleteKey, CancelImport,
         StartCompensation, ReadRecords, ClaimRecord, CompensateEntity, Restore, RecordUndo,
         FinishCompensation
<1>6. ASSUME records' = records, \A d \in Clients : d # c => req'[d] = req[d],
             req'[c].current \in {req[c].current, NoResource}
      PROVE  ProgressInv'
  <2>1. \A d \in Clients : req'[d].current \in Resources => req'[d].current[1] \in attempted
    BY <1>6, NoResourceAssumption DEF ProgressInv
  <2>2. \A x \in Resources : records'[x] # "none" => x[1] \in attempted
    BY <1>6 DEF ProgressInv
  <2> QED
    BY <1>2, <1>4, <1>5, <2>1, <2>2, ProgressFrame
<1>7. ASSUME EndRequest(c) \/ Abandon(c) \/ \E pc \in RequestStates : Goto(c, pc), records' = records
      PROVE  ProgressInv'
  <2>1. CASE EndRequest(c) \/ Abandon(c)
    <3>1. req' = [req EXCEPT ![c] = NoRequest]
      BY <2>1 DEF EndRequest, Abandon
    <3> QED
      BY <1>1, <1>6, <1>7, <3>1 DEF NoRequest
  <2>2. ASSUME NEW pc \in RequestStates, Goto(c, pc)
        PROVE  ProgressInv'
    <3>1. req'[c].current = req[c].current /\ \A d \in Clients : d # c => req'[d] = req[d]
      BY <1>1, <2>2 DEF Goto, ReqTypes
    <3> QED
      BY <1>6, <1>7, <3>1
  <2> QED
    BY <1>7, <2>1, <2>2
<1>8. CASE Begin(c)
  <2>1. PICK op \in Ops, k \in Keys \cup {NoKey} :
            req' = [req EXCEPT ![c] =
                [NoRequest EXCEPT !.pc = "read", !.op = op, !.key = k, !.status = imp.status,
                                  !.version = imp.version, !.linked = imp.linked]]
    BY <1>8 DEF Begin
  <2>2. req'[c].current = NoResource /\ (\A d \in Clients : d # c => req'[d] = req[d])
    BY <1>1, <2>1 DEF NoRequest
  <2> QED
    BY <1>6, <1>8, <2>2 DEF Begin
<1>9. CASE ReadRecords(c)
  <2>1. req'[c].current = req[c].current /\ \A d \in Clients : d # c => req'[d] = req[d]
    BY <1>1, <1>9 DEF ReadRecords, ReqTypes
  <2> QED
    BY <1>6, <1>9, <2>1 DEF ReadRecords
<1>10. CASE ClaimRecord(c)
  <2>1. PICK x \in req[c].todo :
          IF Outstanding(x)
          THEN /\ records' = [records EXCEPT ![x] = "compensating"]
               /\ req' = [req EXCEPT ![c].pc = "undoing", ![c].current = x,
                                     ![c].todo = req[c].todo \ {x}]
          ELSE req' = [req EXCEPT ![c].todo = req[c].todo \ {x}] /\ UNCHANGED records
    BY <1>10 DEF ClaimRecord
  <2>2. x \in Resources
    BY <1>1, <2>1 DEF ReqTypes
  <2>3. CASE Outstanding(x)
    <3>1. x[1] \in attempted
      BY <2>2, <2>3 DEF Outstanding, ProgressInv
    <3>2. \A y \in Resources : records'[y] # "none" => y[1] \in attempted
      BY <1>1, <2>1, <2>2, <2>3, <3>1 DEF ProgressInv
    <3>3. req'[c].current = x /\ \A d \in Clients : d # c => req'[d] = req[d]
      BY <1>1, <2>1, <2>3 DEF ReqTypes
    <3>4. \A d \in Clients : req'[d].current \in Resources => req'[d].current[1] \in attempted
      BY <3>1, <3>3 DEF ProgressInv
    <3> QED
      BY <1>2, <1>4, <1>5, <3>2, <3>4, ProgressFrame
  <2>4. CASE ~Outstanding(x)
    <3>1. req'[c].current = req[c].current /\ \A d \in Clients : d # c => req'[d] = req[d]
      BY <1>1, <2>1, <2>4 DEF ReqTypes
    <3> QED
      BY <1>6, <2>1, <2>4, <3>1
  <2> QED
    BY <2>3, <2>4
<1>11. CASE RecordUndo(c)
  <2>1. \A x \in Resources : records'[x] # "none" => x[1] \in attempted
    BY <1>1, <1>11 DEF RecordUndo, ProgressInv
  <2>2. req'[c].current = NoResource /\ \A d \in Clients : d # c => req'[d] = req[d]
    BY <1>1, <1>11 DEF RecordUndo, ReqTypes
  <2>3. \A d \in Clients : req'[d].current \in Resources => req'[d].current[1] \in attempted
    BY <2>2, NoResourceAssumption DEF ProgressInv
  <2> QED
    BY <1>2, <1>4, <1>5, <2>1, <2>3, ProgressFrame
<1>12. CASE ~(Begin(c) \/ ReadRecords(c) \/ ClaimRecord(c) \/ RecordUndo(c))
  <2>1. /\ EndRequest(c) \/ Abandon(c) \/ \E pc \in RequestStates : Goto(c, pc)
        /\ records' = records
    BY <1>12 DEF RequestStep, RequestFails, CrashRequest, StartValidation, FinishValidation,
                 ClaimKey, KeyTaken, StartExecution, MarkRunningAndLink, Activate, CompleteKey,
                 AskJob, CancelImport, StartCompensation, CompensateEntity, Restore,
                 FinishCompensation, RequestStates
  <2> QED
    BY <1>7, <2>1
<1> QED
  BY <1>8, <1>9, <1>10, <1>11, <1>12

\* A run that leaves a row, when that row and those before it are attempted.
LEMMA AdvanceBehind ==
    ASSUME TypeInv, NEW w \in Workers, Advance(w) \/ EndRow(w), run[w].row \in Rows,
           \A r \in Rows : r <= run[w].row => r \in attempted', attempted' \subseteq Rows
    PROVE  Behind(w)'
<1>1. run \in [Workers -> RunTypes]
  BY DEF TypeInv, TypeOK, RunTypes
<1>2. CASE Advance(w)
  <2>1. CASE run[w].row = TotalRows
    <3>1. run'[w].pc = "finishing"
      BY <1>1, <1>2, <2>1 DEF Advance, RunTypes
    <3>2. \A r \in Rows : r <= run[w].row
      BY <2>1, RowsAssumption DEF Rows
    <3>3. attempted' = Rows
      BY <3>2
    <3> QED
      BY <3>1, <3>3 DEF Behind
  <2>2. CASE run[w].row # TotalRows
    <3>1. run'[w].pc = "checking" /\ run'[w].row = run[w].row + 1
      BY <1>1, <1>2, <2>2 DEF Advance, RunTypes
    <3>2. \A r \in Rows : r < run[w].row + 1 => r <= run[w].row
      BY RowsAssumption DEF Rows
    <3> QED
      BY <3>1, <3>2 DEF Behind
  <2> QED
    BY <2>1, <2>2
<1>3. CASE run' = [run EXCEPT ![w].pc = "checkpointing", ![w].made = NoResource]
  <2>1. run'[w].pc = "checkpointing" /\ run'[w].row = run[w].row
    BY <1>1, <1>3 DEF RunTypes
  <2> QED
    BY <2>1 DEF Behind
<1> QED
  BY <1>2, <1>3 DEF EndRow

LEMMA RunToBehind ==
    ASSUME TypeInv, NEW w \in Workers, NEW pc \in RunStates, RunTo(w, pc)
    PROVE  run'[w].pc = pc /\ run'[w].row = run[w].row
BY DEF RunTo, TypeInv, TypeOK

\* What stays when one run takes a step.
LEMMA ProgressRun ==
    ASSUME TypeInv, RequestInv, ProgressInv, [Next]_vars, NEW w \in Workers, UNCHANGED req,
           \A v \in Workers : v # w => run'[v] = run[v],
           attempted \subseteq attempted', attempted' \subseteq Rows, Behind(w)',
           \A r \in Rows : r <= checkpoint' => r \in attempted',
           \A x \in Resources : records'[x] # "none" => x[1] \in attempted',
           imp'.status \in Over => attempted' = Rows,
           job'.status = "succeeded" => imp'.status \in Over
    PROVE  ProgressInv'
<1>1. \A v \in Workers : Behind(v)'
  <2>1. attempted = Rows => attempted' = Rows
    OBVIOUS
  <2>2. imp.status \in Over => imp'.status \in Over
    BY OverStays
  <2> QED
    BY <2>1, <2>2 DEF ProgressInv, Behind
<1> QED
  BY <1>1 DEF ProgressInv

\* A run changes no other run, and no request.
LEMMA OtherRuns ==
    ASSUME TypeInv, NEW w \in Workers, WorkerStep(w) \/ RunFails(w) \/ CrashRun(w)
    PROVE  (\A v \in Workers : v # w => run'[v] = run[v]) /\ req' = req
<1>0. run \in [Workers -> RunTypes]
  BY DEF TypeInv, TypeOK, RunTypes
<1>1. Advance(w) \/ EndRow(w) => \A v \in Workers : v # w => run'[v] = run[v]
  BY <1>0 DEF Advance, EndRow
<1>2. (\E pc \in RunStates : RunTo(w, pc)) => \A v \in Workers : v # w => run'[v] = run[v]
  BY DEF RunTo
<1>3. CASE \/ ClaimJob(w) \/ Load(w) \/ ResumeFrom(w) \/ ApplyRow(w) \/ Report(w)
           \/ RefuseResult(w) \/ RunFails(w) \/ CrashRun(w)
  <2>1. CASE ClaimJob(w) \/ Report(w) \/ RefuseResult(w) \/ CrashRun(w)
    BY <1>0, <2>1 DEF ClaimJob, Report, RefuseResult, CrashRun
  <2>2. CASE Load(w) \/ ApplyRow(w) \/ RunFails(w)
    BY <1>0, <2>2 DEF Load, ApplyRow, RunFails
  <2>3. CASE ResumeFrom(w)
    BY <1>0, <2>3 DEF ResumeFrom
  <2> QED
    BY <1>3, <2>1, <2>2, <2>3
<1>4. CASE \/ CheckRow(w) \/ AddMember(w) \/ LeaveRow(w) \/ RefuseRow(w) \/ RecordRow(w)
           \/ SaveCheckpoint(w) \/ Beat(w) \/ FinishRun(w) \/ CompleteImport(w)
  <2>1. \/ Advance(w) \/ EndRow(w)
        \/ \E pc \in RunStates : RunTo(w, pc)
    BY <1>4 DEF CheckRow, AddMember, LeaveRow, RefuseRow, RecordRow, SaveCheckpoint, Beat,
                FinishRun, CompleteImport, RunStates
  <2>2. req' = req
    BY <1>4 DEF CheckRow, AddMember, LeaveRow, RefuseRow, RecordRow, SaveCheckpoint, Beat,
                FinishRun, CompleteImport
  <2> QED
    BY <1>1, <1>2, <2>1, <2>2
<1> QED
  BY <1>3, <1>4 DEF WorkerStep

LEMMA ProgressWorker ==
    ASSUME TypeInv, RequestInv, ProgressInv, NEW w \in Workers,
           WorkerStep(w) \/ RunFails(w) \/ CrashRun(w)
    PROVE  ProgressInv'
<1>0. [Next]_vars
  BY DEF Next
<1>1. /\ run \in [Workers -> RunTypes] /\ attempted \subseteq Rows /\ Shape(w)
      /\ records \in [Resources -> {"none", "pending", "compensating", "failed", "compensated"}]
      /\ imp \in ImpTypes /\ checkpoint \in Nat
  BY RowsAssumption DEF TypeInv, TypeOK, RunTypes, ImpTypes
<1>2. (\A v \in Workers : v # w => run'[v] = run[v]) /\ req' = req
  BY OtherRuns
<1>3. ASSUME attempted' = attempted, records' = records, checkpoint' = checkpoint, imp' = imp,
             job'.status = "succeeded" => imp.status \in Over, Behind(w)'
      PROVE  ProgressInv'
  BY <1>0, <1>1, <1>2, <1>3, ProgressRun DEF ProgressInv
<1>4. job.status = "succeeded" => imp.status \in Over
  BY DEF ProgressInv
<1>5. CASE ClaimJob(w)
  <2>1. run'[w].pc = "loading"
    BY <1>1, <1>5, NoRunType DEF ClaimJob, RunTypes
  <2>2. job'.status = "running"
    BY <1>5 DEF ClaimJob, TypeInv, TypeOK
  <2> QED
    BY <1>3, <1>5, <2>1, <2>2 DEF ClaimJob, historyVars, Behind
<1>6. CASE Load(w)
  <2>1. run'[w].pc \in {"resuming", "fatal"}
    BY <1>1, <1>6 DEF Load, RunTypes
  <2> QED
    BY <1>3, <1>4, <1>6, <2>1 DEF Load, historyVars, Behind
<1>7. CASE ResumeFrom(w)
  <2>1. Behind(w)'
    <3>1. CASE checkpoint < TotalRows
      <4>1. run'[w].pc = "checking" /\ run'[w].row = checkpoint + 1
        BY <1>1, <1>7, <3>1 DEF ResumeFrom, RunTypes
      <4>2. \A r \in Rows : r < checkpoint + 1 => r \in attempted
        BY <1>1 DEF ProgressInv, Rows
      <4> QED
        BY <1>7, <4>1, <4>2 DEF ResumeFrom, historyVars, Behind
    <3>2. CASE ~(checkpoint < TotalRows)
      <4>1. run'[w].pc = "finishing"
        BY <1>1, <1>7, <3>2 DEF ResumeFrom, RunTypes
      <4>2. \A r \in Rows : r <= checkpoint
        BY <1>1, <3>2, RowsAssumption DEF Rows
      <4>3. attempted' = Rows
        BY <1>1, <1>7, <4>2 DEF ResumeFrom, historyVars, ProgressInv
      <4> QED
        BY <4>1, <4>3 DEF Behind
    <3> QED
      BY <3>1, <3>2
  <2> QED
    BY <1>3, <1>4, <1>7, <2>1 DEF ResumeFrom, historyVars
<1>8. CASE CheckRow(w)
  <2>1. run[w].pc = "checking" /\ run[w].row \in Rows /\ attempted' = attempted
    BY <1>1, <1>8 DEF CheckRow, Shape, InRow, historyVars
  <2>2. CASE Recorded(run[w].row)
    <3>1. run[w].row \in attempted
      BY <2>2 DEF Recorded, ProgressInv
    <3>2. \A r \in Rows : r <= run[w].row => r \in attempted'
      BY <2>1, <3>1 DEF ProgressInv, Behind, Rows
    <3>3. Behind(w)'
      BY <1>1, <1>8, <2>1, <2>2, <3>2, AdvanceBehind DEF CheckRow
    <3> QED
      BY <1>3, <1>4, <1>8, <3>3 DEF CheckRow, historyVars
  <2>3. CASE ~Recorded(run[w].row)
    <3>1. run'[w].pc = "applying" /\ run'[w].row = run[w].row
      BY <1>8, <2>3, RunToBehind DEF CheckRow, RunStates
    <3>2. Behind(w)'
      BY <2>1, <3>1 DEF ProgressInv, Behind
    <3> QED
      BY <1>3, <1>4, <1>8, <3>2 DEF CheckRow, historyVars
  <2> QED
    BY <2>2, <2>3
<1>9. CASE ApplyRow(w)
  <2>1. /\ run[w].pc = "applying" /\ run[w].row \in Rows
        /\ attempted' = attempted \cup {run[w].row}
    BY <1>1, <1>9 DEF ApplyRow, Shape, InRow
  <2>2. \A r \in Rows : r <= run[w].row => r \in attempted'
    BY <2>1 DEF ProgressInv, Behind, Rows
  <2>3. run'[w].pc = "recording" /\ run'[w].row = run[w].row
        /\ run'[w].made = Resource(run[w].row, run[w].attempt)
    BY <1>1, <1>9 DEF ApplyRow, RunTypes
  <2>4. run'[w].made[1] = run[w].row
    BY <2>3 DEF Resource
  <2>5. Behind(w)'
    BY <2>1, <2>2, <2>3, <2>4 DEF Behind
  <2> QED
    BY <1>0, <1>1, <1>2, <1>4, <1>9, <2>1, <2>5, ProgressRun DEF ApplyRow, ProgressInv
<1>10. CASE AddMember(w) \/ LeaveRow(w) \/ RefuseRow(w)
  <2>1. /\ run[w].pc = "applying" /\ run[w].row \in Rows
        /\ attempted' = attempted \cup {run[w].row}
    BY <1>1, <1>10 DEF AddMember, LeaveRow, RefuseRow, Shape, InRow
  <2>2. \A r \in Rows : r <= run[w].row => r \in attempted'
    BY <2>1 DEF ProgressInv, Behind, Rows
  <2>3. Behind(w)'
    BY <1>1, <1>10, <2>1, <2>2, AdvanceBehind DEF AddMember, LeaveRow, RefuseRow
  <2> QED
    BY <1>0, <1>1, <1>2, <1>4, <1>10, <2>1, <2>3, ProgressRun
       DEF AddMember, LeaveRow, RefuseRow, ProgressInv
<1>11. CASE RecordRow(w)
  <2>1. /\ run[w].pc = "recording" /\ run[w].row \in Rows /\ run[w].made \in Resources
        /\ attempted' = attempted /\ run[w].made[1] \in attempted
        /\ \A r \in Rows : r <= run[w].row => r \in attempted'
    BY <1>1, <1>11 DEF RecordRow, Shape, InRow, ProgressInv, Behind
  <2>2. Behind(w)'
    BY <1>1, <1>11, <2>1, AdvanceBehind DEF RecordRow
  <2>3. \A x \in Resources : records'[x] # "none" => x[1] \in attempted'
    BY <1>1, <1>11, <2>1 DEF RecordRow, ProgressInv
  <2> QED
    BY <1>0, <1>1, <1>2, <1>4, <1>11, <2>1, <2>2, <2>3, ProgressRun DEF RecordRow, ProgressInv
<1>12. CASE SaveCheckpoint(w)
  <2>1. run[w].pc = "checkpointing" /\ run[w].row \in Rows /\ attempted' = attempted /\ checkpoint' = run[w].row
    BY <1>1, <1>12 DEF SaveCheckpoint, Shape, InRow, historyVars
  <2>2. run'[w].pc = "beating" /\ run'[w].row = run[w].row
    BY <1>12, RunToBehind DEF SaveCheckpoint, RunStates
  <2>3. \A r \in Rows : r <= run[w].row => r \in attempted'
    BY <2>1 DEF ProgressInv, Behind
  <2>4. Behind(w)'
    BY <2>2, <2>3 DEF Behind
  <2> QED
    BY <1>0, <1>1, <1>2, <1>4, <1>12, <2>1, <2>3, <2>4, ProgressRun DEF SaveCheckpoint,
       ProgressInv
<1>13. CASE Beat(w)
  <2>1. run[w].pc = "beating" /\ run[w].row \in Rows /\ attempted' = attempted
    BY <1>1, <1>13 DEF Beat, Shape, InRow, historyVars
  <2>2. \A r \in Rows : r <= run[w].row => r \in attempted'
    BY <2>1 DEF ProgressInv, Behind
  <2>3. Advance(w) \/ RunTo(w, "retryable") \/ RunTo(w, "fatal")
    BY <1>13 DEF Beat
  <2>4. Behind(w)'
    BY <1>1, <2>1, <2>2, <2>3, AdvanceBehind, RunToBehind DEF Behind, RunStates
  <2> QED
    BY <1>3, <1>4, <1>13, <2>4 DEF Beat, historyVars
<1>14. CASE FinishRun(w)
  <2>1. attempted = Rows /\ attempted' = attempted
    BY <1>14 DEF FinishRun, ProgressInv, Behind, historyVars
  <2>2. run'[w].pc = "completing"
    BY <1>14, RunToBehind DEF FinishRun, RunStates
  <2>3. Behind(w)'
    BY <2>1, <2>2 DEF Behind
  <2> QED
    BY <1>0, <1>1, <1>2, <1>4, <1>14, <2>1, <2>3, ProgressRun DEF FinishRun, ProgressInv
<1>15. CASE CompleteImport(w)
  <2>1. attempted = Rows /\ attempted' = attempted
    BY <1>15 DEF CompleteImport, ProgressInv, Behind, historyVars
  <2>2. CASE Matches("running", run[w].version)
    <3>1. imp'.status = "completed"
      BY <1>1, <1>15, <2>2, SetStatusType DEF CompleteImport, Status
    <3>2. Behind(w)'
      BY <1>15, <2>2, <3>1, RunToBehind DEF CompleteImport, RunStates, Behind, Over
    <3> QED
      BY <1>0, <1>1, <1>2, <1>4, <1>15, <2>1, <3>1, <3>2, ProgressRun
         DEF CompleteImport, ProgressInv, Over
  <2>3. CASE ~Matches("running", run[w].version)
    <3>1. Behind(w)'
      BY <1>15, <2>3, RunToBehind DEF CompleteImport, RunStates, Behind
    <3> QED
      BY <1>3, <1>4, <1>15, <2>3, <3>1 DEF CompleteImport, historyVars
  <2> QED
    BY <2>2, <2>3
<1>16. CASE Report(w)
  <2>1. run'[w].pc = "idle"
    BY <1>1, <1>16 DEF Report, NoRun
  <2>2. job'.status = "succeeded" => job.status = "succeeded" \/ run[w].pc = "ok"
    BY <1>16 DEF Report, Requeued, TypeInv, TypeOK
  <2>3. job'.status = "succeeded" => imp.status \in Over
    BY <1>4, <2>2 DEF ProgressInv, Behind
  <2> QED
    BY <1>3, <1>16, <2>1, <2>3 DEF Report, historyVars, Behind
<1>17. CASE RunFails(w) \/ CrashRun(w)
  <2>1. run'[w].pc \in {"retryable", "idle"}
    BY <1>1, <1>17 DEF RunFails, CrashRun, NoRun, RunTypes
  <2> QED
    BY <1>3, <1>4, <1>17, <2>1 DEF RunFails, CrashRun, Behind
<1>18. CASE RefuseResult(w)
  <2>1. run'[w].pc = "idle"
    BY <1>1, <1>18 DEF RefuseResult, NoRun
  <2> QED
    BY <1>3, <1>4, <1>18, <2>1 DEF RefuseResult, Behind
<1> QED
  BY <1>5, <1>6, <1>7, <1>8, <1>9, <1>10, <1>11, <1>12, <1>13, <1>14, <1>15, <1>16, <1>17, <1>18
     DEF WorkerStep

LEMMA ProgressStep ==
    ASSUME TypeInv, RequestInv, ProgressInv, [Next]_vars
    PROVE  ProgressInv'
<1>1. CASE RecoverJob \/ LoseLease \/ RetryJob \/ HoldExpires \/ UploadAgain
           \/ \E x \in Resources : Edit(x)
  <2>1. UNCHANGED <<run, attempted, checkpoint, imp, records, req>>
    BY <1>1 DEF RecoverJob, LoseLease, RetryJob, HoldExpires, UploadAgain, Edit, historyVars
  <2>2. job'.status = "succeeded" => job.status = "succeeded"
    BY <1>1 DEF RecoverJob, LoseLease, RetryJob, HoldExpires, UploadAgain, Edit, Requeued,
                TypeInv, TypeOK
  <2> QED
    BY <2>1, <2>2, ProgressFrame DEF ProgressInv
<1>2. CASE UNCHANGED vars
  BY <1>2, ProgressFrame DEF vars, ProgressInv
<1> QED
  BY <1>1, <1>2, ProgressRequest, ProgressWorker DEF Next

ImportInv == TypeInv /\ RequestInv /\ ProgressInv

LEMMA ImportInvariant == Spec => []ImportInv
<1>1. Init => ImportInv
  BY TypeInit, RequestInvInit, ProgressInit DEF ImportInv
<1>2. ImportInv /\ [Next]_vars => ImportInv'
  BY TypeStep, RequestInvStep, ProgressStep DEF ImportInv
<1> QED
  BY <1>1, <1>2, PTL DEF Spec

\* HandleImportJob completes an import only when every row has been dealt with,
\* whatever checkpoints of whichever runs it continued from.
THEOREM CompletionIsComplete == Spec => []CompletedMeansAttempted
<1>1. ImportInv => CompletedMeansAttempted
  BY DEF ImportInv, ProgressInv, CompletedMeansAttempted
<1> QED
  BY <1>1, ImportInvariant, PTL

\* The worker reports success only for an import that is completed.
THEOREM SuccessIsCompletion == Spec => []SuccessMeansCompleted
<1>1. ImportInv => SuccessMeansCompleted
  BY DEF ImportInv, ProgressInv, SuccessMeansCompleted
<1> QED
  BY <1>1, ImportInvariant, PTL

-----------------------------------------------------------------------------
(* The durable job, as the importer uses it.                               *)

\* The job has a holder only while it runs; before the import is linked to it,
\* it is held, and no request takes it for linked.
JobInv ==
    /\ job.holder # NoWorker => job.status = "running"
    /\ ~imp.linked /\ ~holdOver => job.status = "absent" \/ (job.status = "queued" /\ job.held)
    /\ \A c \in Clients : req[c].pc = "activating" \/ req[c].linked => imp.linked

\* What a step does to the job.
JobChange ==
    \/ job' = job
    \/ job.status = "absent" /\ job' = [job EXCEPT !.status = "queued", !.held = TRUE]
    \/ imp.linked /\ job' = [job EXCEPT !.held = FALSE]
    \/ /\ job.status = "queued" /\ imp.linked
       /\ job' = [job EXCEPT !.asked = TRUE, !.status = "cancelled"]
    \/ job.status = "running" /\ imp.linked /\ job' = [job EXCEPT !.asked = TRUE]
    \/ /\ job.status = "queued" /\ ~job.held /\ ~job.asked
       /\ \E w \in Workers :
            job' = [job EXCEPT !.status = "running", !.attempt = @ + 1, !.holder = w]
    \/ /\ job.status = "running"
       /\ \E s \in {"queued", "failed", "succeeded", "cancelled"} :
            /\ s = "succeeded" => ~job.asked
            /\ s = "cancelled" => job.asked
            /\ job' = [job EXCEPT !.holder = NoWorker, !.status = s]
    \/ job.status = "failed" /\ job' = [job EXCEPT !.status = "queued", !.held = FALSE]
    \/ holdOver' /\ job' = [job EXCEPT !.held = FALSE]

LEMMA JobEnds ==
    ASSUME job.status = "running", NEW s \in {"queued", "failed", "succeeded", "cancelled"},
           s = "succeeded" => ~job.asked, s = "cancelled" => job.asked,
           job' = [job EXCEPT !.holder = NoWorker, !.status = s]
    PROVE  JobChange
BY DEF JobChange

LEMMA JobChanges ==
    ASSUME TypeInv, JobInv, [Next]_vars
    PROVE  JobChange /\ (holdOver => holdOver')
<1>0. job \in JobTypes /\ NoWorker \notin Workers
  BY NamesAssumption DEF TypeInv, TypeOK, JobTypes
<1>1. holdOver => holdOver'
  <2>1. ASSUME NEW c \in Clients, Begin(c) \/ RequestFails(c) \/ CrashRequest(c)
        PROVE  holdOver => holdOver'
    BY <2>1 DEF Begin, RequestFails, CrashRequest, historyVars
  <2>2. ASSUME NEW c \in Clients, RequestStep(c)
        PROVE  holdOver => holdOver'
    <3>1. CASE \/ StartValidation(c) \/ FinishValidation(c) \/ ClaimKey(c) \/ KeyTaken(c)
               \/ StartExecution(c) \/ MarkRunningAndLink(c) \/ Activate(c)
               \/ CompleteKey(c) \/ AskJob(c) \/ CancelImport(c)
      BY <3>1 DEF StartValidation, FinishValidation, ClaimKey, KeyTaken, StartExecution,
             MarkRunningAndLink, Activate, CompleteKey, AskJob, CancelImport, historyVars
    <3>2. CASE \/ StartCompensation(c) \/ ReadRecords(c) \/ ClaimRecord(c)
               \/ CompensateEntity(c) \/ Restore(c) \/ RecordUndo(c) \/ FinishCompensation(c)
      BY <3>2 DEF StartCompensation, ReadRecords, ClaimRecord, CompensateEntity, Restore,
             RecordUndo, FinishCompensation, historyVars
    <3>3. QED
      BY <2>2, <3>1, <3>2 DEF RequestStep
  <2>3. ASSUME NEW w \in Workers, WorkerStep(w) \/ RunFails(w) \/ CrashRun(w)
        PROVE  holdOver => holdOver'
    BY <2>3 DEF WorkerStep, ClaimJob, Load, ResumeFrom, CheckRow, ApplyRow, AddMember, LeaveRow,
                RefuseRow, RecordRow, SaveCheckpoint, Beat, FinishRun, CompleteImport, Report,
                RefuseResult, RunFails, CrashRun, historyVars
  <2>4. ASSUME RecoverJob \/ LoseLease \/ RetryJob \/ HoldExpires \/ UploadAgain
        PROVE  holdOver => holdOver'
    BY <2>4 DEF RecoverJob, LoseLease, RetryJob, HoldExpires, UploadAgain, historyVars
  <2>5. ASSUME NEW x \in Resources, Edit(x)
        PROVE  holdOver => holdOver'
    BY <2>5 DEF Edit
  <2>6. CASE UNCHANGED vars
    BY <2>6 DEF vars, historyVars
  <2>7. QED
    BY <2>1, <2>2, <2>3, <2>4, <2>5, <2>6 DEF Next
<1>2. ASSUME NEW c \in Clients, StartExecution(c) \/ Activate(c) \/ AskJob(c)
      PROVE  JobChange
  <2>1. CASE StartExecution(c)
    BY <2>1 DEF StartExecution, SubmitJob, JobChange
  <2>2. CASE Activate(c)
    BY <2>2 DEF Activate, JobInv, JobChange
  <2>3. CASE AskJob(c)
    <3>1. \/ job' = job
          \/ /\ imp.linked /\ job.status \in {"queued", "running"}
             /\ job' = [job EXCEPT !.asked = TRUE,
                                   !.status = IF job.status = "queued" THEN "cancelled"
                                              ELSE job.status]
      BY <2>3 DEF AskJob, JobInv
    <3>2. job.status = "running" =>
            [job EXCEPT !.asked = TRUE, !.status = job.status] = [job EXCEPT !.asked = TRUE]
      BY <1>0 DEF JobTypes
    <3> QED
      BY <3>1, <3>2 DEF JobChange
  <2> QED
    BY <1>2, <2>1, <2>2, <2>3
<1>3. ASSUME NEW w \in Workers, ClaimJob(w) \/ Report(w)
      PROVE  JobChange
  <2>1. CASE ClaimJob(w)
    BY <2>1 DEF ClaimJob, JobChange
  <2>2. CASE Report(w)
    <3>1. CASE ~Leased(w)
      BY <2>2, <3>1 DEF Report, JobChange
    <3>2. CASE Leased(w)
      <4> DEFINE s == CASE job.asked -> "cancelled"
                        [] ~job.asked /\ run[w].pc = "ok" -> "succeeded"
                        [] ~job.asked /\ run[w].pc = "retryable" -> Requeued
                        [] OTHER -> "failed"
      <4>1. job' = [job EXCEPT !.holder = NoWorker, !.status = s]
        BY <2>2, <3>2 DEF Report
      <4>2. /\ s \in {"queued", "failed", "succeeded", "cancelled"}
            /\ s = "succeeded" => ~job.asked
            /\ s = "cancelled" => job.asked
        BY DEF Requeued
      <4>3. job.status = "running"
        BY <1>0, <3>2 DEF Leased, JobInv
      <4> HIDE DEF s
      <4> QED
        BY <4>1, <4>2, <4>3, JobEnds
    <3> QED
      BY <3>1, <3>2
  <2> QED
    BY <1>3, <2>1, <2>2
<1>4. CASE RecoverJob \/ LoseLease \/ RetryJob \/ HoldExpires
  <2>1. Requeued \in {"queued", "failed"}
    BY DEF Requeued
  <2>2. CASE RecoverJob \/ LoseLease
    <3>1. /\ job.status = "running"
          /\ job' = [job EXCEPT !.status = Requeued, !.holder = NoWorker]
      BY <2>2 DEF RecoverJob, LoseLease
    <3>2. [job EXCEPT !.status = Requeued, !.holder = NoWorker]
            = [job EXCEPT !.holder = NoWorker, !.status = Requeued]
      BY <1>0 DEF JobTypes
    <3> QED
      BY <1>1, <2>1, <3>1, <3>2, JobEnds
  <2>3. CASE RetryJob
    BY <2>3 DEF RetryJob, JobChange
  <2>4. CASE HoldExpires
    BY <2>4 DEF HoldExpires, JobChange
  <2> QED
    BY <1>4, <2>2, <2>3, <2>4
<1>5. \/ job' = job
      \/ \E c \in Clients : StartExecution(c) \/ Activate(c) \/ AskJob(c)
      \/ \E w \in Workers : ClaimJob(w) \/ Report(w)
      \/ RecoverJob \/ LoseLease \/ RetryJob \/ HoldExpires
  BY ZenonT(60) DEF Next, vars, Begin, RequestFails, CrashRequest, RequestStep, StartValidation,
                    FinishValidation, ClaimKey, KeyTaken, MarkRunningAndLink, CompleteKey,
                    CancelImport, StartCompensation, ReadRecords, ClaimRecord, CompensateEntity,
                    Restore, RecordUndo, FinishCompensation, WorkerStep, Load, ResumeFrom,
                    CheckRow, ApplyRow, AddMember, LeaveRow, RefuseRow, RecordRow, SaveCheckpoint,
                    Beat, FinishRun, CompleteImport, RefuseResult, RunFails, CrashRun, Edit,
                    UploadAgain
<1> QED
  BY <1>1, <1>2, <1>3, <1>4, <1>5 DEF JobChange

\* A request takes the import for linked only when it is.
LEMMA LinkedRequests ==
    ASSUME TypeInv, RequestInv, JobInv, [Next]_vars, NEW c \in Clients,
           req'[c].pc = "activating" \/ req'[c].linked
    PROVE  imp'.linked
<1>0. /\ req \in [Clients -> ReqTypes] /\ imp \in ImpTypes
      /\ imp.linked => imp'.linked
      /\ req[c].pc = "activating" \/ req[c].linked => imp.linked
  BY ImportMoves DEF TypeInv, TypeOK, ReqTypes, ImpTypes, JobInv
<1>1. CASE req'[c] = req[c]
  BY <1>0, <1>1
<1>2. ASSUME EndRequest(c) \/ Abandon(c)
      PROVE  FALSE
  BY <1>0, <1>2 DEF EndRequest, Abandon, NoRequest
<1>3. ASSUME NEW pc, Goto(c, pc)
      PROVE  req'[c].pc = pc /\ req'[c].linked = req[c].linked
  BY <1>0, <1>3 DEF Goto, ReqTypes
<1>4. CASE Begin(c)
  <2>1. PICK op \in Ops, k \in Keys \cup {NoKey} :
          req' = [req EXCEPT ![c] =
              [NoRequest EXCEPT !.pc = "read", !.op = op, !.key = k, !.status = imp.status,
                                !.version = imp.version, !.linked = imp.linked]]
    BY <1>4 DEF Begin
  <2>2. req'[c].pc = "read" /\ req'[c].linked = imp.linked
    BY <1>0, <2>1, NoRequestType DEF ReqTypes
  <2> QED
    BY <1>0, <2>2
<1>5. CASE StartExecution(c)
  <2>1. \/ Abandon(c) \/ Goto(c, "submitted")
        \/ Goto(c, "activating") /\ req[c].linked
    BY <1>5 DEF StartExecution
  <2> QED
    BY <1>0, <1>2, <1>3, <2>1
<1>6. CASE MarkRunningAndLink(c)
  <2>1. Abandon(c) \/ imp'.linked
    BY <1>6 DEF MarkRunningAndLink
  <2> QED
    BY <1>2, <2>1
<1>7. CASE StartValidation(c) \/ FinishValidation(c) \/ ClaimKey(c) \/ KeyTaken(c) \/ Activate(c)
           \/ CompleteKey(c) \/ AskJob(c) \/ CancelImport(c) \/ StartCompensation(c)
           \/ FinishCompensation(c) \/ RequestFails(c) \/ CrashRequest(c)
           \/ CompensateEntity(c) \/ Restore(c)
  <2>1. \/ EndRequest(c) \/ Abandon(c)
        \/ \E pc \in RequestStates \ {"activating"} : Goto(c, pc)
    BY <1>7 DEF StartValidation, FinishValidation, ClaimKey, KeyTaken, Activate, CompleteKey,
                CancelImport, StartCompensation, FinishCompensation, RequestFails, CrashRequest,
                AskJob, CompensateEntity, Restore, RequestStates
  <2> QED
    BY <1>0, <1>2, <1>3, <2>1
<1>8. CASE ReadRecords(c) \/ ClaimRecord(c) \/ RecordUndo(c)
  <2>1. CASE ReadRecords(c) \/ RecordUndo(c)
    BY <1>0, <2>1 DEF ReadRecords, RecordUndo, ReqTypes
  <2>2. CASE ClaimRecord(c)
    <3>1. PICK x \in req[c].todo :
            \/ req' = [req EXCEPT ![c].pc = "undoing", ![c].current = x,
                                  ![c].todo = req[c].todo \ {x}]
            \/ req' = [req EXCEPT ![c].todo = req[c].todo \ {x}]
      BY <2>2 DEF ClaimRecord
    <3> QED
      BY <1>0, <3>1 DEF ReqTypes
  <2> QED
    BY <1>8, <2>1, <2>2
<1>9. \/ req'[c] = req[c]
      \/ RequestStep(c) \/ Begin(c) \/ RequestFails(c) \/ CrashRequest(c)
  <2>1. CASE req' = req
    BY <2>1
  <2>2. ASSUME NEW d \in Clients, d # c,
               RequestStep(d) \/ Begin(d) \/ RequestFails(d) \/ CrashRequest(d)
        PROVE  req'[c] = req[c]
    BY <1>0, <2>2, OtherRequests
  <2> QED
    BY <2>1, <2>2, RequestsMove
<1> QED
  BY <1>1, <1>2, <1>4, <1>5, <1>6, <1>7, <1>8, <1>9 DEF RequestStep

LEMMA JobInvStep ==
    ASSUME TypeInv, RequestInv, JobInv, [Next]_vars
    PROVE  JobInv'
<1>0. job \in JobTypes /\ NoWorker \notin Workers
  BY NamesAssumption DEF TypeInv, TypeOK, JobTypes
<1>1. JobChange /\ (holdOver => holdOver') /\ (imp.linked => imp'.linked)
  BY JobChanges, ImportMoves
<1>2. job'.holder # NoWorker => job'.status = "running"
  BY <1>0, <1>1 DEF JobInv, JobChange, JobTypes
<1>3. ~imp'.linked /\ ~holdOver' =>
        job'.status = "absent" \/ (job'.status = "queued" /\ job'.held)
  BY <1>0, <1>1 DEF JobInv, JobChange, JobTypes
<1>4. \A c \in Clients : req'[c].pc = "activating" \/ req'[c].linked => imp'.linked
  BY LinkedRequests
<1> QED
  BY <1>2, <1>3, <1>4 DEF JobInv

LEMMA JobInvariant == Spec => [](TypeInv /\ RequestInv /\ JobInv)
<1>1. Init => JobInv
  BY NamesAssumption DEF Init, JobInv, NoRequest
<1>2. TypeInv /\ RequestInv /\ JobInv /\ [Next]_vars => JobInv'
  BY JobInvStep
<1> QED
  BY <1>1, <1>2, TypeInit, TypeStep, RequestInvInit, RequestInvStep, PTL DEF Spec

\* No worker gets the job of an import that is not linked to it, unless the
\* hold ran out (executeDurable submits the job before it writes the link).
THEOREM HoldIsKept == Spec => []HoldProtects
<1>1. JobInv => HoldProtects
  BY DEF JobInv, HoldProtects
<1> QED
  BY <1>1, JobInvariant, PTL

\* One job only: the abstract job's move is a change of its status.
LEMMA AbstractMove ==
    ASSUME NEW from, NEW to, job.status = from, job'.status = to
    PROVE  Lifecycle!Move("import", from, to)
BY DEF Lifecycle!Move

LEMMA AbstractAsked ==
    ASSUME job'.asked = job.asked
    PROVE  UNCHANGED [j \in {"import"} |-> job.asked]
OBVIOUS

LEMMA ContractStep ==
    ASSUME TypeInv, RequestInv, JobInv, [Next]_vars
    PROVE  [Lifecycle!LifecycleNext]_(Lifecycle!lifecycleVars)
<1>0. job \in JobTypes
  BY DEF TypeInv, TypeOK, JobTypes
<1>1. JobChange
  BY JobChanges
<1>2. CASE job'.status = job.status /\ job'.asked = job.asked
  BY <1>2 DEF Lifecycle!lifecycleVars
<1>3. ASSUME Lifecycle!JobStep("import")
      PROVE  Lifecycle!LifecycleNext
  BY <1>3 DEF Lifecycle!LifecycleNext
<1>4. CASE job.status = "absent" /\ job' = [job EXCEPT !.status = "queued", !.held = TRUE]
  <2>1. Lifecycle!Move("import", "absent", "queued") /\ job'.asked = job.asked
    BY <1>0, <1>4, AbstractMove DEF JobTypes
  <2> QED
    BY <1>3, <2>1, AbstractAsked DEF Lifecycle!JobStep, Lifecycle!Create
<1>5. CASE job.status = "queued" /\ job' = [job EXCEPT !.asked = TRUE, !.status = "cancelled"]
  <2>1. Lifecycle!Move("import", "queued", "cancelled") /\ job'.asked = TRUE
    BY <1>0, <1>5, AbstractMove DEF JobTypes
  <2> QED
    BY <1>3, <2>1 DEF Lifecycle!JobStep, Lifecycle!CancelQueued
<1>6. CASE job.status = "running" /\ job' = [job EXCEPT !.asked = TRUE]
  <2>1. job'.status = job.status /\ job'.asked = TRUE
    BY <1>0, <1>6 DEF JobTypes
  <2> QED
    BY <1>3, <1>6, <2>1 DEF Lifecycle!JobStep, Lifecycle!AskRunning
<1>7. CASE /\ job.status = "queued" /\ ~job.asked
           /\ \E w \in Workers :
                job' = [job EXCEPT !.status = "running", !.attempt = @ + 1, !.holder = w]
  <2>1. Lifecycle!Move("import", "queued", "running") /\ job'.asked = job.asked
    BY <1>0, <1>7, AbstractMove DEF JobTypes
  <2> QED
    BY <1>3, <1>7, <2>1, AbstractAsked DEF Lifecycle!JobStep, Lifecycle!Start
<1>8. ASSUME job.status = "running", NEW s \in {"queued", "failed", "succeeded", "cancelled"},
             s = "succeeded" => ~job.asked, s = "cancelled" => job.asked,
             job' = [job EXCEPT !.holder = NoWorker, !.status = s]
      PROVE  Lifecycle!LifecycleNext
  <2>1. Lifecycle!Move("import", "running", s) /\ job'.asked = job.asked
    BY <1>0, <1>8, AbstractMove DEF JobTypes
  <2> QED
    BY <1>3, <1>8, <2>1, AbstractAsked DEF Lifecycle!JobStep, Lifecycle!Requeue, Lifecycle!GiveUp,
                                           Lifecycle!Succeed, Lifecycle!CancelRunning
<1>9. CASE job.status = "failed" /\ job' = [job EXCEPT !.status = "queued", !.held = FALSE]
  <2>1. Lifecycle!Move("import", "failed", "queued") /\ job'.asked = job.asked
    BY <1>0, <1>9, AbstractMove DEF JobTypes
  <2> QED
    BY <1>3, <2>1, AbstractAsked DEF Lifecycle!JobStep, Lifecycle!Requeue
<1>10. CASE job' = job \/ job' = [job EXCEPT !.held = FALSE]
  BY <1>0, <1>2, <1>10 DEF JobTypes
<1> QED
  BY <1>1, <1>4, <1>5, <1>6, <1>7, <1>8, <1>9, <1>10 DEF JobChange

\* Whatever requests, workers and failures do to the import's job, it lives as
\* JobLifecycle promises; PlatformJobs shows that the jobs' own code does too.
THEOREM JobLivesItsLife == Spec => JobContract
<1>1. Init => Lifecycle!LifecycleInit
  BY DEF Init, Lifecycle!LifecycleInit
<1>2. TypeInv /\ RequestInv /\ JobInv /\ [Next]_vars
        => [Lifecycle!LifecycleNext]_(Lifecycle!lifecycleVars)
  BY ContractStep
<1> QED
  BY <1>1, <1>2, JobInvariant, PTL DEF Spec, JobContract, Lifecycle!LifecycleSpec

-----------------------------------------------------------------------------
(* Compensation.  One request at a time compensates, and whatever the      *)
(* import left and some record shows is still due for it.                  *)

RecordTypes == {"none", "pending", "compensating", "failed", "compensated"}

InComp(c) == req[c].pc \in {"records", "next", "undoing", "restoring", "undone", "refused"}

\* What no record shows, or only one of a run that was late.
Loose(x) == x \in orphans \cup late \/ InHand(x)

\* What the compensation has to undo: it knows of no membership.
Left(x) == Stands(x) /\ ~Loose(x) /\ Kind[x[1]] # "member"

\* The record is in the work list, or it counts as failed, or is in hand.
Due(c, x) ==
    /\ req[c].pc = "undone" => x # req[c].current
    /\ \/ Outstanding(x) /\ (req[c].pc = "records" \/ x \in req[c].todo \/ ~req[c].clean)
       \/ x = req[c].current /\ req[c].pc \in {"undoing", "restoring", "refused"}

Compensating(c) ==
    /\ imp.status = "compensating" /\ imp.version = req[c].version + 1
    /\ \A x \in Resources : Left(x) => Due(c, x)

CompInv ==
    /\ \A c \in Clients : InComp(c) => Compensating(c)
    /\ \A c, d \in Clients : InComp(c) /\ InComp(d) => c = d
    /\ \A x \in Resources : imp.status = "compensated" => ~Left(x)
    /\ \A x \in Resources : imp.status # "compensating" /\ Left(x) => Outstanding(x)

CompStep(c) ==
    \/ StartCompensation(c)
    \/ ReadRecords(c)
    \/ ClaimRecord(c)
    \/ CompensateEntity(c)
    \/ Restore(c)
    \/ RecordUndo(c)
    \/ FinishCompensation(c)

\* Which steps change what.
LEMMA RunsMove ==
    ASSUME [Next]_vars
    PROVE  \/ UNCHANGED <<run, orphans, late>>
           \/ \E w \in Workers : WorkerStep(w) \/ RunFails(w) \/ CrashRun(w)
<1>1. ASSUME NEW c \in Clients, Begin(c) \/ RequestStep(c) \/ RequestFails(c) \/ CrashRequest(c)
      PROVE  UNCHANGED <<run, orphans, late>>
  BY <1>1 DEF historyVars, Begin, RequestFails, CrashRequest, RequestStep, StartValidation,
              FinishValidation, ClaimKey, KeyTaken, StartExecution, MarkRunningAndLink, Activate,
              CompleteKey, AskJob, CancelImport, StartCompensation, ReadRecords, ClaimRecord,
              CompensateEntity, Restore, RecordUndo, FinishCompensation
<1>2. CASE RecoverJob \/ LoseLease \/ RetryJob \/ HoldExpires \/ UploadAgain
           \/ (\E x \in Resources : Edit(x)) \/ UNCHANGED vars
  BY <1>2 DEF vars, historyVars, RecoverJob, LoseLease, RetryJob, HoldExpires, Edit, UploadAgain
<1> QED
  BY <1>1, <1>2 DEF Next

LEMMA EntitiesMove ==
    ASSUME [Next]_vars
    PROVE  \/ entity' = entity
           \/ \E w \in Workers : ApplyRow(w) \/ AddMember(w)
           \/ \E c \in Clients : CompensateEntity(c) \/ Restore(c)
           \/ \E x \in Resources : Edit(x)
BY ZenonT(60) DEF Next, vars, Begin, RequestFails, CrashRequest, RequestStep, StartValidation,
                  FinishValidation, ClaimKey, KeyTaken, StartExecution, MarkRunningAndLink,
                  Activate, CompleteKey, AskJob, CancelImport, StartCompensation, ReadRecords,
                  ClaimRecord, RecordUndo, FinishCompensation, WorkerStep, ClaimJob, Load,
                  ResumeFrom, CheckRow, LeaveRow, RefuseRow, RecordRow, SaveCheckpoint, Beat,
                  FinishRun, CompleteImport, Report, RefuseResult, RunFails, CrashRun, RecoverJob,
                  LoseLease, RetryJob, HoldExpires, UploadAgain

LEMMA RecordsMove ==
    ASSUME [Next]_vars
    PROVE  \/ records' = records
           \/ \E w \in Workers : RecordRow(w)
           \/ \E c \in Clients : ClaimRecord(c) \/ RecordUndo(c)
BY ZenonT(60) DEF Next, vars, Begin, RequestFails, CrashRequest, RequestStep, StartValidation,
                  FinishValidation, ClaimKey, KeyTaken, StartExecution, MarkRunningAndLink,
                  Activate, CompleteKey, AskJob, CancelImport, StartCompensation, ReadRecords,
                  CompensateEntity, Restore, FinishCompensation, WorkerStep, ClaimJob, Load,
                  ResumeFrom, CheckRow, ApplyRow, AddMember, LeaveRow, RefuseRow, SaveCheckpoint,
                  Beat, FinishRun, CompleteImport, Report, RefuseResult, RunFails, CrashRun,
                  RecoverJob, LoseLease, RetryJob, HoldExpires, Edit, UploadAgain

\* What is loose stays loose, unless it is recorded while the import runs.
LEMMA LooseStays ==
    ASSUME TypeInv, [Next]_vars, NEW x \in Resources, Loose(x)
    PROVE  Loose(x)' \/ (imp.status = "running" /\ imp' = imp /\ records'[x] = "pending")
<1>0. run \in [Workers -> RunTypes] /\ records \in [Resources -> RecordTypes]
  BY DEF TypeInv, TypeOK, RunTypes, RecordTypes
<1>1. CASE UNCHANGED <<run, orphans, late>>
  BY <1>1 DEF Loose, InHand
<1>2. ASSUME NEW w \in Workers, WorkerStep(w) \/ RunFails(w) \/ CrashRun(w)
      PROVE  Loose(x)' \/ (imp.status = "running" /\ imp' = imp /\ records'[x] = "pending")
  <2>1. orphans \subseteq orphans' /\ late \subseteq late'
    BY <1>2 DEF WorkerStep, historyVars, ClaimJob, Load, ResumeFrom, CheckRow, ApplyRow,
                AddMember, LeaveRow, RefuseRow, RecordRow, SaveCheckpoint, Beat, FinishRun,
                CompleteImport, Report, RefuseResult, RunFails, CrashRun, Lost
  <2>2. CASE x \in orphans \cup late
    BY <2>1, <2>2 DEF Loose
  <2>3. ASSUME NEW v \in Workers, run[v].pc = "recording", run[v].made = x
        PROVE  Loose(x)' \/ (imp.status = "running" /\ imp' = imp /\ records'[x] = "pending")
    <3>1. CASE v # w
      BY <1>2, <2>3, <3>1, OtherRuns DEF Loose, InHand
    <3>2. CASE v = w
      <4>1. RecordRow(w) \/ RunFails(w) \/ CrashRun(w)
        BY <1>2, <2>3, <3>2 DEF WorkerStep, ClaimJob, Load, ResumeFrom, CheckRow, ApplyRow,
                                AddMember, LeaveRow, RefuseRow, SaveCheckpoint, Beat, FinishRun,
                                CompleteImport, Report, RefuseResult
      <4>2. CASE RecordRow(w)
        <5>1. records'[x] = "pending" /\ imp' = imp
          BY <1>0, <2>3, <3>2, <4>2 DEF RecordRow
        <5>2. imp.status # "running" => x \in late'
          BY <2>3, <3>2, <4>2 DEF RecordRow
        <5> QED
          BY <5>1, <5>2 DEF Loose
      <4>3. CASE RunFails(w) \/ CrashRun(w)
        <5>1. x \in orphans'
          BY <2>3, <3>2, <4>3 DEF RunFails, CrashRun, Lost
        <5> QED
          BY <5>1 DEF Loose
      <4> QED
        BY <4>1, <4>2, <4>3
    <3> QED
      BY <3>1, <3>2
  <2> QED
    BY <2>2, <2>3 DEF Loose, InHand
<1> QED
  BY <1>1, <1>2, RunsMove

\* Members are added to the groups of rows that are memberships.
LEMMA MemberAdded ==
    ASSUME NEW w \in Workers, AddMember(w)
    PROVE  /\ entity' = [entity EXCEPT ![Resource(run[w].row, run[w].attempt)] = "made"]
           /\ Resource(run[w].row, run[w].attempt)[1] = run[w].row
           /\ Kind[run[w].row] = "member"
BY DEF AddMember, Resource

\* Only a run makes something stand, and it is loose until it is recorded.
LEMMA StandsByRun ==
    ASSUME TypeInv, [Next]_vars, NEW x \in Resources, Stands(x)', Kind[x[1]] # "member"
    PROVE  Stands(x) \/ Loose(x)'
<1>0. /\ run \in [Workers -> RunTypes]
      /\ entity \in [Resources -> {"untouched", "made", "edited", "undone"}]
  BY DEF TypeInv, TypeOK, RunTypes
<1>1. CASE entity' = entity
  BY <1>1 DEF Stands
<1>2. ASSUME NEW w \in Workers, ApplyRow(w)
      PROVE  Stands(x) \/ Loose(x)'
  <2> DEFINE y == Resource(run[w].row, run[w].attempt)
  <2>1. /\ entity' = [entity EXCEPT ![y] = "made"]
        /\ run' = [run EXCEPT ![w].pc = "recording", ![w].made = y]
    BY <1>2 DEF ApplyRow
  <2> HIDE DEF y
  <2>2. run'[w].pc = "recording" /\ run'[w].made = y
    BY <1>0, <2>1 DEF RunTypes
  <2>3. CASE x = y
    BY <2>2, <2>3 DEF Loose, InHand
  <2>4. CASE x # y
    BY <1>0, <2>1, <2>4 DEF Stands
  <2> QED
    BY <2>3, <2>4
<1>3. ASSUME NEW c \in Clients, CompensateEntity(c) \/ Restore(c)
      PROVE  Stands(x)
  BY <1>0, <1>3 DEF CompensateEntity, Restore, Stands
<1>4. ASSUME NEW y \in Resources, Edit(y)
      PROVE  Stands(x)
  BY <1>0, <1>4 DEF Edit, Stands
<1>5. ASSUME NEW w \in Workers, AddMember(w)
      PROVE  Stands(x)
  BY <1>0, <1>5, MemberAdded DEF Stands
<1> QED
  BY <1>1, <1>2, <1>3, <1>4, <1>5, EntitiesMove

\* So there is nothing new to undo but what a run records in time.
LEMMA LeftSteps ==
    ASSUME TypeInv, [Next]_vars, NEW x \in Resources, Left(x)'
    PROVE  Left(x) \/ (imp.status = "running" /\ imp' = imp /\ records'[x] = "pending")
BY LooseStays, StandsByRun DEF Left

LEMMA CompRequests ==
    ASSUME TypeInv, [Next]_vars, ~\E c \in Clients : CompStep(c), NEW c \in Clients, InComp(c)'
    PROVE  req'[c] = req[c]
<1>0. req \in [Clients -> ReqTypes]
  BY DEF TypeInv, TypeOK, ReqTypes
<1>1. ASSUME EndRequest(c) \/ Abandon(c)
      PROVE  FALSE
  BY <1>0, <1>1 DEF EndRequest, Abandon, NoRequest, InComp
<1>2. ASSUME NEW pc, Goto(c, pc)
      PROVE  req'[c].pc = pc
  BY <1>0, <1>2 DEF Goto, ReqTypes
<1>3. CASE Begin(c)
  <2>1. PICK op \in Ops, k \in Keys \cup {NoKey} :
          req' = [req EXCEPT ![c] =
              [NoRequest EXCEPT !.pc = "read", !.op = op, !.key = k, !.status = imp.status,
                                !.version = imp.version, !.linked = imp.linked]]
    BY <1>3 DEF Begin
  <2>2. req'[c].pc = "read"
    BY <1>0, <2>1, NoRequestType DEF ReqTypes
  <2> QED
    BY <2>2 DEF InComp
<1>4. CASE RequestStep(c) \/ RequestFails(c) \/ CrashRequest(c)
  <2>1. \/ EndRequest(c) \/ Abandon(c)
        \/ \E pc \in {"planning", "claimed", "submitted", "activating", "finishing",
                      "cancelling"} : Goto(c, pc)
    BY <1>4 DEF RequestStep, CompStep, StartValidation, FinishValidation, ClaimKey, KeyTaken,
                StartExecution, MarkRunningAndLink, Activate, CompleteKey, AskJob, CancelImport,
                RequestFails, CrashRequest
  <2> QED
    BY <1>1, <1>2, <2>1 DEF InComp
<1>5. CASE req' = req
  BY <1>5
<1>6. ASSUME NEW d \in Clients, d # c,
             RequestStep(d) \/ Begin(d) \/ RequestFails(d) \/ CrashRequest(d)
      PROVE  req'[c] = req[c]
  BY <1>0, <1>6, OtherRequests
<1> QED
  BY <1>3, <1>4, <1>5, <1>6, RequestsMove

LEMMA ImportOutsideComp ==
    ASSUME TypeInv, RequestInv, [Next]_vars, ~\E c \in Clients : CompStep(c)
    PROVE  \/ imp' = imp
           \/ imp.status # "compensating" /\ imp'.status \notin {"compensating", "compensated"}
<1>0. imp \in ImpTypes /\ Moves
  BY ImportMoves DEF TypeInv, TypeOK, ImpTypes
<1>1. \/ imp' = imp
      \/ \E to \in {"validating", "validated", "validation_failed", "cancelled", "completed"} :
           SetStatus(to)
      \/ imp'.status = "running"
  <2>1. ASSUME NEW c \in Clients, Begin(c) \/ RequestStep(c) \/ RequestFails(c) \/ CrashRequest(c)
        PROVE  \/ imp' = imp
               \/ \E to \in {"validating", "validated", "validation_failed", "cancelled"} :
                    SetStatus(to)
               \/ imp' = [status |-> "running", version |-> imp.version + 1, linked |-> TRUE]
    BY <2>1 DEF Begin, RequestFails, CrashRequest, RequestStep, CompStep, StartValidation,
                FinishValidation, ClaimKey, KeyTaken, StartExecution, MarkRunningAndLink,
                Activate, CompleteKey, AskJob, CancelImport
  <2>2. ASSUME NEW w \in Workers, WorkerStep(w) \/ RunFails(w) \/ CrashRun(w)
        PROVE  imp' = imp \/ SetStatus("completed")
    BY <2>2 DEF WorkerStep, ClaimJob, Load, ResumeFrom, CheckRow, ApplyRow, AddMember, LeaveRow,
                RefuseRow, RecordRow, SaveCheckpoint, Beat, FinishRun, CompleteImport, Report,
                RefuseResult, RunFails, CrashRun
  <2>3. CASE RecoverJob \/ LoseLease \/ RetryJob \/ HoldExpires \/ UploadAgain
             \/ (\E x \in Resources : Edit(x)) \/ UNCHANGED vars
    BY <2>3 DEF vars, RecoverJob, LoseLease, RetryJob, HoldExpires, Edit, UploadAgain
  <2> QED
    BY <2>1, <2>2, <2>3 DEF Next
<1>2. \/ imp' = imp
      \/ imp'.status \in {"validating", "validated", "validation_failed", "cancelled", "completed",
                          "running"}
  BY <1>0, <1>1, SetStatusType DEF Status
<1> QED
  BY <1>0, <1>2, Table DEF Moves

\* Steps that leave the compensations alone.
LEMMA CompFrame ==
    ASSUME CompInv, imp' = imp,
           \A d \in Clients : InComp(d)' => req'[d] = req[d],
           \A x \in Resources : Left(x)' => \/ Left(x)
                                            \/ imp.status = "running" /\ Outstanding(x)',
           \A x \in Resources : Outstanding(x) => Outstanding(x)'
    PROVE  CompInv'
<1>1. ASSUME NEW d \in Clients, InComp(d)'
      PROVE  InComp(d) /\ Compensating(d)'
  <2>1. req'[d] = req[d] /\ InComp(d)
    BY <1>1 DEF InComp
  <2>2. Compensating(d)
    BY <2>1 DEF CompInv
  <2> QED
    BY <2>1, <2>2 DEF Compensating, Due
<1>2. \A d, e \in Clients : InComp(d)' /\ InComp(e)' => d = e
  BY <1>1 DEF CompInv
<1>3. \A x \in Resources : imp.status = "compensated" => ~Left(x)'
  BY DEF CompInv
<1>4. \A x \in Resources : imp.status # "compensating" /\ Left(x)' => Outstanding(x)'
  BY DEF CompInv
<1> QED
  BY <1>1, <1>2, <1>3, <1>4 DEF CompInv

LEMMA CompQuiet ==
    ASSUME TypeInv, RequestInv, CompInv, [Next]_vars, ~\E c \in Clients : CompStep(c)
    PROVE  CompInv'
<1>0. records \in [Resources -> RecordTypes]
  BY DEF TypeInv, TypeOK, RecordTypes
<1>1. \A x \in Resources : Outstanding(x) => Outstanding(x)'
  <2>1. records' = records \/ \E w \in Workers : RecordRow(w)
    BY RecordsMove DEF CompStep
  <2>2. ASSUME NEW w \in Workers, RecordRow(w)
        PROVE  \A x \in Resources : Outstanding(x) => Outstanding(x)'
    BY <1>0, <2>2 DEF RecordRow, Outstanding
  <2> QED
    BY <2>1, <2>2 DEF Outstanding
<1>2. \A x \in Resources : Left(x)' => \/ Left(x)
                                       \/ /\ imp.status = "running" /\ imp' = imp
                                          /\ Outstanding(x)'
  BY LeftSteps DEF Outstanding
<1>3. \A d \in Clients : InComp(d)' => req'[d] = req[d]
  BY CompRequests
<1>4. CASE imp' = imp
  BY <1>1, <1>2, <1>3, <1>4, CompFrame
<1>5. CASE imp' # imp
  <2>1. imp.status # "compensating" /\ imp'.status \notin {"compensating", "compensated"}
    BY <1>5, ImportOutsideComp
  <2>2. \A d \in Clients : ~InComp(d)'
    BY <1>3, <2>1 DEF CompInv, Compensating, InComp
  <2>3. \A x \in Resources : Left(x)' => Left(x) /\ Outstanding(x)'
    BY <1>1, <1>2, <1>5, <2>1 DEF CompInv
  <2> QED
    BY <2>1, <2>2, <2>3 DEF CompInv
<1> QED
  BY <1>4, <1>5

\* The request that compensates goes on.
LEMMA CompOwn ==
    ASSUME CompInv, NEW c \in Clients, InComp(c), imp' = imp, InComp(c)',
           req'[c].version = req[c].version,
           \A d \in Clients : d # c => req'[d] = req[d],
           \A x \in Resources : Left(x)' => Due(c, x)'
    PROVE  CompInv'
<1>1. Compensating(c) /\ \A d \in Clients : InComp(d) => d = c
  BY DEF CompInv
<1>2. \A d \in Clients : InComp(d)' => d = c
  BY <1>1 DEF InComp
<1>3. Compensating(c)'
  BY <1>1 DEF Compensating
<1> QED
  BY <1>1, <1>2, <1>3 DEF CompInv, Compensating

LEMMA CompStepInv ==
    ASSUME TypeInv, RequestInv, CompInv, NEW c \in Clients, CompStep(c)
    PROVE  CompInv'
<1>0. /\ req \in [Clients -> ReqTypes] /\ records \in [Resources -> RecordTypes]
      /\ imp \in ImpTypes
      /\ entity \in [Resources -> {"untouched", "made", "edited", "undone"}]
  BY DEF TypeInv, TypeOK, ReqTypes, RecordTypes, ImpTypes
<1>1. \A d \in Clients : d # c => req'[d] = req[d]
  BY <1>0, OtherRequests DEF CompStep, RequestStep
<1>2. \A x \in Resources : Loose(x)' <=> Loose(x)
  BY DEF CompStep, StartCompensation, ReadRecords, ClaimRecord, CompensateEntity, Restore,
         RecordUndo, FinishCompensation, historyVars, Loose, InHand
<1>3. InComp(c) => /\ Compensating(c) /\ imp.status = "compensating"
                   /\ \A d \in Clients : InComp(d) => d = c
                   /\ \A x \in Resources : Left(x) => Due(c, x)
  BY DEF CompInv, Compensating
<1>4. CASE StartCompensation(c)
  <2>1. entity' = entity /\ records' = records
    BY <1>4 DEF StartCompensation
  <2>2. \A x \in Resources : /\ Left(x)' => Left(x)
                             /\ Outstanding(x)' <=> Outstanding(x)
    BY <1>2, <2>1 DEF Left, Stands, Outstanding
  <2>3. CASE Abandon(c) /\ imp' = imp
    <3>1. ~InComp(c)'
      BY <1>0, <2>3 DEF Abandon, EndRequest, NoRequest, InComp
    <3>2. \A d \in Clients : InComp(d)' => req'[d] = req[d]
      BY <1>1, <3>1
    <3> QED
      BY <2>2, <2>3, <3>2, CompFrame
  <2>4. CASE /\ "compensating" \in CanTransition[req[c].status]
             /\ Matches(req[c].status, req[c].version)
             /\ SetStatus("compensating") /\ Goto(c, "records")
    <3>1. imp.status \in Status /\ imp.status \notin {"compensating", "compensated"}
      BY <1>0, <2>4, Table DEF Matches, ImpTypes
    <3>2. imp'.status = "compensating" /\ imp'.version = req[c].version + 1
      BY <1>0, <2>4 DEF SetStatus, Matches, ImpTypes
    <3>3. req'[c].pc = "records" /\ req'[c].version = req[c].version
      BY <1>0, <2>4 DEF Goto, ReqTypes
    <3>4. \A d \in Clients : InComp(d)' => d = c
      BY <1>1, <3>1 DEF CompInv, Compensating, InComp
    <3>5. \A x \in Resources : Left(x)' => Outstanding(x)'
      BY <2>2, <3>1 DEF CompInv
    <3>6. Compensating(c)'
      BY <3>2, <3>3, <3>5 DEF Compensating, Due
    <3> QED
      BY <3>2, <3>4, <3>6 DEF CompInv
  <2> QED
    BY <1>4, <2>3, <2>4 DEF StartCompensation
<1>5. CASE ReadRecords(c)
  <2>1. /\ entity' = entity /\ records' = records /\ imp' = imp /\ req[c].pc = "records"
        /\ req' = [req EXCEPT ![c].pc = "next", ![c].todo = {x \in Resources : Outstanding(x)}]
    BY <1>5 DEF ReadRecords
  <2>2. /\ req'[c].pc = "next" /\ req'[c].version = req[c].version
        /\ req'[c].todo = {x \in Resources : Outstanding(x)}
    BY <1>0, <2>1 DEF ReqTypes
  <2>3. \A x \in Resources : Left(x)' => Outstanding(x)
    BY <1>2, <1>3, <2>1 DEF Left, Stands, Due, InComp
  <2>4. \A x \in Resources : Left(x)' => Due(c, x)'
    BY <2>1, <2>2, <2>3 DEF Due, Outstanding
  <2>5. InComp(c) /\ InComp(c)'
    BY <2>1, <2>2 DEF InComp
  <2> QED
    BY <1>1, <2>1, <2>2, <2>4, <2>5, CompOwn
<1>6. CASE ClaimRecord(c)
  <2>1. entity' = entity /\ imp' = imp /\ req[c].pc = "next"
    BY <1>6 DEF ClaimRecord
  <2>2. PICK y \in req[c].todo :
          IF Outstanding(y)
          THEN /\ records' = [records EXCEPT ![y] = "compensating"]
               /\ req' = [req EXCEPT ![c].pc = "undoing", ![c].current = y,
                                     ![c].todo = req[c].todo \ {y}]
          ELSE req' = [req EXCEPT ![c].todo = req[c].todo \ {y}] /\ records' = records
    BY <1>6 DEF ClaimRecord
  <2>3. InComp(c)
    BY <2>1 DEF InComp
  <2>4. ASSUME NEW x \in Resources, Left(x)'
        PROVE  Outstanding(x) /\ (x \in req[c].todo \/ ~req[c].clean)
    BY <1>2, <1>3, <2>1, <2>3, <2>4 DEF Left, Stands, Due
  <2>5. CASE Outstanding(y)
    <3>1. /\ req'[c].pc = "undoing" /\ req'[c].current = y /\ req'[c].clean = req[c].clean
          /\ req'[c].todo = req[c].todo \ {y} /\ req'[c].version = req[c].version
      BY <1>0, <2>2, <2>5 DEF ReqTypes
    <3>2. \A x \in Resources : x # y => records'[x] = records[x]
      BY <1>0, <2>2, <2>5
    <3>3. \A x \in Resources : Left(x)' => Due(c, x)'
      BY <2>4, <3>1, <3>2 DEF Due, Outstanding
    <3>4. InComp(c)'
      BY <3>1 DEF InComp
    <3> QED
      BY <1>1, <2>1, <2>3, <3>1, <3>3, <3>4, CompOwn
  <2>6. CASE ~Outstanding(y)
    <3>1. /\ req'[c].pc = "next" /\ req'[c].clean = req[c].clean
          /\ req'[c].todo = req[c].todo \ {y} /\ req'[c].version = req[c].version
      BY <1>0, <2>1, <2>2, <2>6 DEF ReqTypes
    <3>2. \A x \in Resources : Left(x)' => Due(c, x)'
      BY <2>2, <2>4, <2>6, <3>1 DEF Due, Outstanding
    <3>3. InComp(c)'
      BY <3>1 DEF InComp
    <3> QED
      BY <1>1, <2>1, <2>3, <3>1, <3>2, <3>3, CompOwn
  <2> QED
    BY <2>5, <2>6
<1>7. CASE CompensateEntity(c) \/ Restore(c)
  <2>1. /\ imp' = imp /\ records' = records /\ req[c].pc \in {"undoing", "restoring"}
        /\ \/ entity' = [entity EXCEPT ![req[c].current] = "undone"] /\ Goto(c, "undone")
           \/ entity' = entity /\ Goto(c, "refused")
           \/ entity' = entity /\ Goto(c, "restoring")
    BY <1>7 DEF CompensateEntity, Restore
  <2>2. PICK pc \in {"undone", "refused", "restoring"} :
          /\ Goto(c, pc)
          /\ IF pc = "undone" THEN entity' = [entity EXCEPT ![req[c].current] = "undone"]
                              ELSE entity' = entity
    BY <2>1
  <2>3. /\ req'[c].pc = pc /\ req'[c].current = req[c].current /\ req'[c].clean = req[c].clean
        /\ req'[c].todo = req[c].todo /\ req'[c].version = req[c].version
    BY <1>0, <2>2 DEF Goto, ReqTypes
  <2>4. ASSUME NEW x \in Resources, Left(x)'
        PROVE  Left(x) /\ (pc = "undone" => x # req[c].current)
    BY <1>0, <1>2, <2>2, <2>4 DEF Left, Stands
  <2>5. InComp(c) /\ InComp(c)'
    BY <2>1, <2>3 DEF InComp
  <2>6. \A x \in Resources : Left(x)' => Due(c, x)'
    BY <1>3, <2>1, <2>3, <2>4, <2>5 DEF Due, Outstanding
  <2> QED
    BY <1>1, <2>1, <2>3, <2>5, <2>6, CompOwn
<1>8. CASE RecordUndo(c)
  <2> DEFINE r == IF req[c].pc = "undone" THEN "compensated" ELSE "failed"
             ok == req[c].clean /\ req[c].pc = "undone"
  <2>1. /\ entity' = entity /\ imp' = imp /\ req[c].pc \in {"undone", "refused"}
        /\ records' = [records EXCEPT ![req[c].current] = r]
        /\ req' = [req EXCEPT ![c].pc = "next", ![c].current = NoResource, ![c].clean = ok]
    BY <1>8 DEF RecordUndo
  <2>2. ok \in BOOLEAN /\ (req[c].pc = "refused" => r = "failed" /\ ~ok) /\ (ok => req[c].clean)
    BY <2>1
  <2> HIDE DEF r, ok
  <2>3. /\ req'[c].pc = "next" /\ req'[c].todo = req[c].todo
        /\ req'[c].version = req[c].version /\ (req'[c].clean = ok)
    BY <1>0, <2>1, <2>2 DEF ReqTypes
  <2>4. InComp(c) /\ InComp(c)'
    BY <2>1, <2>3 DEF InComp
  <2>5. ASSUME NEW x \in Resources, Left(x)'
        PROVE  Due(c, x)'
    <3>1. Due(c, x)
      BY <1>2, <1>3, <2>1, <2>4, <2>5 DEF Left, Stands
    <3>2. CASE x = req[c].current /\ req[c].pc = "refused"
      <4>1. records'[x] = "failed" /\ ~req'[c].clean
        BY <1>0, <2>1, <2>2, <2>3, <3>2
      <4> QED
        BY <2>3, <4>1 DEF Due, Outstanding
    <3>3. CASE /\ Outstanding(x) /\ (x \in req[c].todo \/ ~req[c].clean)
               /\ ~(x = req[c].current /\ req[c].pc = "refused")
      <4>1. x # req[c].current => records'[x] = records[x]
        BY <1>0, <2>1
      <4>2. x # req[c].current
        BY <2>1, <3>1, <3>3 DEF Due
      <4> QED
        BY <2>2, <2>3, <3>3, <4>1, <4>2 DEF Due, Outstanding
    <3> QED
      BY <2>1, <3>1, <3>2, <3>3 DEF Due
  <2> QED
    BY <1>1, <2>1, <2>3, <2>4, <2>5, CompOwn
<1>9. CASE FinishCompensation(c)
  <2>1. /\ entity' = entity /\ records' = records /\ req[c].pc = "next" /\ req[c].todo = {}
        /\ imp.status = "compensating" /\ imp.version = req[c].version + 1
    BY <1>3, <1>9 DEF FinishCompensation, InComp, Compensating
  <2>2. /\ SetStatus(IF req[c].clean THEN "compensated" ELSE "compensation_failed")
        /\ Goto(c, "finishing")
    BY <1>9, <2>1 DEF FinishCompensation, Matches
  <2>3. imp'.status = IF req[c].clean THEN "compensated" ELSE "compensation_failed"
    BY <1>0, <2>2 DEF SetStatus, ImpTypes
  <2>4. req'[c].pc = "finishing"
    BY <1>0, <2>2 DEF Goto, ReqTypes
  <2>5. \A d \in Clients : ~InComp(d)'
    BY <1>1, <1>3, <2>1, <2>4 DEF InComp
  <2>6. \A x \in Resources : Left(x)' => Outstanding(x)' /\ ~req[c].clean
    BY <1>2, <1>3, <2>1 DEF Left, Stands, Due, Outstanding, InComp
  <2> QED
    BY <2>3, <2>5, <2>6 DEF CompInv
<1> QED
  BY <1>4, <1>5, <1>6, <1>7, <1>8, <1>9 DEF CompStep

LEMMA CompInvariant == Spec => [](TypeInv /\ RequestInv /\ CompInv)
<1>1. Init => CompInv
  BY DEF Init, CompInv, InComp, Left, Stands, NoRequest
<1>2. TypeInv /\ RequestInv /\ CompInv /\ [Next]_vars => CompInv'
  BY CompQuiet, CompStepInv
<1> QED
  BY <1>1, <1>2, TypeInit, TypeStep, RequestInvInit, RequestInvStep, PTL DEF Spec

\* An import that counts as compensated has left nothing behind but what no
\* record, or a record that came too late, shows (doCompensate), and the members
\* it added to groups, which Execute never records.
THEOREM CompensationIsClean == Spec => []CompensatedClean
<1>1. CompInv => CompensatedClean
  BY DEF CompInv, CompensatedClean, Left, Loose
<1> QED
  BY <1>1, CompInvariant, PTL

-----------------------------------------------------------------------------
(* Edits.                                                                  *)

\* What is about to be restored over an edit is loose.
EditInv ==
    /\ kept # {} => imp.status \in Over
    /\ EditKept
    /\ \A c \in Clients : req[c].pc = "restoring" /\ req[c].current \in kept => Loose(req[c].current)

LEMMA KeptMoves ==
    ASSUME [Next]_vars
    PROVE  kept' = kept \/ \E x \in Resources : Edit(x)
<1>1. ASSUME NEW c \in Clients, Begin(c) \/ RequestStep(c) \/ RequestFails(c) \/ CrashRequest(c)
      PROVE  kept' = kept
  BY <1>1 DEF historyVars, Begin, RequestFails, CrashRequest, RequestStep, StartValidation,
              FinishValidation, ClaimKey, KeyTaken, StartExecution, MarkRunningAndLink, Activate,
              CompleteKey, AskJob, CancelImport, StartCompensation, ReadRecords, ClaimRecord,
              CompensateEntity, Restore, RecordUndo, FinishCompensation
<1>2. ASSUME NEW w \in Workers, WorkerStep(w) \/ RunFails(w) \/ CrashRun(w)
      PROVE  kept' = kept
  BY <1>2 DEF WorkerStep, historyVars, ClaimJob, Load, ResumeFrom, CheckRow, ApplyRow, AddMember,
              LeaveRow, RefuseRow, RecordRow, SaveCheckpoint, Beat, FinishRun, CompleteImport,
              Report, RefuseResult, RunFails, CrashRun
<1>3. CASE RecoverJob \/ LoseLease \/ RetryJob \/ HoldExpires \/ UploadAgain \/ UNCHANGED vars
  BY <1>3 DEF vars, historyVars, RecoverJob, LoseLease, RetryJob, HoldExpires, UploadAgain
<1> QED
  BY <1>1, <1>2, <1>3 DEF Next

LEMMA EditInvStep ==
    ASSUME TypeInv, RequestInv, CompInv, EditInv, [Next]_vars
    PROVE  EditInv'
<1>0. /\ req \in [Clients -> ReqTypes] /\ run \in [Workers -> RunTypes] /\ imp \in ImpTypes
      /\ entity \in [Resources -> {"untouched", "made", "edited", "undone"}]
      /\ kept \subseteq Resources
  BY DEF TypeInv, TypeOK, ReqTypes, RunTypes, ImpTypes
<1>1. CASE kept' = kept
  <2>1. kept' # {} => imp'.status \in Over
    BY <1>1, OverStays DEF EditInv
  <2>2. ASSUME NEW x \in kept, Loose(x)
        PROVE  Loose(x)'
    BY <1>0, <2>2, LooseStays DEF EditInv, Over
  <2>3. ASSUME NEW x \in kept, Kind[x[1]] = "existing", entity[x] = "edited"
        PROVE  entity'[x] = "edited" \/ Loose(x)'
    <3>1. CASE Stands(x)' /\ entity'[x] # "edited"
      <4>1. ASSUME NEW w \in Workers, ApplyRow(w)
            PROVE  Loose(x)'
        <5> DEFINE y == Resource(run[w].row, run[w].attempt)
        <5>1. /\ entity' = [entity EXCEPT ![y] = "made"]
              /\ run' = [run EXCEPT ![w].pc = "recording", ![w].made = y]
          BY <4>1 DEF ApplyRow
        <5> HIDE DEF y
        <5>2. x = y /\ run'[w].pc = "recording" /\ run'[w].made = y
          BY <1>0, <2>3, <3>1, <5>1 DEF RunTypes
        <5> QED
          BY <5>2 DEF Loose, InHand
      <4>2. ~ \E c \in Clients : CompensateEntity(c) \/ Restore(c)
        BY <1>0, <2>3, <3>1 DEF CompensateEntity, Restore, Stands
      <4>3. ~ \E y \in Resources : Edit(y)
        BY <1>0, <2>3, <3>1 DEF Edit
      <4>4. ~ \E w \in Workers : AddMember(w)
        BY <1>0, <2>3, <3>1, MemberAdded
      <4> QED
        BY <2>3, <3>1, <4>1, <4>2, <4>3, <4>4, EntitiesMove
    <3>2. CASE ~Stands(x)'
      <4>1. entity'[x] # entity[x]
        BY <2>3, <3>2 DEF Stands
      <4>2. ~ \E w \in Workers : ApplyRow(w) \/ AddMember(w)
        BY <1>0, <2>3, <3>2, MemberAdded DEF ApplyRow, Stands
      <4>3. ~ \E y \in Resources : Edit(y)
        BY <1>0, <2>3, <3>2 DEF Edit, Stands
      <4>4. ~ \E c \in Clients : CompensateEntity(c)
        BY <1>0, <2>3, <4>1 DEF CompensateEntity, AsImported
      <4>5. PICK c \in Clients : Restore(c)
        BY <4>1, <4>2, <4>3, <4>4, EntitiesMove
      <4>6. req[c].pc = "restoring" /\ req[c].current = x
        BY <1>0, <4>1, <4>5 DEF Restore
      <4> QED
        BY <2>2, <4>6 DEF EditInv
    <3> QED
      BY <3>1, <3>2
  <2>4. EditKept'
    BY <1>1, <2>2, <2>3 DEF EditInv, EditKept, Loose
  <2>5. ASSUME NEW c \in Clients, req'[c].pc = "restoring", req'[c].current \in kept
        PROVE  Loose(req[c].current)' /\ req'[c].current = req[c].current
    <3>1. CASE req'[c] = req[c]
      BY <2>2, <2>5, <3>1 DEF EditInv
    <3>2. CASE req'[c] # req[c]
      <4>1. CompStep(c)
        <5>1. InComp(c)'
          BY <2>5 DEF InComp
        <5>2. PICK d \in Clients : CompStep(d)
          BY <3>2, <5>1, CompRequests
        <5> QED
          BY <1>0, <3>2, <5>2, OtherRequests DEF CompStep, RequestStep
      <4>2. CompensateEntity(c) /\ Goto(c, "restoring")
        <5>1. ASSUME NEW pc, Goto(c, pc)
              PROVE  req'[c].pc = pc
          BY <1>0, <5>1 DEF Goto, ReqTypes
        <5>2. EndRequest(c) => req'[c].pc = "idle"
          BY <1>0 DEF EndRequest, NoRequest
        <5>3. ~StartCompensation(c) /\ ~FinishCompensation(c) /\ ~Restore(c)
          BY <2>5, <5>1, <5>2 DEF StartCompensation, FinishCompensation, Restore, Abandon
        <5>4. ~ReadRecords(c) /\ ~RecordUndo(c)
          BY <1>0, <2>5 DEF ReadRecords, RecordUndo, ReqTypes
        <5>5. ~ClaimRecord(c)
          <6> SUFFICES ASSUME ClaimRecord(c) PROVE FALSE
            OBVIOUS
          <6>1. PICK x \in req[c].todo :
                  \/ req' = [req EXCEPT ![c].pc = "undoing", ![c].current = x,
                                        ![c].todo = req[c].todo \ {x}]
                  \/ req' = [req EXCEPT ![c].todo = req[c].todo \ {x}]
            BY DEF ClaimRecord
          <6>2. req[c].pc = "next"
            BY DEF ClaimRecord
          <6> QED
            BY <1>0, <2>5, <6>1, <6>2 DEF ReqTypes
        <5> QED
          BY <2>5, <4>1, <5>1, <5>3, <5>4, <5>5 DEF CompStep, CompensateEntity
      <4>3. req'[c].current = req[c].current
        BY <1>0, <4>2 DEF Goto, ReqTypes
      <4>4. Kind[req[c].current[1]] = "existing" /\ AsImported(req[c].current)
        <5>1. ASSUME NEW pc, Goto(c, pc)
              PROVE  pc = "restoring"
          BY <1>0, <2>5, <5>1 DEF Goto, ReqTypes
        <5> QED
          BY <4>2, <5>1 DEF CompensateEntity
      <4> QED
        BY <2>2, <2>5, <4>3, <4>4 DEF EditInv, EditKept, AsImported, Loose
    <3> QED
      BY <3>1, <3>2
  <2> QED
    BY <1>1, <2>1, <2>4, <2>5 DEF EditInv, Loose, InHand
<1>2. ASSUME NEW y \in Resources, Edit(y), kept' # kept
      PROVE  EditInv'
  <2>1. /\ imp.status = "completed" /\ kept' = kept \cup {y}
        /\ entity' = [entity EXCEPT ![y] = "edited"]
        /\ UNCHANGED <<imp, req, run, orphans, late>>
    BY <1>2 DEF Edit
  <2>2. kept' # {} => imp'.status \in Over
    BY <2>1 DEF Over
  <2>3. EditKept'
    BY <1>0, <2>1 DEF EditInv, EditKept, InHand
  <2>4. \A c \in Clients : req'[c].pc # "restoring"
    BY <2>1 DEF CompInv, Compensating, InComp
  <2> QED
    BY <2>2, <2>3, <2>4 DEF EditInv
<1> QED
  BY <1>1, <1>2, KeptMoves

\* doCompensate overwrites no edit of an entity that the import updated, except
\* where a late run had changed it again (safeFieldMismatch).
THEOREM EditsAreKept == Spec => []EditKept
<1>1. Init => EditInv
  BY DEF Init, EditInv, EditKept
<1>2. TypeInv /\ RequestInv /\ CompInv /\ EditInv /\ [Next]_vars => EditInv'
  BY EditInvStep
<1>3. EditInv => EditKept
  BY DEF EditInv
<1> QED
  BY <1>1, <1>2, <1>3, CompInvariant, PTL DEF Spec

-----------------------------------------------------------------------------
(* What was recorded or is being undone has been made.                     *)

Recordable(x) == entity[x] # "untouched" /\ Kind[x[1]] # "member"

MadeInv ==
    /\ \A x \in Resources : records[x] # "none" => Recordable(x)
    /\ \A c \in Clients :
         req[c].pc \in {"undoing", "restoring", "undone", "refused"} =>
             req[c].current \in Resources /\ Recordable(req[c].current)
    /\ \A w \in Workers :
         run[w].pc = "recording" => Recordable(run[w].made) /\ run[w].made[1] = run[w].row

\* Entities are touched by runs alone, and for good.
LEMMA Touched ==
    ASSUME TypeInv, MadeInv, [Next]_vars, NEW x \in Resources
    PROVE  \/ (entity'[x] = "untouched") <=> (entity[x] = "untouched")
           \/ \E w \in Workers : /\ ApplyRow(w) \/ AddMember(w)
                                /\ x = Resource(run[w].row, run[w].attempt)
<1>0. entity \in [Resources -> {"untouched", "made", "edited", "undone"}]
  BY DEF TypeInv, TypeOK
<1>1. ASSUME NEW w \in Workers, ApplyRow(w) \/ AddMember(w),
             x # Resource(run[w].row, run[w].attempt)
      PROVE  entity'[x] = entity[x]
  BY <1>0, <1>1, MemberAdded DEF ApplyRow
<1>2. ASSUME NEW c \in Clients, CompensateEntity(c) \/ Restore(c)
      PROVE  (entity'[x] = "untouched") <=> (entity[x] = "untouched")
  <2>1. req[c].pc \in {"undoing", "restoring"}
    BY <1>2 DEF CompensateEntity, Restore
  <2>2. entity' = entity \/ entity' = [entity EXCEPT ![req[c].current] = "undone"]
    BY <1>2 DEF CompensateEntity, Restore
  <2>3. entity[req[c].current] # "untouched"
    BY <2>1 DEF MadeInv, Recordable
  <2> QED
    BY <1>0, <2>2, <2>3
<1>3. ASSUME NEW y \in Resources, Edit(y)
      PROVE  (entity'[x] = "untouched") <=> (entity[x] = "untouched")
  BY <1>0, <1>3 DEF Edit
<1> QED
  BY <1>1, <1>2, <1>3, EntitiesMove

LEMMA StaysTouched ==
    ASSUME TypeInv, MadeInv, [Next]_vars, NEW x \in Resources, Recordable(x)
    PROVE  Recordable(x)'
<1>0. entity \in [Resources -> {"untouched", "made", "edited", "undone"}]
  BY DEF TypeInv, TypeOK
<1>1. ASSUME NEW w \in Workers, ApplyRow(w) \/ AddMember(w),
             x = Resource(run[w].row, run[w].attempt)
      PROVE  entity'[x] = "made"
  BY <1>0, <1>1, MemberAdded DEF ApplyRow
<1> QED
  BY <1>1, Touched DEF Recordable

LEMMA MadeRecords ==
    ASSUME TypeInv, MadeInv, [Next]_vars, NEW x \in Resources, records'[x] # "none"
    PROVE  Recordable(x)'
<1>0. records \in [Resources -> RecordTypes] /\ req \in [Clients -> ReqTypes]
  BY DEF TypeInv, TypeOK, RecordTypes, ReqTypes
<1>1. CASE records'[x] = records[x]
  BY <1>1, StaysTouched DEF MadeInv
<1>2. ASSUME NEW w \in Workers, RecordRow(w), records'[x] # records[x]
      PROVE  Recordable(x)
  <2>1. run[w].pc = "recording" /\ run[w].made = x
    BY <1>0, <1>2 DEF RecordRow
  <2> QED
    BY <2>1 DEF MadeInv
<1>3. ASSUME NEW c \in Clients, ClaimRecord(c), records'[x] # records[x]
      PROVE  Recordable(x)
  <2>1. Outstanding(x)
    BY <1>0, <1>3 DEF ClaimRecord
  <2> QED
    BY <2>1 DEF MadeInv, Outstanding
<1>4. ASSUME NEW c \in Clients, RecordUndo(c), records'[x] # records[x]
      PROVE  Recordable(x)
  <2>1. req[c].pc \in {"undone", "refused"} /\ req[c].current = x
    BY <1>0, <1>4 DEF RecordUndo
  <2> QED
    BY <2>1 DEF MadeInv
<1> QED
  BY <1>1, <1>2, <1>3, <1>4, RecordsMove, StaysTouched

LEMMA MadeRuns ==
    ASSUME TypeInv, MadeInv, [Next]_vars, NEW w \in Workers, run'[w].pc = "recording"
    PROVE  Recordable(run[w].made)' /\ run'[w].made[1] = run'[w].row
<1>0. /\ run \in [Workers -> RunTypes]
      /\ entity \in [Resources -> {"untouched", "made", "edited", "undone"}]
      /\ Shape(w)
  BY DEF TypeInv, TypeOK, RunTypes
<1>1. CASE run'[w] = run[w]
  BY <1>0, <1>1, StaysTouched DEF MadeInv, Shape
<1>2. CASE ApplyRow(w)
  <2> DEFINE y == Resource(run[w].row, run[w].attempt)
  <2>1. /\ entity' = [entity EXCEPT ![y] = "made"] /\ run[w].pc = "applying"
        /\ run' = [run EXCEPT ![w].pc = "recording", ![w].made = y]
    BY <1>2 DEF ApplyRow
  <2>2. y \in Resources /\ y[1] = run[w].row /\ Kind[y[1]] # "member"
    BY <1>0, <1>2, <2>1, ResourceInResources DEF ApplyRow, Shape, InRow, RunTypes, Resource
  <2> HIDE DEF y
  <2>3. run'[w].made = y /\ run'[w].row = run[w].row
    BY <1>0, <2>1 DEF RunTypes
  <2> QED
    BY <1>0, <2>1, <2>2, <2>3 DEF Recordable
<1>3. CASE (WorkerStep(w) /\ ~ApplyRow(w)) \/ RunFails(w) \/ CrashRun(w)
  <2>1. ASSUME NEW pc \in RunStates \ {"recording"}, RunTo(w, pc)
        PROVE  FALSE
    BY <1>0, <2>1 DEF RunTo, RunTypes
  <2>2. run[w].pc \in InRow => ~Advance(w) /\ ~EndRow(w)
    BY <1>0, AdvanceType, EndRowType DEF Shape
  <2>3. CASE \/ CheckRow(w) \/ AddMember(w) \/ LeaveRow(w) \/ RefuseRow(w) \/ RecordRow(w)
             \/ SaveCheckpoint(w) \/ Beat(w) \/ FinishRun(w) \/ CompleteImport(w)
    BY <2>1, <2>2, <2>3 DEF CheckRow, AddMember, LeaveRow, RefuseRow, RecordRow, SaveCheckpoint,
                            Beat, FinishRun, CompleteImport, RunStates, InRow
  <2>4. CASE \/ ClaimJob(w) \/ Load(w) \/ Report(w) \/ RefuseResult(w)
             \/ RunFails(w) \/ CrashRun(w)
    <3>1. CASE ClaimJob(w)
      <4>1. run'[w] = [NoRun EXCEPT !.pc = "loading", !.attempt = job.attempt + 1]
        BY <1>0, <3>1 DEF ClaimJob
      <4> QED
        BY <4>1 DEF NoRun
    <3>2. CASE Load(w) \/ RunFails(w)
      BY <1>0, <3>2 DEF Load, RunFails, RunTypes
    <3>3. CASE Report(w) \/ RefuseResult(w) \/ CrashRun(w)
      BY <1>0, <3>3 DEF Report, RefuseResult, CrashRun, NoRun
    <3> QED
      BY <2>4, <3>1, <3>2, <3>3
  <2>5. CASE ResumeFrom(w)
    BY <1>0, <2>5 DEF ResumeFrom, RunTypes
  <2> QED
    BY <1>3, <2>3, <2>4, <2>5 DEF WorkerStep
<1>4. \/ run'[w] = run[w]
      \/ WorkerStep(w) \/ RunFails(w) \/ CrashRun(w)
  BY RunsMove, OtherRuns
<1> QED
  BY <1>1, <1>2, <1>3, <1>4

LEMMA MadeRequests ==
    ASSUME TypeInv, MadeInv, [Next]_vars, NEW c \in Clients,
           req'[c].pc \in {"undoing", "restoring", "undone", "refused"}
    PROVE  req'[c].current \in Resources /\ Recordable(req[c].current)'
<1>0. req \in [Clients -> ReqTypes]
  BY DEF TypeInv, TypeOK, ReqTypes
<1>1. CASE req'[c] = req[c]
  BY <1>1, StaysTouched DEF MadeInv
<1>2. CASE req'[c] # req[c]
  <2>1. InComp(c)'
    BY DEF InComp
  <2>2. PICK d \in Clients : CompStep(d)
    BY <1>2, <2>1, CompRequests
  <2>3. CompStep(c)
    BY <1>0, <1>2, <2>2, OtherRequests DEF CompStep, RequestStep
  <2>4. ASSUME NEW pc, Goto(c, pc)
        PROVE  req'[c].pc = pc /\ req'[c].current = req[c].current
    BY <1>0, <2>4 DEF Goto, ReqTypes
  <2>5. EndRequest(c) => req'[c].pc = "idle"
    BY <1>0 DEF EndRequest, NoRequest
  <2>6. ~StartCompensation(c) /\ ~FinishCompensation(c)
    BY <2>4, <2>5 DEF StartCompensation, FinishCompensation, Abandon
  <2>7. ~ReadRecords(c) /\ ~RecordUndo(c)
    BY <1>0 DEF ReadRecords, RecordUndo, ReqTypes
  <2>8. CASE ClaimRecord(c)
    <3>1. PICK x \in req[c].todo :
            \/ /\ Outstanding(x)
               /\ req' = [req EXCEPT ![c].pc = "undoing", ![c].current = x,
                                     ![c].todo = req[c].todo \ {x}]
            \/ req' = [req EXCEPT ![c].todo = req[c].todo \ {x}]
      BY <2>8 DEF ClaimRecord
    <3>2. req[c].pc = "next" /\ req[c].todo \subseteq Resources
      BY <1>0, <2>8 DEF ClaimRecord, ReqTypes
    <3>3. Outstanding(x) /\ req'[c].current = x
      BY <1>0, <3>1, <3>2 DEF ReqTypes
    <3> QED
      BY <3>2, <3>3, StaysTouched DEF MadeInv, Outstanding
  <2>9. CASE CompensateEntity(c) \/ Restore(c)
    <3>1. /\ req[c].pc \in {"undoing", "restoring"}
          /\ \E pc \in {"undone", "refused", "restoring"} : Goto(c, pc)
      BY <2>9 DEF CompensateEntity, Restore
    <3>2. req'[c].current = req[c].current
      BY <2>4, <3>1
    <3> QED
      BY <3>1, <3>2, StaysTouched DEF MadeInv
  <2> QED
    BY <2>3, <2>6, <2>7, <2>8, <2>9 DEF CompStep
<1> QED
  BY <1>1, <1>2

LEMMA MadeInvStep ==
    ASSUME TypeInv, MadeInv, [Next]_vars
    PROVE  MadeInv'
BY MadeRecords, MadeRuns, MadeRequests DEF MadeInv

-----------------------------------------------------------------------------
(* Copies of a row.  The holder of the job, or the one that comes next, may *)
(* add one while the row has no record; so may each run that works on after *)
(* its lease was taken.                                                     *)

InReach(w, r) ==
    \/ run[w].pc \in {"loading", "resuming"}
    \/ run[w].pc \in {"checking", "applying"} /\ run[w].row <= r
    \/ run[w].pc \in {"recording", "checkpointing", "beating"} /\ run[w].row < r

Applying(w, r) == run[w].pc = "applying" /\ run[w].row = r
Recording(w, r) == run[w].pc = "recording" /\ run[w].row = r

CanAdd(w, r) == Applying(w, r) \/ (~Recorded(r) /\ InReach(w, r))

Latecomers(r) == {w \in Workers : ~Leased(w) /\ CanAdd(w, r)}

HolderCanAdd(r) ==
    \/ \E w \in Workers : Leased(w) /\ Applying(w, r)
    \/ ~Recorded(r) /\ ~\E w \in Workers : Leased(w) /\ Recording(w, r)

Ready(r) == IF HolderCanAdd(r) THEN 1 ELSE 0

CopiesOfRow(r) == Cardinality(Copies(r)) + Cardinality(Latecomers(r)) + Ready(r) <= 1 + broken

LEMMA CopiesFinite ==
    ASSUME NEW r
    PROVE  /\ IsFiniteSet(Copies(r)) /\ Cardinality(Copies(r)) \in Nat
           /\ IsFiniteSet(Copies(r)') /\ Cardinality(Copies(r)') \in Nat
<1>1. IsFiniteSet(Rows) /\ IsFiniteSet(0..MaxRuns)
  BY RowsAssumption, BoundsAssumption, FS_Interval DEF Rows, MaxRuns
<1>2. IsFiniteSet(Resources)
  BY <1>1, FS_Product DEF Resources
<1>3. Copies(r) \subseteq Resources /\ Copies(r)' \subseteq Resources
  BY DEF Copies
<1> QED
  BY <1>2, <1>3, FS_Subset, FS_CardinalityType

LEMMA LatecomersFinite ==
    ASSUME NEW r
    PROVE  /\ IsFiniteSet(Latecomers(r)) /\ Cardinality(Latecomers(r)) \in Nat
           /\ IsFiniteSet(Latecomers(r)') /\ Cardinality(Latecomers(r)') \in Nat
<1>1. Latecomers(r) \subseteq Workers /\ Latecomers(r)' \subseteq Workers
  BY DEF Latecomers
<1> QED
  BY <1>1, SetsAssumption, FS_Subset, FS_CardinalityType

LEMMA ReadyType ==
    ASSUME NEW r
    PROVE  Ready(r) \in 0..1 /\ Ready(r)' \in 0..1
BY DEF Ready

\* One element more.
LEMMA AddOne ==
    ASSUME NEW S, IsFiniteSet(S), NEW x
    PROVE  /\ IsFiniteSet(S \cup {x}) /\ Cardinality(S \cup {x}) \in Nat
           /\ Cardinality(S \cup {x}) <= Cardinality(S) + 1
<1>1. IsFiniteSet(S \cup {x}) /\ Cardinality(S) \in Nat /\ Cardinality(S \cup {x}) \in Nat
  BY FS_AddElement, FS_CardinalityType
<1>2. Cardinality(S \cup {x}) = Cardinality(S) \/ Cardinality(S \cup {x}) = Cardinality(S) + 1
  BY FS_AddElement
<1> QED
  BY <1>1, <1>2

\* The three ways in which a step may change the sum.
LEMMA NoMore ==
    ASSUME TypeInv, TypeInv', NEW r \in Rows, CopiesOfRow(r), Copies(r)' \subseteq Copies(r),
           Latecomers(r)' \subseteq Latecomers(r), HolderCanAdd(r)' => HolderCanAdd(r),
           broken' = broken
    PROVE  CopiesOfRow(r)'
<1>1. /\ Cardinality(Copies(r)') <= Cardinality(Copies(r))
      /\ Cardinality(Latecomers(r)') <= Cardinality(Latecomers(r))
  BY CopiesFinite, LatecomersFinite, FS_Subset
<1>2. Ready(r)' <= Ready(r)
  BY DEF Ready
<1>3. broken \in Nat
  BY DEF TypeInv, TypeOK
<1> QED
  BY <1>1, <1>2, <1>3, CopiesFinite, LatecomersFinite, ReadyType DEF CopiesOfRow

LEMMA OneCopyMore ==
    ASSUME TypeInv, TypeInv', NEW r \in Rows, CopiesOfRow(r), NEW x, NEW w \in Workers,
           Copies(r)' \subseteq Copies(r) \cup {x}, broken' = broken,
           \/ /\ w \in Latecomers(r) /\ Latecomers(r)' \subseteq Latecomers(r) \ {w}
              /\ HolderCanAdd(r)' => HolderCanAdd(r)
           \/ /\ Latecomers(r)' \subseteq Latecomers(r)
              /\ HolderCanAdd(r) /\ ~HolderCanAdd(r)'
    PROVE  CopiesOfRow(r)'
<1>1. Cardinality(Copies(r)') <= Cardinality(Copies(r)) + 1
  <2>1. /\ IsFiniteSet(Copies(r) \cup {x}) /\ Cardinality(Copies(r) \cup {x}) \in Nat
        /\ Cardinality(Copies(r) \cup {x}) <= Cardinality(Copies(r)) + 1
    BY CopiesFinite, AddOne
  <2>2. Cardinality(Copies(r)') <= Cardinality(Copies(r) \cup {x})
    BY <2>1, FS_Subset
  <2> QED
    BY <2>1, <2>2, CopiesFinite
<1>2. broken \in Nat
  BY DEF TypeInv, TypeOK
<1>3. CASE w \in Latecomers(r) /\ Latecomers(r)' \subseteq Latecomers(r) \ {w}
           /\ (HolderCanAdd(r)' => HolderCanAdd(r))
  <2>1. Cardinality(Latecomers(r)') <= Cardinality(Latecomers(r)) - 1
    <3>1. /\ IsFiniteSet(Latecomers(r) \ {w})
          /\ Cardinality(Latecomers(r) \ {w}) = Cardinality(Latecomers(r)) - 1
      BY <1>3, LatecomersFinite, FS_RemoveElement
    <3> QED
      BY <1>3, <3>1, FS_Subset
  <2>2. Ready(r)' <= Ready(r)
    BY <1>3 DEF Ready
  <2> QED
    BY <1>1, <1>2, <2>1, <2>2, CopiesFinite, LatecomersFinite, ReadyType DEF CopiesOfRow
<1>4. CASE Latecomers(r)' \subseteq Latecomers(r) /\ HolderCanAdd(r) /\ ~HolderCanAdd(r)'
  <2>1. Cardinality(Latecomers(r)') <= Cardinality(Latecomers(r))
    BY <1>4, LatecomersFinite, FS_Subset
  <2>2. Ready(r)' = 0 /\ Ready(r) = 1
    BY <1>4 DEF Ready
  <2> QED
    BY <1>1, <1>2, <2>1, <2>2, CopiesFinite, LatecomersFinite DEF CopiesOfRow
<1> QED
  BY <1>3, <1>4

\* A run is broken: it may add one to the latecomers, or leave its row to the
\* next run.
LEMMA OneMoreBroken ==
    ASSUME TypeInv, TypeInv', NEW r \in Rows, CopiesOfRow(r), NEW w \in Workers,
           Copies(r)' \subseteq Copies(r), broken' = broken + 1,
           \/ Latecomers(r)' \subseteq Latecomers(r)
           \/ /\ Latecomers(r)' \subseteq Latecomers(r) \cup {w}
              /\ HolderCanAdd(r)' => HolderCanAdd(r)
    PROVE  CopiesOfRow(r)'
<1>1. Cardinality(Copies(r)') <= Cardinality(Copies(r))
  BY CopiesFinite, FS_Subset
<1>2. broken \in Nat
  BY DEF TypeInv, TypeOK
<1>3. CASE Latecomers(r)' \subseteq Latecomers(r)
  <2>1. Cardinality(Latecomers(r)') <= Cardinality(Latecomers(r))
    BY <1>3, LatecomersFinite, FS_Subset
  <2> QED
    BY <1>1, <1>2, <2>1, CopiesFinite, LatecomersFinite, ReadyType DEF CopiesOfRow
<1>4. CASE Latecomers(r)' \subseteq Latecomers(r) \cup {w} /\ (HolderCanAdd(r)' => HolderCanAdd(r))
  <2>1. Cardinality(Latecomers(r)') <= Cardinality(Latecomers(r)) + 1
    <3>1. /\ IsFiniteSet(Latecomers(r) \cup {w})
          /\ Cardinality(Latecomers(r) \cup {w}) \in Nat
          /\ Cardinality(Latecomers(r) \cup {w}) <= Cardinality(Latecomers(r)) + 1
      BY LatecomersFinite, AddOne
    <3>2. Cardinality(Latecomers(r)') <= Cardinality(Latecomers(r) \cup {w})
      BY <1>4, <3>1, FS_Subset
    <3> QED
      BY <3>1, <3>2, LatecomersFinite
  <2>2. Ready(r)' <= Ready(r)
    BY <1>4 DEF Ready
  <2> QED
    BY <1>1, <1>2, <2>1, <2>2, CopiesFinite, LatecomersFinite, ReadyType DEF CopiesOfRow
<1> QED
  BY <1>3, <1>4

\* A record is never taken back.
LEMMA StaysRecorded ==
    ASSUME TypeInv, [Next]_vars, NEW r \in Rows, Recorded(r)
    PROVE  Recorded(r)'
<1>0. records \in [Resources -> RecordTypes]
  BY DEF TypeInv, TypeOK, RecordTypes
<1>1. PICK x \in Resources : x[1] = r /\ records[x] # "none"
  BY DEF Recorded
<1>2. records'[x] # "none"
  <2>1. ASSUME NEW w \in Workers, RecordRow(w)
        PROVE  records'[x] # "none"
    BY <1>0, <1>1, <2>1 DEF RecordRow
  <2>2. ASSUME NEW c \in Clients, ClaimRecord(c) \/ RecordUndo(c)
        PROVE  records'[x] # "none"
    BY <1>0, <1>1, <2>2 DEF ClaimRecord, RecordUndo
  <2> QED
    BY <1>1, <2>1, <2>2, RecordsMove
<1> QED
  BY <1>1, <1>2 DEF Recorded

LEMMA CopiesStay ==
    ASSUME TypeInv, MadeInv, [Next]_vars, NEW r \in Rows, Kind[r] # "member",
           ~\E w \in Workers : ApplyRow(w) /\ run[w].row = r
    PROVE  Copies(r)' \subseteq Copies(r)
<1>1. ASSUME NEW w \in Workers, ApplyRow(w), NEW x \in Resources, x[1] = r
      PROVE  x # Resource(run[w].row, run[w].attempt)
  BY <1>1 DEF Resource
<1>2. ASSUME NEW w \in Workers, AddMember(w), NEW x \in Resources, x[1] = r
      PROVE  x # Resource(run[w].row, run[w].attempt)
  BY <1>2, MemberAdded
<1>3. \A x \in Resources : x[1] = r => (entity'[x] = "untouched" <=> entity[x] = "untouched")
  BY <1>1, <1>2, Touched
<1> QED
  BY <1>3 DEF Copies

LEMMA OneHolder ==
    ASSUME NEW v \in Workers, NEW w \in Workers, Leased(v), Leased(w)
    PROVE  v = w
BY DEF Leased

\* A step of a run that gives it no new way to add a copy of the row.
CalmRun(w, r) ==
    /\ CanAdd(w, r)' => CanAdd(w, r) /\ run'[w].attempt = run[w].attempt
    /\ Applying(w, r)' => Applying(w, r) \/ (~Recorded(r) /\ ~Recording(w, r))
    /\ Recording(w, r) =>
         Recorded(r)' \/ (Recording(w, r)' /\ run'[w].attempt = run[w].attempt)

LEMMA CalmStep ==
    ASSUME TypeInv, TypeInv', MadeInv, [Next]_vars, NEW r \in Rows,
           Kind[r] # "member", CopiesOfRow(r),
           ~\E w \in Workers : ApplyRow(w) /\ run[w].row = r,
           job'.holder = job.holder, job'.attempt = job.attempt, broken' = broken,
           \A w \in Workers : run'[w] = run[w] \/ CalmRun(w, r)
    PROVE  CopiesOfRow(r)'
<1>1. Copies(r)' \subseteq Copies(r)
  BY CopiesStay
<1>2. Recorded(r) => Recorded(r)'
  BY StaysRecorded
<1>3. ASSUME NEW w \in Workers, CanAdd(w, r)'
      PROVE  CanAdd(w, r) /\ (Leased(w)' <=> Leased(w))
  <2>1. CASE run'[w] = run[w]
    BY <1>2, <1>3, <2>1 DEF CanAdd, Applying, InReach, Leased
  <2>2. CASE CalmRun(w, r)
    BY <1>3, <2>2 DEF CalmRun, Leased
  <2> QED
    BY <2>1, <2>2
<1>4. Latecomers(r)' \subseteq Latecomers(r)
  BY <1>3 DEF Latecomers
<1>5. ASSUME NEW w \in Workers, Leased(w)', Applying(w, r)'
      PROVE  HolderCanAdd(r)
  <2>1. Leased(w)
    BY <1>3, <1>5 DEF CanAdd
  <2>2. CASE run'[w] = run[w]
    BY <1>5, <2>1, <2>2 DEF Applying, HolderCanAdd
  <2>3. CASE CalmRun(w, r)
    BY <1>5, <2>1, <2>3, OneHolder DEF CalmRun, HolderCanAdd
  <2> QED
    BY <2>2, <2>3
<1>6. ASSUME NEW w \in Workers, Leased(w), Recording(w, r), ~Recorded(r)'
      PROVE  Leased(w)' /\ Recording(w, r)'
  <2>1. CASE run'[w] = run[w]
    BY <1>6, <2>1 DEF Leased, Recording
  <2>2. CASE CalmRun(w, r)
    BY <1>6, <2>2 DEF Leased, CalmRun
  <2> QED
    BY <2>1, <2>2
<1>7. HolderCanAdd(r)' => HolderCanAdd(r)
  BY <1>2, <1>5, <1>6 DEF HolderCanAdd
<1> QED
  BY <1>1, <1>4, <1>7, NoMore

LEMMA AdvanceCalm ==
    ASSUME TypeInv, NEW w \in Workers, NEW r \in Rows, Advance(w) \/ EndRow(w),
           run[w].pc \in InRow, Recorded(r) => Recorded(r)',
           run[w].pc \in {"checking", "recording"} => run[w].row # r \/ Recorded(r)'
    PROVE  CalmRun(w, r)
<1>1. /\ run \in [Workers -> RunTypes] /\ TotalRows \in Nat
      /\ run[w].row \in Nat /\ run[w].row \in Rows /\ r \in Nat /\ r <= TotalRows
  BY RowsAssumption DEF TypeInv, TypeOK, RunTypes, Shape, Rows
<1>2. CASE Advance(w) /\ run[w].row = TotalRows
  <2>1. run'[w].pc = "finishing"
    BY <1>1, <1>2 DEF Advance, RunTypes
  <2> QED
    BY <2>1 DEF CalmRun, CanAdd, Applying, InReach, Recording, InRow
<1>3. CASE Advance(w) /\ run[w].row # TotalRows
  <2>1. /\ run'[w].pc = "checking" /\ run'[w].row = run[w].row + 1
        /\ run'[w].attempt = run[w].attempt
    BY <1>1, <1>3 DEF Advance, RunTypes
  <2>2. run'[w].row <= r => run[w].row < r /\ run[w].row <= r
    BY <1>1, <2>1
  <2> QED
    BY <2>1, <2>2 DEF CalmRun, CanAdd, Applying, InReach, Recording, InRow
<1>4. CASE run' = [run EXCEPT ![w].pc = "checkpointing", ![w].made = NoResource]
  <2>1. /\ run'[w].pc = "checkpointing" /\ run'[w].row = run[w].row
        /\ run'[w].attempt = run[w].attempt
    BY <1>1, <1>4 DEF RunTypes
  <2>2. run[w].row < r => run[w].row <= r
    BY <1>1
  <2> QED
    BY <2>1, <2>2 DEF CalmRun, CanAdd, Applying, InReach, Recording, InRow
<1> QED
  BY <1>2, <1>3, <1>4 DEF EndRow

LEMMA WorkerCalm ==
    ASSUME TypeInv, MadeInv, [Next]_vars, NEW w \in Workers, NEW r \in Rows,
           WorkerStep(w), ~ClaimJob(w), ~Report(w), ~(ApplyRow(w) /\ run[w].row = r)
    PROVE  CalmRun(w, r) /\ job' = job /\ broken' = broken
<1>0. /\ run \in [Workers -> RunTypes] /\ Shape(w)
      /\ run[w].row \in Nat /\ r \in Nat
  BY RowsAssumption DEF TypeInv, TypeOK, RunTypes, Rows
<1>1. job' = job /\ broken' = broken
  BY DEF WorkerStep, Load, ResumeFrom, CheckRow, ApplyRow, AddMember, LeaveRow, RefuseRow,
         RecordRow, SaveCheckpoint, Beat, FinishRun, CompleteImport, RefuseResult, historyVars
<1> SUFFICES CalmRun(w, r)
  BY <1>1
<1>2. Recorded(r) => Recorded(r)'
  BY StaysRecorded
<1>3. ASSUME NEW pc \in RunStates, RunTo(w, pc)
      PROVE  run'[w].pc = pc /\ run'[w].row = run[w].row /\ run'[w].attempt = run[w].attempt
  BY <1>0, <1>3 DEF RunTo, RunTypes
<1>4. CASE Load(w) \/ ResumeFrom(w)
  <2>1. CASE Load(w)
    <3>1. /\ run[w].pc = "loading" /\ run'[w].pc \in {"resuming", "fatal"}
          /\ run'[w].attempt = run[w].attempt
      BY <1>0, <2>1 DEF Load, RunTypes
    <3> QED
      BY <1>2, <3>1 DEF CalmRun, CanAdd, Applying, InReach, Recording
  <2>2. CASE ResumeFrom(w)
    <3>1. /\ run[w].pc = "resuming" /\ run'[w].pc \in {"checking", "finishing"}
          /\ run'[w].attempt = run[w].attempt
      BY <1>0, <2>2 DEF ResumeFrom, RunTypes
    <3> QED
      BY <1>2, <3>1 DEF CalmRun, CanAdd, Applying, InReach, Recording
  <2> QED
    BY <1>1, <1>4, <2>1, <2>2
<1>5. CASE CheckRow(w)
  <2>1. CASE Recorded(run[w].row) /\ Advance(w)
    BY <1>2, <1>5, <2>1, AdvanceCalm DEF CheckRow, InRow
  <2>2. CASE ~Recorded(run[w].row) /\ RunTo(w, "applying")
    <3>1. /\ run[w].pc = "checking" /\ run'[w].pc = "applying"
          /\ run'[w].row = run[w].row /\ run'[w].attempt = run[w].attempt
      BY <1>3, <1>5, <2>2 DEF CheckRow, RunStates
    <3>2. run[w].row = r => run[w].row <= r
      BY <1>0
    <3> QED
      BY <1>2, <2>2, <3>1, <3>2 DEF CalmRun, CanAdd, Applying, InReach, Recording
  <2> QED
    BY <1>1, <1>5, <2>1, <2>2 DEF CheckRow
<1>6. CASE ApplyRow(w)
  <2>1. /\ run[w].pc = "applying" /\ run'[w].pc = "recording" /\ run'[w].row = run[w].row
        /\ run'[w].attempt = run[w].attempt
    BY <1>0, <1>6 DEF ApplyRow, RunTypes
  <2>2. run[w].row < r => run[w].row <= r
    BY <1>0
  <2> QED
    BY <1>2, <2>1, <2>2 DEF CalmRun, CanAdd, Applying, InReach, Recording
<1>7. CASE AddMember(w) \/ LeaveRow(w) \/ RefuseRow(w)
  <2>1. run[w].pc = "applying" /\ (Advance(w) \/ EndRow(w))
    BY <1>7 DEF AddMember, LeaveRow, RefuseRow
  <2> QED
    BY <1>2, <2>1, AdvanceCalm DEF InRow
<1>8. CASE RecordRow(w)
  <2>1. /\ run[w].pc = "recording" /\ EndRow(w)
        /\ records' = [records EXCEPT ![run[w].made] = "pending"]
    BY <1>8 DEF RecordRow
  <2>2. run[w].made \in Resources /\ run[w].made[1] = run[w].row
    BY <1>0, <2>1 DEF Shape, MadeInv
  <2>3. records \in [Resources -> RecordTypes]
    BY DEF TypeInv, TypeOK, RecordTypes
  <2>4. run[w].row = r => Recorded(r)'
    <3>1. records'[run[w].made] = "pending"
      BY <2>1, <2>2, <2>3
    <3> QED
      BY <2>2, <3>1 DEF Recorded
  <2> QED
    BY <1>2, <2>1, <2>4, AdvanceCalm DEF InRow
<1>9. CASE SaveCheckpoint(w)
  <2>1. /\ run[w].pc = "checkpointing" /\ run'[w].pc = "beating"
        /\ run'[w].row = run[w].row /\ run'[w].attempt = run[w].attempt
    BY <1>3, <1>9 DEF SaveCheckpoint, RunStates
  <2> QED
    BY <1>2, <2>1 DEF CalmRun, CanAdd, Applying, InReach, Recording
<1>10. CASE Beat(w)
  <2>1. /\ run[w].pc = "beating"
        /\ RunTo(w, "retryable") \/ RunTo(w, "fatal") \/ Advance(w)
    BY <1>10 DEF Beat
  <2>2. CASE Advance(w)
    BY <1>2, <2>1, <2>2, AdvanceCalm DEF InRow
  <2>3. CASE RunTo(w, "retryable") \/ RunTo(w, "fatal")
    <3>1. run'[w].pc \in {"retryable", "fatal"}
      BY <1>3, <2>3 DEF RunStates
    <3> QED
      BY <2>1, <3>1 DEF CalmRun, CanAdd, Applying, InReach, Recording
  <2> QED
    BY <2>1, <2>2, <2>3
<1>11. CASE FinishRun(w) \/ CompleteImport(w) \/ RefuseResult(w)
  <2>1. run[w].pc # "recording" /\ run'[w].pc \in {"completing", "ok", "retryable", "idle"}
    BY <1>0, <1>3, <1>11 DEF FinishRun, CompleteImport, RefuseResult, NoRun, RunStates
  <2> QED
    BY <2>1 DEF CalmRun, CanAdd, Applying, InReach, Recording
<1> QED
  BY <1>4, <1>5, <1>6, <1>7, <1>8, <1>9, <1>10, <1>11 DEF WorkerStep

\* The worker changes the entity of the row.
LEMMA CopiesApply ==
    ASSUME TypeInv, TypeInv', MadeInv, [Next]_vars, NEW w \in Workers, NEW r \in Rows,
           CopiesOfRow(r), ApplyRow(w), run[w].row = r
    PROVE  CopiesOfRow(r)'
<1> DEFINE x == Resource(run[w].row, run[w].attempt)
<1>0. /\ run \in [Workers -> RunTypes]
      /\ entity \in [Resources -> {"untouched", "made", "edited", "undone"}]
  BY DEF TypeInv, TypeOK, RunTypes
<1>1. /\ entity' = [entity EXCEPT ![x] = "made"] /\ run[w].pc = "applying"
      /\ run' = [run EXCEPT ![w].pc = "recording", ![w].made = x]
      /\ job' = job /\ records' = records /\ broken' = broken
  BY DEF ApplyRow
<1> HIDE DEF x
<1>2. /\ run'[w].pc = "recording" /\ run'[w].row = r /\ run'[w].attempt = run[w].attempt
      /\ \A v \in Workers : v # w => run'[v] = run[v]
  BY <1>0, <1>1 DEF RunTypes
<1>3. Copies(r)' \subseteq Copies(r) \cup {x}
  BY <1>0, <1>1 DEF Copies
<1>4. Recorded(r)' <=> Recorded(r)
  BY <1>1 DEF Recorded
<1>5. \A v \in Workers : Leased(v)' <=> Leased(v)
  BY <1>1, <1>2 DEF Leased
<1>6. ~CanAdd(w, r)' /\ ~Applying(w, r)'
  BY <1>2, RowsAssumption DEF CanAdd, Applying, InReach, Rows
<1>7. \A v \in Workers : CanAdd(v, r)' => v # w /\ CanAdd(v, r)
  BY <1>2, <1>4, <1>6 DEF CanAdd, Applying, InReach
<1>8. \A v \in Workers : v # w => /\ Applying(v, r)' <=> Applying(v, r)
                                  /\ Recording(v, r)' <=> Recording(v, r)
  BY <1>2 DEF Applying, Recording
<1>9. Latecomers(r)' \subseteq Latecomers(r) \ {w}
  BY <1>5, <1>7 DEF Latecomers
<1>10. Applying(w, r) /\ CanAdd(w, r) /\ Recording(w, r)'
  BY <1>1, <1>2 DEF Applying, CanAdd, Recording
<1>11. CASE Leased(w)
  <2>1. HolderCanAdd(r)
    BY <1>10, <1>11 DEF HolderCanAdd
  <2>2. \A v \in Workers : Leased(v)' => v = w
    BY <1>5, <1>11, OneHolder
  <2>3. ~HolderCanAdd(r)'
    BY <1>5, <1>6, <1>10, <1>11, <2>2 DEF HolderCanAdd
  <2> QED
    BY <1>1, <1>3, <1>9, <2>1, <2>3, OneCopyMore
<1>12. CASE ~Leased(w)
  <2>1. w \in Latecomers(r)
    BY <1>10, <1>12 DEF Latecomers
  <2>2. HolderCanAdd(r)' => HolderCanAdd(r)
    BY <1>4, <1>5, <1>8, <1>12 DEF HolderCanAdd
  <2> QED
    BY <1>1, <1>3, <1>9, <2>1, <2>2, OneCopyMore
<1> QED
  BY <1>11, <1>12

\* The job gets a holder, or its holder, which is between runs, leaves it.
LEMMA CopiesHolder ==
    ASSUME TypeInv, TypeInv', MadeInv, [Next]_vars, NEW r \in Rows,
           Kind[r] # "member", CopiesOfRow(r),
           ~\E w \in Workers : ApplyRow(w) /\ run[w].row = r,
           \A w \in Workers : Leased(w) => ~CanAdd(w, r) /\ ~Recording(w, r),
           \A w \in Workers : Leased(w)' => ~Applying(w, r)',
           \A w \in Workers : CanAdd(w, r)' => CanAdd(w, r) \/ Leased(w)',
           broken' = broken
    PROVE  CopiesOfRow(r)'
<1>1. Copies(r)' \subseteq Copies(r)
  BY CopiesStay
<1>2. Recorded(r) => Recorded(r)'
  BY StaysRecorded
<1>3. Latecomers(r)' \subseteq Latecomers(r)
  BY DEF Latecomers
<1>4. HolderCanAdd(r)' => HolderCanAdd(r)
  BY <1>2 DEF HolderCanAdd
<1> QED
  BY <1>1, <1>3, <1>4, NoMore

LEMMA CopiesClaim ==
    ASSUME TypeInv, TypeInv', MadeInv, JobInv, [Next]_vars, NEW w \in Workers, NEW r \in Rows,
           Kind[r] # "member", CopiesOfRow(r), ClaimJob(w)
    PROVE  CopiesOfRow(r)'
<1>0. run \in [Workers -> RunTypes] /\ job \in JobTypes /\ NoWorker \notin Workers
  BY NamesAssumption DEF TypeInv, TypeOK, RunTypes, JobTypes
<1>1. /\ job.status = "queued"
      /\ job' = [job EXCEPT !.status = "running", !.attempt = job.attempt + 1, !.holder = w]
      /\ run' = [run EXCEPT ![w] = [NoRun EXCEPT !.pc = "loading", !.attempt = job.attempt + 1]]
      /\ records' = records /\ broken' = broken /\ entity' = entity
  BY DEF ClaimJob, historyVars
<1>2. job.holder = NoWorker
  BY <1>1 DEF JobInv
<1>3. \A v \in Workers : ~Leased(v)
  BY <1>0, <1>2 DEF Leased
<1>4. /\ run'[w] = [NoRun EXCEPT !.pc = "loading", !.attempt = job.attempt + 1]
      /\ \A v \in Workers : v # w => run'[v] = run[v]
      /\ job'.holder = w /\ job'.attempt = job.attempt + 1
  BY <1>0, <1>1 DEF JobTypes
<1>5. run'[w].pc = "loading" /\ run'[w].attempt = job.attempt + 1
  BY <1>4 DEF NoRun
<1>6. \A v \in Workers : Leased(v)' => ~Applying(v, r)'
  BY <1>4, <1>5 DEF Leased, Applying
<1>7. Leased(w)'
  BY <1>4, <1>5 DEF Leased
<1>8. Recorded(r)' <=> Recorded(r)
  BY <1>1 DEF Recorded
<1>9. \A v \in Workers : CanAdd(v, r)' => CanAdd(v, r) \/ Leased(v)'
  BY <1>4, <1>7, <1>8 DEF CanAdd, Applying, InReach
<1>10. \A v \in Workers : ~ApplyRow(v)
  <2>1. ASSUME NEW v \in Workers, ApplyRow(v)
        PROVE  FALSE
    <3>1. run[v].pc = "applying" /\ run'[v].pc = "recording"
      BY <1>0, <2>1 DEF ApplyRow, RunTypes
    <3>2. v # w
      BY <1>5, <3>1
    <3> QED
      BY <1>4, <3>1, <3>2
  <2> QED
    BY <2>1
<1> QED
  BY <1>1, <1>3, <1>6, <1>9, <1>10, CopiesHolder

LEMMA CopiesReport ==
    ASSUME TypeInv, TypeInv', MadeInv, [Next]_vars, NEW w \in Workers, NEW r \in Rows,
           Kind[r] # "member", CopiesOfRow(r), Report(w)
    PROVE  CopiesOfRow(r)'
<1>0. run \in [Workers -> RunTypes] /\ job \in JobTypes /\ NoWorker \notin Workers
  BY NamesAssumption DEF TypeInv, TypeOK, RunTypes, JobTypes
<1>1. /\ run[w].pc \in {"ok", "retryable", "fatal"} /\ run' = [run EXCEPT ![w] = NoRun]
      /\ records' = records /\ broken' = broken
  BY DEF Report, historyVars
<1>2. run'[w].pc = "idle" /\ \A v \in Workers : v # w => run'[v] = run[v]
  BY <1>0, <1>1 DEF NoRun
<1>3. \A v \in Workers : ~ApplyRow(v)
  <2>1. ASSUME NEW v \in Workers, ApplyRow(v)
        PROVE  FALSE
    <3>1. run[v].pc = "applying" /\ run'[v].pc = "recording"
      BY <1>0, <2>1 DEF ApplyRow, RunTypes
    <3> QED
      BY <1>2, <3>1
  <2> QED
    BY <2>1
<1>4. ~CanAdd(w, r)' /\ ~Applying(w, r)' /\ ~CanAdd(w, r) /\ ~Recording(w, r)
  BY <1>1, <1>2 DEF CanAdd, Applying, InReach, Recording
<1>5. CASE ~Leased(w)
  <2>1. job' = job
    BY <1>5 DEF Report
  <2>2. CalmRun(w, r)
    BY <1>4 DEF CalmRun
  <2> QED
    BY <1>1, <1>2, <1>3, <2>1, <2>2, CalmStep
<1>6. CASE Leased(w)
  <2>1. job'.holder = NoWorker
    BY <1>0, <1>6 DEF Report, JobTypes
  <2>2. \A v \in Workers : ~Leased(v)'
    BY <1>0, <2>1 DEF Leased
  <2>3. \A v \in Workers : Leased(v) => v = w
    BY <1>6, OneHolder
  <2>4. Recorded(r)' <=> Recorded(r)
    BY <1>1 DEF Recorded
  <2>5. \A v \in Workers : CanAdd(v, r)' => CanAdd(v, r)
    BY <1>2, <1>4, <2>4 DEF CanAdd, Applying, InReach
  <2>6. \A v \in Workers : Leased(v) => ~CanAdd(v, r) /\ ~Recording(v, r)
    BY <1>4, <2>3
  <2> QED
    BY <1>1, <1>3, <2>2, <2>5, <2>6, CopiesHolder
<1> QED
  BY <1>5, <1>6

LEMMA CopiesBreak ==
    ASSUME TypeInv, TypeInv', MadeInv, [Next]_vars, NEW w \in Workers, NEW r \in Rows,
           Kind[r] # "member", CopiesOfRow(r), RunFails(w) \/ CrashRun(w)
    PROVE  CopiesOfRow(r)'
<1>0. run \in [Workers -> RunTypes]
  BY DEF TypeInv, TypeOK, RunTypes
<1>1. /\ job' = job /\ records' = records /\ Lost(w)
      /\ \A v \in Workers : v # w => run'[v] = run[v]
  BY OtherRuns DEF RunFails, CrashRun
<1>2. run'[w].pc \in {"retryable", "idle"}
  BY <1>0 DEF RunFails, CrashRun, NoRun, RunTypes
<1>3. \A v \in Workers : ~ApplyRow(v)
  <2>1. ASSUME NEW v \in Workers, ApplyRow(v)
        PROVE  FALSE
    <3>1. run[v].pc = "applying" /\ run'[v].pc = "recording"
      BY <1>0, <2>1 DEF ApplyRow, RunTypes
    <3> QED
      BY <1>1, <1>2, <3>1
  <2> QED
    BY <2>1
<1>4. ~CanAdd(w, r)' /\ ~Applying(w, r)'
  BY <1>2 DEF CanAdd, Applying, InReach
<1>5. CASE run[w].pc = "recording"
  <2>1. broken' = broken + 1
    BY <1>1, <1>5 DEF Lost
  <2>2. Recorded(r)' <=> Recorded(r)
    BY <1>1 DEF Recorded
  <2>3. Latecomers(r)' \subseteq Latecomers(r)
    BY <1>1, <1>4, <2>2 DEF Latecomers, Leased, CanAdd, Applying, InReach
  <2>4. Copies(r)' \subseteq Copies(r)
    BY <1>3, CopiesStay
  <2> QED
    BY <2>1, <2>3, <2>4, OneMoreBroken
<1>6. CASE run[w].pc # "recording"
  <2>1. broken' = broken
    BY <1>1, <1>6 DEF Lost
  <2>2. CalmRun(w, r)
    BY <1>4, <1>6 DEF CalmRun, Recording
  <2> QED
    BY <1>1, <1>3, <2>1, <2>2, CalmStep
<1> QED
  BY <1>5, <1>6

\* The lease is taken from a holder that is gone, or from one that works on.
LEMMA CopiesExpire ==
    ASSUME TypeInv, TypeInv', MadeInv, [Next]_vars, NEW r \in Rows,
           Kind[r] # "member", CopiesOfRow(r),
           RecoverJob \/ LoseLease
    PROVE  CopiesOfRow(r)'
<1>0. run \in [Workers -> RunTypes] /\ job \in JobTypes /\ NoWorker \notin Workers
  BY NamesAssumption DEF TypeInv, TypeOK, RunTypes, JobTypes
<1>1. /\ run' = run /\ records' = records /\ entity' = entity
      /\ job' = [job EXCEPT !.status = Requeued, !.holder = NoWorker]
  BY DEF RecoverJob, LoseLease, historyVars
<1>2. \A v \in Workers : ~Leased(v)'
  BY <1>0, <1>1 DEF Leased, JobTypes
<1>3. \A v \in Workers : CanAdd(v, r)' <=> CanAdd(v, r)
  BY <1>1 DEF CanAdd, Applying, InReach, Recorded
<1>4. \A v \in Workers : ~ApplyRow(v)
  <2>1. ASSUME NEW v \in Workers, ApplyRow(v)
        PROVE  FALSE
    <3>1. run[v].pc = "applying" /\ run'[v].pc = "recording"
      BY <1>0, <2>1 DEF ApplyRow, RunTypes
    <3> QED
      BY <1>1, <3>1
  <2> QED
    BY <2>1
<1>5. CASE RecoverJob
  <2>1. ~Attended /\ broken' = broken
    BY <1>5 DEF RecoverJob, historyVars
  <2>2. \A v \in Workers : Leased(v) => run[v].pc = "idle"
    BY <2>1 DEF Attended
  <2>3. \A v \in Workers : Leased(v) => ~CanAdd(v, r) /\ ~Recording(v, r)
    BY <2>2 DEF CanAdd, Applying, InReach, Recording
  <2> QED
    BY <1>2, <1>3, <1>4, <2>1, <2>3, CopiesHolder
<1>6. CASE LoseLease
  <2>1. broken' = broken + 1
    BY <1>6 DEF LoseLease
  <2>2. PICK h \in Workers : Leased(h)
    BY <1>6 DEF LoseLease, Attended
  <2>3. Copies(r)' \subseteq Copies(r)
    BY <1>4, CopiesStay
  <2>4. \A v \in Workers : Leased(v) => v = h
    BY <2>2, OneHolder
  <2>5. CASE CanAdd(h, r)
    <3>1. Latecomers(r)' \subseteq Latecomers(r) \cup {h}
      BY <1>3, <2>4 DEF Latecomers
    <3>2. Applying(h, r) => HolderCanAdd(r)
      BY <2>2 DEF HolderCanAdd
    <3>3. ~Applying(h, r) => HolderCanAdd(r)
      <4>1. ~Applying(h, r) => ~Recorded(r) /\ InReach(h, r)
        BY <2>5 DEF CanAdd
      <4>2. InReach(h, r) => ~Recording(h, r)
        BY RowsAssumption DEF InReach, Recording, Rows
      <4> QED
        BY <2>4, <4>1, <4>2 DEF HolderCanAdd
    <3>4. HolderCanAdd(r)
      BY <3>2, <3>3
    <3> QED
      BY <2>1, <2>3, <3>1, <3>4, OneMoreBroken
  <2>6. CASE ~CanAdd(h, r)
    <3>1. Latecomers(r)' \subseteq Latecomers(r)
      BY <1>3, <2>4, <2>6 DEF Latecomers
    <3> QED
      BY <2>1, <2>3, <2>2, <3>1, OneMoreBroken
  <2> QED
    BY <2>5, <2>6
<1> QED
  BY <1>5, <1>6

\* The other steps leave the runs and the holder alone.
LEMMA HolderStays ==
    ASSUME TypeInv, [Next]_vars
    PROVE  \/ run' = run /\ job'.holder = job.holder /\ job'.attempt = job.attempt /\ broken' = broken
           \/ RecoverJob \/ LoseLease
           \/ \E w \in Workers : WorkerStep(w) \/ RunFails(w) \/ CrashRun(w)
<1>0. job \in JobTypes
  BY DEF TypeInv, TypeOK, JobTypes
<1>1. ASSUME NEW c \in Clients, Begin(c) \/ RequestStep(c) \/ RequestFails(c) \/ CrashRequest(c)
      PROVE  run' = run /\ job'.holder = job.holder /\ job'.attempt = job.attempt /\ broken' = broken
  <2>1. CASE StartExecution(c) \/ Activate(c) \/ AskJob(c)
    <3>1. run' = run /\ broken' = broken
      BY <2>1 DEF StartExecution, Activate, AskJob, historyVars
    <3>2. CASE StartExecution(c)
      BY <1>0, <3>1, <3>2 DEF StartExecution, SubmitJob, JobTypes
    <3>3. CASE Activate(c)
      BY <1>0, <3>1, <3>3 DEF Activate, JobTypes
    <3>4. CASE AskJob(c)
      <4>1. \/ job' = job
            \/ job' = [job EXCEPT !.asked = TRUE,
                                  !.status = IF job.status = "queued" THEN "cancelled" ELSE job.status]
        BY <3>4 DEF AskJob
      <4> QED
        BY <1>0, <3>1, <4>1 DEF JobTypes
    <3> QED
      BY <2>1, <3>2, <3>3, <3>4
  <2>2. CASE ~(StartExecution(c) \/ Activate(c) \/ AskJob(c))
    BY <1>1, <2>2 DEF historyVars, Begin, RequestFails, CrashRequest, RequestStep,
                      StartValidation, FinishValidation, ClaimKey, KeyTaken, MarkRunningAndLink,
                      CompleteKey, CancelImport, StartCompensation, ReadRecords, ClaimRecord,
                      CompensateEntity, Restore, RecordUndo, FinishCompensation
  <2> QED
    BY <2>1, <2>2
<1>2. CASE RetryJob \/ HoldExpires \/ UploadAgain \/ (\E x \in Resources : Edit(x)) \/ UNCHANGED vars
  BY <1>0, <1>2 DEF vars, historyVars, RetryJob, HoldExpires, Edit, UploadAgain, JobTypes
<1> QED
  BY <1>1, <1>2 DEF Next

LEMMA CopiesStep ==
    ASSUME TypeInv, TypeInv', MadeInv, JobInv, [Next]_vars, NEW r \in Rows,
           Kind[r] # "member", CopiesOfRow(r)
    PROVE  CopiesOfRow(r)'
<1>1. CASE run' = run /\ job'.holder = job.holder /\ job'.attempt = job.attempt /\ broken' = broken
  <2>1. ASSUME NEW w \in Workers, ApplyRow(w)
        PROVE  FALSE
    <3>1. run \in [Workers -> RunTypes]
      BY DEF TypeInv, TypeOK, RunTypes
    <3>2. run[w].pc = "applying" /\ run'[w].pc = "recording"
      BY <2>1, <3>1 DEF ApplyRow, RunTypes
    <3> QED
      BY <1>1, <3>2
  <2> QED
    BY <1>1, <2>1, CalmStep
<1>2. ASSUME NEW w \in Workers, WorkerStep(w), ~ClaimJob(w), ~Report(w),
             ~(ApplyRow(w) /\ run[w].row = r)
      PROVE  CopiesOfRow(r)'
  <2>1. CalmRun(w, r) /\ job' = job /\ broken' = broken
    BY <1>2, WorkerCalm
  <2>2. \A v \in Workers : v # w => run'[v] = run[v]
    BY <1>2, OtherRuns
  <2>3. ASSUME NEW v \in Workers, ApplyRow(v), run[v].row = r
        PROVE  FALSE
    <3>1. run \in [Workers -> RunTypes]
      BY DEF TypeInv, TypeOK, RunTypes
    <3>2. run[v].pc = "applying" /\ run'[v].pc = "recording"
      BY <2>3, <3>1 DEF ApplyRow, RunTypes
    <3>3. v = w
      BY <2>2, <3>2
    <3> QED
      BY <1>2, <2>3, <3>3
  <2> QED
    BY <2>1, <2>2, <2>3, CalmStep
<1>3. ASSUME NEW w \in Workers, WorkerStep(w) \/ RunFails(w) \/ CrashRun(w)
      PROVE  CopiesOfRow(r)'
  BY <1>2, <1>3, CopiesClaim, CopiesReport, CopiesApply, CopiesBreak
<1> QED
  BY <1>1, <1>3, HolderStays, CopiesExpire

LEMMA CopiesInit ==
    ASSUME Init, NEW r \in Rows
    PROVE  CopiesOfRow(r)
<1>1. Copies(r) = {}
  BY DEF Init, Copies
<1>2. Latecomers(r) = {}
  <2>1. \A w \in Workers : ~CanAdd(w, r)
    BY DEF Init, NoRun, CanAdd, Applying, InReach
  <2> QED
    BY <2>1 DEF Latecomers
<1>3. broken = 0
  BY DEF Init
<1> QED
  BY <1>1, <1>2, <1>3, FS_EmptySet, ReadyType DEF CopiesOfRow

-----------------------------------------------------------------------------
(* A member is added once.                                                 *)

SameMember(x, y) == x[1] = y[1] /\ Kind[x[1]] = "member"

\* What was added stays as it is, and the same member is not added again.
MemberInv ==
    /\ \A x \in Resources : Kind[x[1]] = "member" => entity[x] \in {"untouched", "made"}
    /\ \A x, y \in Resources :
         SameMember(x, y) /\ entity[x] # "untouched" /\ entity[y] # "untouched" => x = y

\* Only AddMember changes a resource of a row that is a membership.
LEMMA MembersMove ==
    ASSUME TypeInv, MadeInv, [Next]_vars, NEW x \in Resources, Kind[x[1]] = "member"
    PROVE  \/ entity'[x] = entity[x]
           \/ \E w \in Workers : AddMember(w) /\ x = Resource(run[w].row, run[w].attempt)
<1>0. entity \in [Resources -> {"untouched", "made", "edited", "undone"}]
  BY DEF TypeInv, TypeOK
<1>1. ASSUME NEW w \in Workers, ApplyRow(w)
      PROVE  entity'[x] = entity[x]
  <2>1. Resource(run[w].row, run[w].attempt)[1] = run[w].row /\ Kind[run[w].row] # "member"
    BY <1>1 DEF ApplyRow, Resource
  <2>2. entity' = [entity EXCEPT ![Resource(run[w].row, run[w].attempt)] = "made"]
    BY <1>1 DEF ApplyRow
  <2> QED
    BY <1>0, <2>1, <2>2
<1>2. ASSUME NEW w \in Workers, AddMember(w), x # Resource(run[w].row, run[w].attempt)
      PROVE  entity'[x] = entity[x]
  BY <1>0, <1>2, MemberAdded
<1>3. ASSUME NEW c \in Clients, CompensateEntity(c) \/ Restore(c)
      PROVE  entity'[x] = entity[x]
  <2>1. req[c].pc \in {"undoing", "restoring"}
    BY <1>3 DEF CompensateEntity, Restore
  <2>2. entity' = entity \/ entity' = [entity EXCEPT ![req[c].current] = "undone"]
    BY <1>3 DEF CompensateEntity, Restore
  <2>3. Kind[req[c].current[1]] # "member"
    BY <2>1 DEF MadeInv, Recordable
  <2> QED
    BY <1>0, <2>2, <2>3
<1>4. ASSUME NEW y \in Resources, Edit(y)
      PROVE  entity'[x] = entity[x]
  BY <1>0, <1>4 DEF Edit
<1> QED
  BY <1>1, <1>2, <1>3, <1>4, EntitiesMove

LEMMA MemberInvStep == TypeInv /\ MadeInv /\ MemberInv /\ [Next]_vars => MemberInv'
<1> SUFFICES ASSUME TypeInv, MadeInv, MemberInv, [Next]_vars
             PROVE  MemberInv'
  OBVIOUS
<1>0. entity \in [Resources -> {"untouched", "made", "edited", "undone"}]
  BY DEF TypeInv, TypeOK
<1>1. ASSUME NEW w \in Workers, AddMember(w), NEW z \in Resources, z[1] = run[w].row
      PROVE  entity[z] = "untouched"
  <2>1. ~Stands(z) /\ Kind[z[1]] = "member"
    BY <1>1 DEF AddMember, Applies
  <2> QED
    BY <2>1 DEF MemberInv, Stands
<1>2. ASSUME NEW w \in Workers, AddMember(w)
      PROVE  MemberInv'
  <2> DEFINE a == Resource(run[w].row, run[w].attempt)
  <2>1. /\ entity' = [entity EXCEPT ![a] = "made"] /\ a[1] = run[w].row
    BY <1>2, MemberAdded
  <2> HIDE DEF a
  <2>2. \A z \in Resources : z[1] = run[w].row /\ entity'[z] # "untouched" => z = a
    BY <1>0, <1>1, <1>2, <2>1
  <2>3. \A z \in Resources : z # a => entity'[z] = entity[z]
    BY <1>0, <2>1
  <2>4. \A z \in Resources : z = a => entity'[z] = "made"
    BY <1>0, <2>1
  <2>5. \A z \in Resources : Kind[z[1]] = "member" => entity'[z] \in {"untouched", "made"}
    BY <2>3, <2>4 DEF MemberInv
  <2>6. ASSUME NEW y \in Resources, NEW z \in Resources, SameMember(y, z),
               entity'[y] # "untouched", entity'[z] # "untouched"
        PROVE  y = z
    <3>1. CASE y[1] = run[w].row
      BY <2>2, <2>6, <3>1 DEF SameMember
    <3>2. CASE y[1] # run[w].row
      BY <2>1, <2>3, <2>6, <3>2 DEF SameMember, MemberInv
    <3> QED
      BY <3>1, <3>2
  <2> QED
    BY <2>5, <2>6 DEF MemberInv, SameMember
<1>3. CASE ~\E w \in Workers : AddMember(w)
  <2>1. \A x \in Resources : Kind[x[1]] = "member" => entity'[x] = entity[x]
    BY <1>3, MembersMove
  <2> QED
    BY <2>1 DEF MemberInv, SameMember
<1> QED
  BY <1>2, <1>3

LEMMA OneMember ==
    ASSUME TypeInv, MemberInv, NEW r \in Rows, Kind[r] = "member"
    PROVE  Cardinality(Copies(r)) <= 1 + broken
<1>0. broken \in Nat
  BY DEF TypeInv, TypeOK
<1>1. CASE Copies(r) = {}
  BY <1>0, <1>1, FS_EmptySet
<1>2. CASE Copies(r) # {}
  <2>1. PICK x \in Copies(r) : TRUE
    BY <1>2
  <2>2. Copies(r) = {x}
    BY <2>1 DEF Copies, MemberInv, SameMember
  <2> QED
    BY <1>0, <2>2, FS_Singleton
<1> QED
  BY <1>1, <1>2

\* However often the import is interrupted, a row makes one entity, and one
\* more for each run that lost its lease or the record of what it had done
\* (the executor looks for a record of the row before it dispatches it).  For a
\* member of a group there is no record, but it cannot be added twice.
THEOREM RepeatsAreAccounted == Spec => []CopiesAccounted
<1> DEFINE Inv == /\ MadeInv /\ MemberInv
                  /\ \A r \in Rows : Kind[r] # "member" => CopiesOfRow(r)
<1>1. Init => Inv
  <2>1. Init => MadeInv
    BY DEF Init, MadeInv, NoRequest, NoRun
  <2>2. Init => MemberInv
    BY DEF Init, MemberInv
  <2> QED
    BY <2>1, <2>2, CopiesInit
<1>2. TypeInv /\ TypeInv' /\ JobInv /\ Inv /\ [Next]_vars => Inv'
  BY MadeInvStep, MemberInvStep, CopiesStep
<1>3. TypeInv /\ Inv => CopiesAccounted
  <2>1. ASSUME TypeInv, NEW r \in Rows, CopiesOfRow(r)
        PROVE  Cardinality(Copies(r)) <= 1 + broken
    BY <2>1, CopiesFinite, LatecomersFinite, ReadyType DEF CopiesOfRow, TypeInv, TypeOK
  <2> QED
    BY <2>1, OneMember DEF CopiesAccounted
<1> HIDE DEF Inv
<1> QED
  BY <1>1, <1>2, <1>3, JobInvariant, PTL DEF Spec
=============================================================================
