------------------------- MODULE RelayCircuitProofs -------------------------
(***************************************************************************)
(* Proofs about RelayCircuit and the KernelOutbox it extends, for any      *)
(* number of workers, processors, events and failures, and any threshold.  *)
(*                                                                         *)
(* BreakerInv says of every worker what the row it decided upon implies    *)
(* for what it will write, and, as long as nobody wrote in between, how    *)
(* that relates to the row of now.  TableInv relates the rows of the       *)
(* outbox to the calls that hold them.                                     *)
(***************************************************************************)
EXTENDS RelayCircuit, TLAPS

CircuitTypes == [state : CircuitState, failures : Nat, opened : OpenedAt]

WorkerTypes ==
  [pc : {"idle", "resolve", "attempt", "record"}, ok : BOOLEAN, next : CircuitTypes,
   announce : BOOLEAN, stale : BOOLEAN]

\* The three columns of a row agree.
Agrees(c) ==
  IF c.state = "closed" THEN c.failures < Threshold /\ c.opened = "nil"
                        ELSE c.failures >= Threshold /\ c.opened # "nil"

RelayTypes ==
  /\ circuit \in CircuitTypes
  /\ worker \in [Workers -> WorkerTypes]
  /\ failed \in 0 .. MaxFailures /\ streak \in Nat /\ raced \in BOOLEAN

\* What a worker will write, seen from the row of now, if nobody wrote since it read.
Fresh(w) ==
  /\ worker[w].pc = "resolve" =>
       /\ circuit.state # "closed" /\ worker[w].next.state = "half_open"
       /\ worker[w].next.failures = circuit.failures
  /\ worker[w].pc = "record" =>
       /\ ~worker[w].ok => worker[w].next.failures = circuit.failures + 1
       /\ worker[w].next.state # circuit.state => worker[w].announce

BreakerInv ==
  /\ RelayTypes
  /\ Agrees(circuit)
  /\ \A w \in Workers :
       /\ Agrees(worker[w].next)
       /\ worker[w].pc = "record" /\ worker[w].ok => worker[w].next = NewCircuit
       /\ ~worker[w].stale => Fresh(w)
  /\ ~raced => circuit.failures = streak

LEMMA NewCircuitAgrees ==
  /\ NewCircuit \in CircuitTypes /\ Agrees(NewCircuit)
  /\ NewCircuit.state = "closed" /\ NewCircuit.failures = 0
BY RelayAssumption DEF NewCircuit, Circuit, CircuitTypes, CircuitState, OpenedAt, Agrees

\* The breaker turns rows whose columns agree into such rows.
LEMMA OutcomeAgrees ==
  ASSUME NEW c \in CircuitTypes, Agrees(c), NEW ok \in BOOLEAN
  PROVE  /\ Decide(ok, c) \in CircuitTypes /\ Agrees(Decide(ok, c))
         /\ ok => Decide(ok, c) = NewCircuit
         /\ ~ok => Decide(ok, c).failures = c.failures + 1
<1>1. CASE ok
  BY <1>1, NewCircuitAgrees DEF Decide, OnSuccess
<1>2. CASE ~ok
  BY <1>2, RelayAssumption
  DEF Decide, OnFailure, Circuit, CircuitTypes, CircuitState, OpenedAt, Agrees
<1> QED
  BY <1>1, <1>2

LEMMA HalfOpenAgrees ==
  ASSUME NEW c \in CircuitTypes, Agrees(c), IsAvailable(c), ResolvedState(c) # c.state
  PROVE  LET d == Circuit(ResolvedState(c), c.failures, c.opened)
         IN  /\ d \in CircuitTypes /\ Agrees(d) /\ c.state # "closed"
             /\ d.state = "half_open" /\ d.failures = c.failures
BY DEF IsAvailable, ResolvedState, Circuit, CircuitTypes, CircuitState, OpenedAt, Agrees

LEMMA Places ==
  ASSUME NEW pc \in {"idle", "attempt"}
  PROVE  /\ Goto(pc) \in WorkerTypes /\ IdleWorker \in WorkerTypes
         /\ Goto(pc).pc = pc /\ IdleWorker.pc = "idle"
         /\ Goto(pc).next = NewCircuit /\ IdleWorker.next = NewCircuit
BY NewCircuitAgrees DEF Goto, IdleWorker, WorkerTypes

\* A worker steps and the row stays.
LEMMA WorkerMoves ==
  ASSUME BreakerInv, NEW w \in Workers, NEW r \in WorkerTypes,
         worker' = [worker EXCEPT ![w] = r], UNCHANGED <<circuit, streak, raced>>,
         failed' \in 0 .. MaxFailures,
         Agrees(r.next), r.pc = "record" /\ r.ok => r.next = NewCircuit,
         ~r.stale => Fresh(w)'
  PROVE  BreakerInv'
<1>1. RelayTypes'
  BY DEF BreakerInv, RelayTypes
<1>2. worker'[w] = r /\ \A v \in Workers : v # w => worker'[v] = worker[v]
  BY DEF BreakerInv, RelayTypes
<1>3. Agrees(circuit)'
  BY DEF BreakerInv, Agrees
<1>4. ASSUME NEW v \in Workers
      PROVE  /\ Agrees(worker[v].next)'
             /\ worker'[v].pc = "record" /\ worker'[v].ok => worker'[v].next = NewCircuit
             /\ ~worker'[v].stale => Fresh(v)'
  <2>1. CASE v = w
    BY <1>2, <2>1 DEF Agrees
  <2>2. CASE v # w
    BY <1>2, <2>2 DEF BreakerInv, Agrees, Fresh
  <2> QED
    BY <2>1, <2>2
<1> QED
  BY <1>1, <1>3, <1>4 DEF BreakerInv

\* A worker writes the row, and everybody who read it before is stale.
LEMMA RowWritten ==
  ASSUME BreakerInv, NEW w \in Workers, NEW c \in CircuitTypes, NEW r \in WorkerTypes,
         UpdateProviderCircuit(w, c, r), Agrees(c), Agrees(r.next),
         r.pc \in {"idle", "attempt"}, failed' = failed,
         streak' \in Nat, raced' \in BOOLEAN, ~raced' => c.failures = streak'
  PROVE  BreakerInv'
<1>1. /\ circuit' = c
      /\ worker' \in [Workers -> WorkerTypes]
      /\ worker'[w] = r
      /\ \A v \in Workers : v # w =>
           IF worker[v].pc \in {"resolve", "record"}
           THEN worker'[v] = [worker[v] EXCEPT !.stale = TRUE]
           ELSE worker'[v] = worker[v]
  BY DEF UpdateProviderCircuit, BreakerInv, RelayTypes, WorkerTypes
<1>2. RelayTypes'
  BY <1>1 DEF BreakerInv, RelayTypes
<1>3. Agrees(circuit)'
  BY <1>1 DEF Agrees
<1>4. ASSUME NEW v \in Workers
      PROVE  /\ Agrees(worker[v].next)'
             /\ worker'[v].pc = "record" /\ worker'[v].ok => worker'[v].next = NewCircuit
             /\ ~worker'[v].stale => Fresh(v)'
  <2>1. CASE v = w
    BY <1>1, <2>1 DEF Agrees, Fresh
  <2>2. CASE v # w /\ worker[v].pc \in {"resolve", "record"}
    <3>1. /\ worker'[v].pc = worker[v].pc /\ worker'[v].ok = worker[v].ok
          /\ worker'[v].next = worker[v].next /\ worker'[v].stale
      BY <1>1, <2>2 DEF BreakerInv, RelayTypes, WorkerTypes
    <3> QED
      BY <3>1 DEF BreakerInv, Agrees
  <2>3. CASE v # w /\ worker[v].pc \notin {"resolve", "record"}
    BY <1>1, <2>3 DEF BreakerInv, Agrees, Fresh
  <2> QED
    BY <2>1, <2>2, <2>3
<1> QED
  BY <1>1, <1>2, <1>3, <1>4 DEF BreakerInv

LEMMA SelectRouteStep ==
  ASSUME BreakerInv, NEW w \in Workers, SelectRoute(w)
  PROVE  BreakerInv'
<1> DEFINE half == Circuit(ResolvedState(circuit), circuit.failures, circuit.opened)
<1>1. /\ IsAvailable(circuit) /\ UNCHANGED <<circuit, failed, streak, raced>>
      /\ worker' = [worker EXCEPT ![w] =
           IF ResolvedState(circuit) = circuit.state THEN Goto("attempt")
           ELSE [Goto("resolve") EXCEPT !.next = half]]
  BY DEF SelectRoute
<1>2. circuit \in CircuitTypes /\ Agrees(circuit) /\ failed' \in 0 .. MaxFailures
      /\ worker \in [Workers -> WorkerTypes]
  BY <1>1 DEF BreakerInv, RelayTypes
<1>3. CASE ResolvedState(circuit) = circuit.state
  <2>1. worker' = [worker EXCEPT ![w] = Goto("attempt")] /\ worker'[w] = Goto("attempt")
    BY <1>1, <1>2, <1>3
  <2>2. Fresh(w)'
    BY <2>1, Places DEF Fresh
  <2> QED
    <3>1. /\ Goto("attempt") \in WorkerTypes /\ Goto("attempt").pc # "record"
          /\ Agrees(Goto("attempt").next)
      BY Places, NewCircuitAgrees
    <3> QED
      BY <1>1, <1>2, <2>1, <2>2, <3>1, WorkerMoves
<1>4. CASE ResolvedState(circuit) # circuit.state
  <2> DEFINE r == [Goto("resolve") EXCEPT !.next = half]
  <2>1. /\ half \in CircuitTypes /\ Agrees(half) /\ circuit.state # "closed"
        /\ half.state = "half_open" /\ half.failures = circuit.failures
    BY <1>1, <1>2, <1>4, HalfOpenAgrees
  <2>2. r \in WorkerTypes /\ r.pc = "resolve" /\ r.next = half
    BY <2>1, NewCircuitAgrees DEF Goto, IdleWorker, WorkerTypes
  <2>3. worker' = [worker EXCEPT ![w] = r] /\ worker'[w] = r
    BY <1>1, <1>2, <1>4
  <2> HIDE DEF r, half
  <2>4. Fresh(w)'
    BY <1>1, <2>1, <2>2, <2>3 DEF Fresh
  <2> QED
    BY <1>1, <1>2, <2>1, <2>2, <2>3, <2>4, WorkerMoves
<1> QED
  BY <1>3, <1>4

LEMMA PersistStep ==
  ASSUME BreakerInv, NEW w \in Workers, NEW limited \in BOOLEAN, PersistHalfOpen(w, limited)
  PROVE  BreakerInv'
<1> DEFINE r == IF limited THEN IdleWorker ELSE Goto("attempt")
           c == worker[w].next
<1>1. /\ worker[w].pc = "resolve" /\ UpdateProviderCircuit(w, c, r)
      /\ raced' = (raced \/ worker[w].stale)
      /\ streak' = IF raced' THEN 0 ELSE streak
      /\ failed' = failed
  BY DEF PersistHalfOpen
<1>2. r \in WorkerTypes /\ r.pc \in {"idle", "attempt"} /\ Agrees(r.next)
  BY Places, NewCircuitAgrees
<1>3. /\ c \in CircuitTypes /\ Agrees(c) /\ raced \in BOOLEAN /\ worker[w].stale \in BOOLEAN
      /\ streak \in Nat
  BY DEF BreakerInv, RelayTypes, WorkerTypes
<1>4. raced' \in BOOLEAN /\ streak' \in Nat
  BY <1>1, <1>3
<1>5. ~raced' => c.failures = streak'
  <2> SUFFICES ASSUME ~raced' PROVE c.failures = streak'
    OBVIOUS
  <2>1. ~raced /\ ~worker[w].stale
    BY <1>1
  <2>2. streak' = streak
    BY <1>1
  <2> QED
    BY <1>1, <2>1, <2>2 DEF BreakerInv, Fresh
<1> HIDE DEF r, c
<1> QED
  BY <1>1, <1>2, <1>3, <1>4, <1>5, RowWritten

LEMMA RecordStep ==
  ASSUME BreakerInv, NEW w \in Workers, RecordAttemptResult(w)
  PROVE  BreakerInv'
<1> DEFINE c == worker[w].next
<1>1. /\ worker[w].pc = "record" /\ UpdateProviderCircuit(w, c, IdleWorker)
      /\ raced' = (~worker[w].ok /\ (raced \/ worker[w].stale))
      /\ streak' = IF worker[w].ok \/ raced' THEN 0 ELSE streak + 1
      /\ failed' = failed
  BY DEF RecordAttemptResult
<1>2. IdleWorker \in WorkerTypes /\ IdleWorker.pc = "idle" /\ Agrees(IdleWorker.next)
  BY Places, NewCircuitAgrees
<1>3. c \in CircuitTypes /\ Agrees(c) /\ streak \in Nat
  BY DEF BreakerInv, RelayTypes, WorkerTypes
<1>4. raced' \in BOOLEAN
  BY <1>1
<1>5. streak' \in Nat
  BY <1>1, <1>3
<1>6. ~raced' => c.failures = streak'
  <2>1. CASE worker[w].ok
    BY <1>1, <2>1, NewCircuitAgrees DEF BreakerInv
  <2>2. CASE ~worker[w].ok /\ ~raced'
    <3>1. ~raced /\ ~worker[w].stale
      BY <1>1, <2>2
    <3>2. streak' = streak + 1
      BY <1>1, <2>2
    <3> QED
      BY <1>1, <2>2, <3>1, <3>2 DEF BreakerInv, Fresh
  <2> QED
    BY <2>1, <2>2
<1> HIDE DEF c
<1> QED
  BY <1>1, <1>2, <1>3, <1>4, <1>5, <1>6, RowWritten

LEMMA RecordType ==
  ASSUME NEW d \in CircuitTypes, NEW ok \in BOOLEAN, NEW a \in BOOLEAN
  PROVE  [pc |-> "record", ok |-> ok, next |-> d, announce |-> a, stale |-> FALSE] \in WorkerTypes
BY DEF WorkerTypes

LEMMA ReadStep ==
  ASSUME BreakerInv, NEW w \in Workers, NEW ok \in BOOLEAN, DeliverAndRead(w, ok)
  PROVE  BreakerInv'
<1> DEFINE d == Decide(ok, circuit)
           r == [pc |-> "record", ok |-> ok, next |-> d,
                 announce |-> Announced(circuit, d), stale |-> FALSE]
<1>1. /\ worker' = [worker EXCEPT ![w] = r] /\ UNCHANGED <<circuit, streak, raced>>
      /\ ok \/ failed < MaxFailures
      /\ failed' = IF ok THEN failed ELSE failed + 1
  BY DEF DeliverAndRead
<1>2. circuit \in CircuitTypes /\ Agrees(circuit) /\ failed \in 0 .. MaxFailures
      /\ worker \in [Workers -> WorkerTypes]
  BY DEF BreakerInv, RelayTypes
<1>3. /\ d \in CircuitTypes /\ Agrees(d)
      /\ ok => d = NewCircuit
      /\ ~ok => d.failures = circuit.failures + 1
  BY <1>2, OutcomeAgrees
<1>4. failed' \in 0 .. MaxFailures
  BY <1>1, <1>2, RelayAssumption
<1> DEFINE a == Announced(circuit, d)
<1>5. a \in BOOLEAN /\ (d.state # circuit.state => a)
  BY DEF Announced
<1> HIDE DEF d, a
<1>6. r = [pc |-> "record", ok |-> ok, next |-> d, announce |-> a, stale |-> FALSE]
  BY DEF a
<1>7. /\ r \in WorkerTypes /\ r.pc = "record" /\ r.next = d
      /\ r.ok <=> ok
      /\ r.announce <=> a
  <2>1. r \in WorkerTypes
    BY <1>3, <1>5, <1>6, RecordType
  <2> QED
    BY <1>6, <2>1
<1>8. worker'[w] = r
  BY <1>1, <1>2
<1> HIDE DEF r
<1>9. Fresh(w)'
  BY <1>1, <1>3, <1>5, <1>7, <1>8 DEF Fresh
<1> QED
  <2>1. Agrees(r.next)
    BY <1>3, <1>7
  <2>2. r.pc = "record" /\ r.ok => r.next = NewCircuit
    <3>1. r.ok => d = NewCircuit
      BY <1>3, <1>7, Zenon
    <3> QED
      BY <1>7, <3>1
  <2> QED
    BY <1>1, <1>4, <1>7, <1>9, <2>1, <2>2, WorkerMoves

LEMMA BreakerStep == BreakerInv /\ [Next]_vars => BreakerInv'
<1> SUFFICES ASSUME BreakerInv, [Next]_vars PROVE BreakerInv'
  OBVIOUS
<1>0. failed \in 0 .. MaxFailures /\ worker \in [Workers -> WorkerTypes]
  BY DEF BreakerInv, RelayTypes
<1>1. CASE UNCHANGED relayVars
  BY <1>1 DEF relayVars, BreakerInv, RelayTypes, Fresh, Agrees
<1>2. CASE CooldownEnds
  <2>1. circuit.opened = "recent" /\ circuit' = [circuit EXCEPT !.opened = "cooled"]
        /\ UNCHANGED <<worker, failed, streak, raced>>
    BY <1>2 DEF CooldownEnds
  <2>2. circuit \in CircuitTypes
    BY DEF BreakerInv, RelayTypes
  <2>3. /\ circuit' \in CircuitTypes /\ circuit'.state = circuit.state
        /\ circuit'.failures = circuit.failures /\ circuit'.opened = "cooled"
    BY <2>1, <2>2 DEF CircuitTypes, OpenedAt
  <2>4. Agrees(circuit)'
    BY <2>1, <2>3 DEF BreakerInv, Agrees
  <2>5. \A v \in Workers : Fresh(v) => Fresh(v)'
    BY <2>1, <2>3 DEF Fresh
  <2> QED
    BY <2>1, <2>3, <2>4, <2>5 DEF BreakerInv, RelayTypes, Agrees
<1>3. ASSUME NEW w \in Workers, NEW r \in {IdleWorker, Goto("attempt")},
             worker' = [worker EXCEPT ![w] = r],
             UNCHANGED <<circuit, failed, streak, raced>>
      PROVE  BreakerInv'
  <2>1. r \in WorkerTypes /\ r.pc \in {"idle", "attempt"} /\ Agrees(r.next)
    BY Places, NewCircuitAgrees
  <2>2. worker'[w] = r
    BY <1>0, <1>3
  <2>3. Fresh(w)'
    BY <2>1, <2>2 DEF Fresh
  <2> QED
    BY <1>0, <1>3, <2>1, <2>3, WorkerMoves
<1>5. ASSUME NEW w \in Workers, RecordFails(w) PROVE BreakerInv'
  BY <1>3, <1>5 DEF RecordFails
<1>6. ASSUME NEW w \in Workers, NEW limited \in BOOLEAN, PersistHalfOpenFails(w, limited)
      PROVE  BreakerInv'
  BY <1>3, <1>6 DEF PersistHalfOpenFails
<1> QED
  BY <1>1, <1>2, <1>5, <1>6, SelectRouteStep, PersistStep, RecordStep, ReadStep
  DEF Next, RelayStep, vars, relayVars

LEMMA BreakerInit == Init => BreakerInv
<1> SUFFICES ASSUME Init PROVE BreakerInv
  OBVIOUS
<1>1. RelayTypes
  <2>1. IdleWorker \in WorkerTypes /\ NewCircuit \in CircuitTypes
    BY NewCircuitAgrees, Places
  <2>2. 0 \in 0 .. MaxFailures /\ 0 \in Nat /\ FALSE \in BOOLEAN
    BY RelayAssumption
  <2> QED
    BY <2>1, <2>2 DEF Init, RelayInit, RelayTypes
<1>2. \A w \in Workers : worker[w].pc = "idle" /\ worker[w].next = NewCircuit
  BY Places DEF Init, RelayInit
<1>3. circuit = NewCircuit /\ streak = 0
  BY DEF Init, RelayInit
<1> QED
  BY <1>1, <1>2, <1>3, NewCircuitAgrees DEF BreakerInv, Fresh

LEMMA BreakerInvariance == Spec => []BreakerInv
BY BreakerInit, BreakerStep, PTL DEF Spec

\* Whatever the workers write over each other, the three columns of the provider
\* agree: no open circuit is left without the time that lets it be tried again.
THEOREM CircuitIsConsistent == Spec => []CircuitConsistent
<1>1. BreakerInv => CircuitConsistent
  BY DEF BreakerInv, Agrees, CircuitConsistent
<1> QED
  BY <1>1, BreakerInvariance, PTL

\* While no write raced, the breaker trips exactly at the threshold, for any number
\* of workers and any threshold.
THEOREM BreakerCounts == Spec => []CountsUnlessRaced
<1>1. BreakerInv => CountsUnlessRaced
  <2> SUFFICES ASSUME BreakerInv, ~raced
               PROVE  circuit.failures = streak /\ (circuit.state = "closed" <=> streak < Threshold)
    BY DEF CountsUnlessRaced
  <2>1. circuit.failures = streak /\ circuit.failures \in Nat /\ Agrees(circuit)
    BY DEF BreakerInv, RelayTypes, CircuitTypes
  <2> QED
    BY <2>1, RelayAssumption DEF Agrees
<1> QED
  BY <1>1, BreakerInvariance, PTL

----------------------------------------------------------------------------
(* The table of the outbox and the calls that work on it.                  *)

Claims == [id : Nat, attempts : 0 .. MaxAttempts - 1]

ProcTypes == [pc : {"idle", "claim", "work", "retry"}, ids : SUBSET Nat, claimed : SUBSET Claims]

TableTypes ==
  /\ outbox \in Seq(Row)
  /\ proc \in [Processors -> ProcTypes]
  /\ events \subseteq Ids
  /\ deliveries \subseteq events \X Subscriptions
  /\ faults \in 0 .. MaxFaults

\* A waiting row has attempts left; a row is done with its event, and a stored event
\* without a finished row has been tried; the rows of other topics wait for ever.
RowInv ==
  \A i \in Ids :
    /\ outbox[i].status = "pending" => outbox[i].attempts < MaxAttempts
    /\ outbox[i].status = "done" => i \in events
    /\ i \in events => outbox[i].status = "done" \/ outbox[i].attempts > 0
    /\ outbox[i].topic # "webhook.event" => outbox[i].status = "pending" /\ outbox[i].attempts = 0

\* What a call holds is in the table as claimed, once, and held by no other call.
HoldInv ==
  \A p \in Processors :
    /\ \A i \in proc[p].ids : i \in Ids /\ outbox[i].topic = "webhook.event"
    /\ \A c \in proc[p].claimed :
         /\ c.id \in Ids /\ outbox[c.id].topic = "webhook.event"
         /\ outbox[c.id].status \in {"processing", "done"}
         /\ \A d \in proc[p].claimed : c.id = d.id => c = d
         /\ \A q \in Processors : q # p => \A d \in proc[q].claimed : c.id # d.id

\* Without a fault, every row that is being processed is held.
StrandInv ==
  faults = 0 => \A i \in Ids : outbox[i].status = "processing" =>
                  \E p \in Processors : \E c \in proc[p].claimed : c.id = i

TableInv == TableTypes /\ RowInv /\ HoldInv /\ StrandInv

\* The call changes, the table does not; what it drops unfinished, a fault made it
\* drop.
LEMMA CallMoves ==
  ASSUME TableInv, NEW p \in Processors, NEW r \in ProcTypes,
         proc' = [proc EXCEPT ![p] = r], UNCHANGED <<outbox, events, deliveries>>,
         r.claimed \subseteq proc[p].claimed,
         \A i \in r.ids : i \in Ids /\ outbox[i].topic = "webhook.event",
         (r.claimed = proc[p].claimed /\ faults' = faults) \/ Fault
  PROVE  TableInv'
<1>1. proc'[p] = r /\ \A q \in Processors : q # p => proc'[q] = proc[q]
  BY DEF TableInv, TableTypes
<1>2. faults' \in 0 .. MaxFaults /\ (faults' = 0 => r.claimed = proc[p].claimed /\ faults = 0)
  BY OutboxAssumption DEF TableInv, TableTypes, Fault
<1>3. Ids' = Ids
  BY DEF Ids
<1>4. TableTypes'
  BY <1>2, <1>3 DEF TableInv, TableTypes
<1>5. RowInv'
  BY <1>3 DEF TableInv, RowInv
<1>6. HoldInv'
  BY <1>1, <1>3 DEF TableInv, HoldInv
<1>7. StrandInv'
  BY <1>1, <1>2, <1>3 DEF TableInv, StrandInv
<1> QED
  BY <1>4, <1>5, <1>6, <1>7 DEF TableInv

\* The call deals with a row it holds, and drops it unless the row is still claimed.
LEMMA RowSettled ==
  ASSUME TableInv, NEW p \in Processors, NEW r \in ProcTypes, NEW c \in proc[p].claimed,
         NEW row \in Row,
         proc' = [proc EXCEPT ![p] = r], outbox' = [outbox EXCEPT ![c.id] = row],
         r.claimed \in {proc[p].claimed, proc[p].claimed \ {c}},
         r.ids \subseteq proc[p].ids,
         row.topic = "webhook.event", row.status # "processing",
         c \in r.claimed => row.status = "done",
         row.status = "pending" => row.attempts < MaxAttempts,
         row.status = "done" => c.id \in events',
         row.status = "done" \/ row.attempts > 0,
         events' \in {events, events \union {c.id}},
         deliveries' \subseteq events' \X Subscriptions,
         faults' = faults \/ Fault
  PROVE  TableInv'
<1>1. proc'[p] = r /\ \A q \in Processors : q # p => proc'[q] = proc[q]
  BY DEF TableInv, TableTypes
<1>2. faults' \in 0 .. MaxFaults /\ (faults' = 0 => faults = 0)
  BY OutboxAssumption DEF TableInv, TableTypes, Fault
<1>3. c.id \in Ids /\ outbox \in Seq(Row)
  BY DEF TableInv, HoldInv, TableTypes
<1>4. /\ Ids' = Ids /\ outbox' \in Seq(Row) /\ outbox'[c.id] = row
      /\ \A i \in Ids : i # c.id => outbox'[i] = outbox[i]
  BY <1>3 DEF Ids
<1>5. events' \subseteq Ids
  BY <1>3 DEF TableInv, TableTypes
<1>6. TableTypes'
  BY <1>2, <1>4, <1>5 DEF TableInv, TableTypes
<1>7. RowInv'
  BY <1>4 DEF TableInv, RowInv
<1>8. HoldInv'
  <2> SUFFICES ASSUME NEW q \in Processors
               PROVE  /\ \A i \in proc'[q].ids : i \in Ids /\ outbox'[i].topic = "webhook.event"
                      /\ \A d \in proc'[q].claimed :
                           /\ d.id \in Ids /\ outbox'[d.id].topic = "webhook.event"
                           /\ outbox'[d.id].status \in {"processing", "done"}
                           /\ \A e \in proc'[q].claimed : d.id = e.id => d = e
                           /\ \A o \in Processors : o # q => \A e \in proc'[o].claimed : d.id # e.id
    BY <1>4 DEF HoldInv
  <2>1. /\ proc'[q].ids \subseteq proc[q].ids
        /\ \A o \in Processors : proc'[o].claimed \subseteq proc[o].claimed
    BY <1>1
  <2>2. \A i \in Ids : outbox[i].topic = "webhook.event" => outbox'[i].topic = "webhook.event"
    BY <1>4
  <2>3. \A i \in proc'[q].ids : i \in Ids /\ outbox'[i].topic = "webhook.event"
    BY <2>1, <2>2 DEF TableInv, HoldInv
  <2>4. ASSUME NEW d \in proc'[q].claimed
        PROVE  outbox'[d.id].status \in {"processing", "done"}
    <3>1. d \in proc[q].claimed /\ d.id \in Ids /\ outbox[d.id].status \in {"processing", "done"}
      BY <2>1, <2>4 DEF TableInv, HoldInv
    <3>2. CASE d.id = c.id
      <4>1. q = p /\ d = c
        BY <3>1, <3>2 DEF TableInv, HoldInv
      <4> QED
        BY <1>1, <1>4, <2>4, <4>1
    <3> QED
      BY <1>4, <3>1, <3>2
  <2>5. \A d \in proc'[q].claimed :
          /\ d.id \in Ids /\ outbox'[d.id].topic = "webhook.event"
          /\ \A e \in proc'[q].claimed : d.id = e.id => d = e
          /\ \A o \in Processors : o # q => \A e \in proc'[o].claimed : d.id # e.id
    BY <2>1, <2>2 DEF TableInv, HoldInv
  <2> QED
    BY <2>3, <2>4, <2>5
<1>9. StrandInv'
  <2> SUFFICES ASSUME faults' = 0, NEW i \in Ids, outbox'[i].status = "processing"
               PROVE  \E q \in Processors : \E d \in proc'[q].claimed : d.id = i
    BY <1>4 DEF StrandInv
  <2>1. i # c.id /\ outbox[i].status = "processing"
    BY <1>4
  <2>2. PICK q \in Processors : \E d \in proc[q].claimed : d.id = i
    BY <1>2, <2>1 DEF TableInv, StrandInv
  <2>3. PICK d \in proc[q].claimed : d.id = i
    BY <2>2
  <2>4. d \in proc'[q].claimed
    BY <1>1, <2>1, <2>3
  <2> QED
    BY <2>3, <2>4
<1> QED
  BY <1>6, <1>7, <1>8, <1>9 DEF TableInv

\* A row is appended that waits, at once due.
LEMMA Appended ==
  ASSUME TableInv, NEW topic \in Topics, Enqueue(topic), UNCHANGED <<proc, events, deliveries, faults>>
  PROVE  TableInv'
<1> DEFINE row == [topic |-> topic, status |-> "pending", attempts |-> 0, due |-> TRUE]
<1>1. row \in Row /\ row.status = "pending" /\ row.attempts = 0
  BY OutboxAssumption DEF Row, OutboxStatus
<1>2. outbox' = Append(outbox, row) /\ outbox \in Seq(Row)
  BY DEF Enqueue, TableInv, TableTypes
<1> HIDE DEF row
<1>3. /\ outbox' \in Seq(Row) /\ Ids \subseteq Ids'
      /\ \A i \in Ids : outbox'[i] = outbox[i]
      /\ \A i \in Ids' : i \notin Ids => outbox'[i] = row
  BY <1>1, <1>2 DEF Ids
<1>4. TableTypes'
  BY <1>3 DEF TableInv, TableTypes
<1>5. RowInv'
  <2> SUFFICES ASSUME NEW i \in Ids'
               PROVE  /\ outbox'[i].status = "pending" => outbox'[i].attempts < MaxAttempts
                      /\ outbox'[i].status = "done" => i \in events
                      /\ i \in events => outbox'[i].status = "done" \/ outbox'[i].attempts > 0
                      /\ outbox'[i].topic # "webhook.event" => outbox'[i].status = "pending" /\ outbox'[i].attempts = 0
    BY DEF RowInv
  <2>1. CASE i \in Ids
    BY <1>3, <2>1 DEF TableInv, RowInv
  <2>2. CASE i \notin Ids
    <3>1. i \notin events
      BY <2>2 DEF TableInv, TableTypes
    <3> QED
      BY <1>1, <1>3, <2>2, <3>1, OutboxAssumption
  <2> QED
    BY <2>1, <2>2
<1>6. HoldInv'
  BY <1>3 DEF TableInv, HoldInv
<1>7. StrandInv'
  BY <1>1, <1>3 DEF TableInv, StrandInv
<1> QED
  BY <1>4, <1>5, <1>6, <1>7 DEF TableInv

\* A row is claimed for the call, which may fail to take note of it.
LEMMA RowClaimed ==
  ASSUME TableInv, NEW p \in Processors, NEW r \in ProcTypes, NEW i \in proc[p].ids,
         outbox[i].status = "pending",
         outbox' = [outbox EXCEPT ![i].status = "processing"],
         proc' = [proc EXCEPT ![p] = r], UNCHANGED <<events, deliveries>>,
         r.ids \subseteq proc[p].ids,
         \/ /\ r.claimed = proc[p].claimed \union {[id |-> i, attempts |-> outbox[i].attempts]}
            /\ faults' = faults
         \/ r.claimed = proc[p].claimed /\ Fault
  PROVE  TableInv'
<1>1. proc'[p] = r /\ \A q \in Processors : q # p => proc'[q] = proc[q]
  BY DEF TableInv, TableTypes
<1>2. faults' \in 0 .. MaxFaults /\ (faults' = 0 => faults = 0 /\ faults' = faults)
  BY OutboxAssumption DEF TableInv, TableTypes, Fault
<1>3. i \in Ids /\ outbox \in Seq(Row) /\ outbox[i].topic = "webhook.event"
  BY DEF TableInv, HoldInv, TableTypes
<1> DEFINE row == [outbox[i] EXCEPT !.status = "processing"]
<1>4. /\ row \in Row /\ row.status = "processing" /\ row.topic = "webhook.event"
      /\ row.attempts = outbox[i].attempts
  <2>1. outbox[i] \in Row
    BY <1>3 DEF Ids
  <2> QED
    BY <1>3, <2>1 DEF Row, OutboxStatus
<1>5. outbox' = [outbox EXCEPT ![i] = row]
  OBVIOUS
<1> HIDE DEF row
<1>6. /\ Ids' = Ids /\ outbox' \in Seq(Row) /\ outbox'[i] = row
      /\ \A j \in Ids : j # i => outbox'[j] = outbox[j]
  BY <1>3, <1>4, <1>5 DEF Ids
<1>7. \A q \in Processors : \A d \in proc[q].claimed : d.id # i
  BY DEF TableInv, HoldInv
<1>8. TableTypes'
  BY <1>2, <1>6 DEF TableInv, TableTypes
<1>9. RowInv'
  BY <1>3, <1>4, <1>6 DEF TableInv, RowInv
<1>10. \A d \in proc'[p].claimed : d \in proc[p].claimed \/ d.id = i
  BY <1>1
<1>11. \A d, e \in proc'[p].claimed : d.id = e.id => d = e
  BY <1>1, <1>7 DEF TableInv, HoldInv
<1>12. HoldInv'
  <2> SUFFICES ASSUME NEW q \in Processors
               PROVE  /\ \A j \in proc'[q].ids : j \in Ids /\ outbox'[j].topic = "webhook.event"
                      /\ \A d \in proc'[q].claimed :
                           /\ d.id \in Ids /\ outbox'[d.id].topic = "webhook.event"
                           /\ outbox'[d.id].status \in {"processing", "done"}
                           /\ \A e \in proc'[q].claimed : d.id = e.id => d = e
                           /\ \A o \in Processors : o # q => \A e \in proc'[o].claimed : d.id # e.id
    BY <1>6 DEF HoldInv
  <2>1. proc'[q].ids \subseteq proc[q].ids
    BY <1>1
  <2>2. \A j \in Ids : outbox[j].topic = "webhook.event" => outbox'[j].topic = "webhook.event"
    BY <1>4, <1>6
  <2>3. \A j \in proc'[q].ids : j \in Ids /\ outbox'[j].topic = "webhook.event"
    BY <2>1, <2>2 DEF TableInv, HoldInv
  <2>4. ASSUME NEW d \in proc'[q].claimed
        PROVE  /\ d.id \in Ids /\ outbox'[d.id].topic = "webhook.event"
               /\ outbox'[d.id].status \in {"processing", "done"}
    <3>1. CASE d.id = i
      BY <1>3, <1>4, <1>6, <3>1
    <3>2. CASE d.id # i
      <4>1. d \in proc[q].claimed
        BY <1>1, <1>10, <2>4, <3>2
      <4> QED
        BY <1>6, <3>2, <4>1 DEF TableInv, HoldInv
    <3> QED
      BY <3>1, <3>2
  <2>5. ASSUME NEW d \in proc'[q].claimed, NEW e \in proc'[q].claimed, d.id = e.id
        PROVE  d = e
    BY <1>1, <1>11, <2>5 DEF TableInv, HoldInv
  <2>6. ASSUME NEW d \in proc'[q].claimed, NEW o \in Processors, o # q, NEW e \in proc'[o].claimed
        PROVE  d.id # e.id
    BY <1>1, <1>7, <1>10, <2>6 DEF TableInv, HoldInv
  <2> QED
    BY <2>3, <2>4, <2>5, <2>6
<1>13. StrandInv'
  <2> SUFFICES ASSUME faults' = 0, NEW j \in Ids, outbox'[j].status = "processing"
               PROVE  \E q \in Processors : \E d \in proc'[q].claimed : d.id = j
    BY <1>6 DEF StrandInv
  <2>1. r.claimed = proc[p].claimed \union {[id |-> i, attempts |-> outbox[i].attempts]}
    BY <1>2, OutboxAssumption DEF Fault, TableInv, TableTypes
  <2>2. CASE j = i
    <3>1. [id |-> i, attempts |-> outbox[i].attempts] \in proc'[p].claimed
      BY <1>1, <2>1
    <3> QED
      BY <2>2, <3>1
  <2>3. CASE j # i
    <3>1. PICK q \in Processors : \E d \in proc[q].claimed : d.id = j
      BY <1>2, <1>6, <2>3 DEF TableInv, StrandInv
    <3>2. PICK d \in proc[q].claimed : d.id = j
      BY <3>1
    <3>3. d \in proc'[q].claimed
      BY <1>1, <2>1, <3>2
    <3> QED
      BY <3>2, <3>3
  <2> QED
    BY <2>2, <2>3
<1> QED
  BY <1>8, <1>9, <1>12, <1>13 DEF TableInv

----------------------------------------------------------------------------
(* The steps of a call.                                                    *)

LEMMA CallTypes ==
  ASSUME TableInv, NEW p \in Processors
  PROVE  /\ proc[p] \in ProcTypes /\ proc[p].claimed \subseteq Claims
         /\ Idle \in ProcTypes /\ Idle.claimed = {} /\ Idle.ids = {}
BY DEF TableInv, TableTypes, ProcTypes, Idle

LEMMA AfterClaimIs ==
  ASSUME TableInv, NEW p \in Processors, NEW i, NEW C \in SUBSET Claims, AfterClaim(p, i, C)
  PROVE  \E r \in ProcTypes : proc' = [proc EXCEPT ![p] = r] /\ r.claimed = C /\ r.ids \subseteq proc[p].ids
<1> DEFINE rest == proc[p].ids \ {i}
           r == IF rest # {} THEN [pc |-> "claim", ids |-> rest, claimed |-> C]
                ELSE IF C # {} THEN [pc |-> "work", ids |-> {}, claimed |-> C]
                ELSE Idle
<1>1. proc' = [proc EXCEPT ![p] = r]
  BY DEF AfterClaim
<1>2. rest \in SUBSET Nat /\ rest \subseteq proc[p].ids
  BY CallTypes DEF ProcTypes
<1> HIDE DEF rest
<1>3. r \in ProcTypes /\ r.claimed = C /\ r.ids \subseteq proc[p].ids
  BY <1>2, CallTypes DEF ProcTypes
<1> QED
  BY <1>1, <1>3

LEMMA NextItemIs ==
  ASSUME TableInv, NEW p \in Processors, NEW c \in proc[p].claimed, NextItem(p, c)
  PROVE  \E r \in ProcTypes : proc' = [proc EXCEPT ![p] = r] /\ r.claimed = proc[p].claimed \ {c} /\ r.ids = {}
<1> DEFINE rest == proc[p].claimed \ {c}
           r == IF rest = {} THEN Idle ELSE [pc |-> "work", ids |-> {}, claimed |-> rest]
<1>1. proc' = [proc EXCEPT ![p] = r]
  BY DEF NextItem
<1>2. rest \in SUBSET Claims
  BY CallTypes
<1> HIDE DEF rest
<1>3. r \in ProcTypes /\ r.claimed = rest /\ r.ids = {}
  BY <1>2, CallTypes DEF ProcTypes
<1> QED
  BY <1>1, <1>3 DEF rest

LEMMA ToRetryIs ==
  ASSUME TableInv, NEW p \in Processors, ToRetry(p)
  PROVE  \E r \in ProcTypes : proc' = [proc EXCEPT ![p] = r] /\ r.claimed = proc[p].claimed /\ r.ids = proc[p].ids
<1> DEFINE r == [proc[p] EXCEPT !.pc = "retry"]
<1>1. r \in ProcTypes /\ r.claimed = proc[p].claimed /\ r.ids = proc[p].ids
  BY CallTypes DEF ProcTypes
<1>2. proc' = [proc EXCEPT ![p] = r]
  BY DEF ToRetry
<1> QED
  BY <1>1, <1>2

LEMMA Fanned ==
  ASSUME TableInv, NEW i, InsertEventAndFanout(i)
  PROVE  /\ events' = events \union {i}
         /\ deliveries' \subseteq events' \X Subscriptions
         /\ \A e \in events : \A s \in Subscriptions :
              (<<e, s>> \in deliveries') <=> (<<e, s>> \in deliveries)
<1>1. events' = events \union {i}
  BY DEF InsertEventAndFanout
<1>2. CASE i \in events
  BY <1>1, <1>2 DEF InsertEventAndFanout, TableInv, TableTypes
<1>3. CASE i \notin events
  <2>1. PICK matches \in SUBSET Subscriptions : deliveries' = deliveries \union ({i} \X matches)
    BY <1>3 DEF InsertEventAndFanout
  <2> QED
    BY <1>1, <1>3, <2>1 DEF TableInv, TableTypes
<1> QED
  BY <1>1, <1>2, <1>3

\* The row of a claimed item, done.
LEMMA DoneRow ==
  ASSUME TableInv, NEW p \in Processors, NEW c \in proc[p].claimed, MarkDone(c.id)
  PROVE  \E row \in Row : /\ outbox' = [outbox EXCEPT ![c.id] = row]
                          /\ row.topic = "webhook.event" /\ row.status = "done"
<1> DEFINE row == [outbox[c.id] EXCEPT !.status = "done"]
<1>1. outbox[c.id] \in Row /\ outbox[c.id].topic = "webhook.event"
  BY DEF TableInv, TableTypes, HoldInv, Ids
<1>2. row \in Row /\ row.topic = "webhook.event" /\ row.status = "done"
  BY <1>1 DEF Row, OutboxStatus
<1>3. outbox' = [outbox EXCEPT ![c.id] = row]
  BY DEF MarkDone
<1> QED
  BY <1>2, <1>3

\* The row of a claimed item, put back.
LEMMA PutBackRow ==
  ASSUME TableInv, NEW p \in Processors, NEW c \in proc[p].claimed, PutBack(c, AfterFailure(c))
  PROVE  \E row \in Row : /\ outbox' = [outbox EXCEPT ![c.id] = row]
                          /\ row.topic = "webhook.event" /\ row.attempts > 0
                          /\ row.status \in {"pending", "failed"}
                          /\ row.status = "pending" => row.attempts < MaxAttempts
<1> DEFINE n == c.attempts + 1
           st == AfterFailure(c)
           row == [outbox[c.id] EXCEPT !.status = st, !.attempts = n, !.due = FALSE]
<1>1. outbox[c.id] \in Row /\ outbox[c.id].topic = "webhook.event" /\ c.id \in Ids
  BY DEF TableInv, TableTypes, HoldInv, Ids
<1>2. c \in Claims
  BY CallTypes
<1>3. /\ n \in 0 .. MaxAttempts /\ n > 0
      /\ st \in {"pending", "failed"}
      /\ st = "pending" => n < MaxAttempts
  BY <1>2, OutboxAssumption DEF Claims, AfterFailure
<1>4. outbox' = [outbox EXCEPT ![c.id].status = st, ![c.id].attempts = n, ![c.id].due = FALSE]
  BY DEF PutBack
<1> HIDE DEF n, st
<1>5. /\ row \in Row /\ row.topic = "webhook.event" /\ row.attempts = n /\ row.status = st
  BY <1>1, <1>3 DEF Row, OutboxStatus
<1>6. outbox' = [outbox EXCEPT ![c.id] = row]
  BY <1>1, <1>4 DEF TableInv, TableTypes, Ids
<1> QED
  BY <1>3, <1>5, <1>6

LEMMA CallStep ==
  ASSUME TableInv, NEW p \in Processors,
         \/ ListClaimable(p) \/ ClaimRow(p) \/ ClaimFails(p) \/ ReadClaimedFails(p)
         \/ FanOut(p) \/ FanOutUnknown(p) \/ FanOutFails(p) \/ BeginFails(p)
         \/ MarkRetry(p) \/ MarkRetryFails(p) \/ ProcessorCrash(p)
  PROVE  TableInv'
<1>1. CASE ListClaimable(p)
  <2> DEFINE r == [proc[p] EXCEPT !.pc = "claim", !.ids = FirstClaimable]
  <2>1. \A i \in FirstClaimable : i \in Ids /\ outbox[i].topic = "webhook.event"
    BY DEF FirstClaimable, Claimable
  <2>2. FirstClaimable \in SUBSET Nat
    BY DEF FirstClaimable, Ids, TableInv, TableTypes
  <2>3. r \in ProcTypes /\ r.claimed = proc[p].claimed /\ r.ids = FirstClaimable
    BY <2>2, CallTypes DEF ProcTypes
  <2>4. proc' = [proc EXCEPT ![p] = r]
    BY <1>1 DEF ListClaimable
  <2> HIDE DEF r
  <2> QED
    BY <1>1, <2>1, <2>3, <2>4, CallMoves DEF ListClaimable
<1>2. CASE ClaimRow(p)
  <2>1. PICK i \in proc[p].ids :
          \/ /\ Unclaimed(i)
             /\ outbox' = [outbox EXCEPT ![i].status = "processing"]
             /\ AfterClaim(p, i, proc[p].claimed \union {[id |-> i, attempts |-> outbox[i].attempts]})
          \/ /\ ~Unclaimed(i)
             /\ AfterClaim(p, i, proc[p].claimed)
             /\ UNCHANGED outbox
    BY <1>2 DEF ClaimRow
  <2>2. UNCHANGED <<events, deliveries, faults>>
    BY <1>2 DEF ClaimRow
  <2>3. CASE ~Unclaimed(i) /\ AfterClaim(p, i, proc[p].claimed) /\ UNCHANGED outbox
    <3>1. PICK r \in ProcTypes : proc' = [proc EXCEPT ![p] = r] /\ r.claimed = proc[p].claimed /\ r.ids \subseteq proc[p].ids
      BY <2>3, CallTypes, AfterClaimIs
    <3>2. \A j \in r.ids : j \in Ids /\ outbox[j].topic = "webhook.event"
      BY <3>1 DEF TableInv, HoldInv
    <3> QED
      BY <2>2, <2>3, <3>1, <3>2, CallMoves
  <2>4. CASE /\ Unclaimed(i)
             /\ outbox' = [outbox EXCEPT ![i].status = "processing"]
             /\ AfterClaim(p, i, proc[p].claimed \union {[id |-> i, attempts |-> outbox[i].attempts]})
    <3>1. i \in Ids /\ outbox[i] \in Row /\ outbox[i].status = "pending" /\ outbox[i].attempts < MaxAttempts
      BY <2>4 DEF Unclaimed, TableInv, TableTypes, RowInv, HoldInv, Ids
    <3>2. [id |-> i, attempts |-> outbox[i].attempts] \in Claims
      BY <3>1, CallTypes, OutboxAssumption DEF Row, Claims, ProcTypes
    <3> DEFINE C == proc[p].claimed \union {[id |-> i, attempts |-> outbox[i].attempts]}
    <3>3. C \in SUBSET Claims
      BY <3>2, CallTypes
    <3>4. AfterClaim(p, i, C)
      BY <2>4
    <3> HIDE DEF C
    <3>5. PICK r \in ProcTypes : proc' = [proc EXCEPT ![p] = r] /\ r.claimed = C /\ r.ids \subseteq proc[p].ids
      BY <3>3, <3>4, AfterClaimIs
    <3>6. r.claimed = proc[p].claimed \union {[id |-> i, attempts |-> outbox[i].attempts]}
      BY <3>5 DEF C
    <3> QED
      BY <2>2, <2>4, <3>1, <3>5, <3>6, RowClaimed
  <2> QED
    BY <2>1, <2>3, <2>4
<1>3. CASE ReadClaimedFails(p)
  <2>1. PICK i \in proc[p].ids :
          /\ Unclaimed(i)
          /\ outbox' = [outbox EXCEPT ![i].status = "processing"]
          /\ AfterClaim(p, i, proc[p].claimed)
    BY <1>3 DEF ReadClaimedFails
  <2>2. Fault /\ UNCHANGED <<events, deliveries>> /\ outbox[i].status = "pending"
    BY <1>3, <2>1 DEF ReadClaimedFails, Unclaimed
  <2>3. PICK r \in ProcTypes : proc' = [proc EXCEPT ![p] = r] /\ r.claimed = proc[p].claimed /\ r.ids \subseteq proc[p].ids
    BY <2>1, CallTypes, AfterClaimIs
  <2> QED
    BY <2>1, <2>2, <2>3, RowClaimed
<1>4. CASE ClaimFails(p) \/ BeginFails(p) \/ ProcessorCrash(p)
  <2>1. proc' = [proc EXCEPT ![p] = Idle] /\ Fault /\ UNCHANGED <<outbox, events, deliveries>>
    BY <1>4 DEF ClaimFails, BeginFails, ProcessorCrash
  <2>2. Idle.claimed \subseteq proc[p].claimed /\ Idle.ids = {} /\ Idle \in ProcTypes
    BY CallTypes
  <2> QED
    BY <2>1, <2>2, CallMoves
<1>5. CASE FanOutFails(p)
  <2>1. PICK r \in ProcTypes : proc' = [proc EXCEPT ![p] = r] /\ r.claimed = proc[p].claimed /\ r.ids = proc[p].ids
    BY <1>5, ToRetryIs DEF FanOutFails
  <2>2. \A j \in r.ids : j \in Ids /\ outbox[j].topic = "webhook.event"
    BY <2>1 DEF TableInv, HoldInv
  <2> QED
    BY <1>5, <2>1, <2>2, CallMoves DEF FanOutFails
<1>6. CASE MarkRetryFails(p)
  <2>1. PICK c \in proc[p].claimed : NextItem(p, c)
    BY <1>6 DEF MarkRetryFails, Items
  <2>2. PICK r \in ProcTypes : proc' = [proc EXCEPT ![p] = r] /\ r.claimed = proc[p].claimed \ {c} /\ r.ids = {}
    BY <2>1, NextItemIs
  <2> QED
    BY <1>6, <2>2, CallMoves DEF MarkRetryFails
<1>7. CASE FanOut(p)
  <2>1. PICK c \in proc[p].claimed : InsertEventAndFanout(c.id) /\ MarkDone(c.id) /\ NextItem(p, c)
    BY <1>7 DEF FanOut, Items
  <2>2. PICK r \in ProcTypes : proc' = [proc EXCEPT ![p] = r] /\ r.claimed = proc[p].claimed \ {c} /\ r.ids = {}
    BY <2>1, NextItemIs
  <2>3. PICK row \in Row : /\ outbox' = [outbox EXCEPT ![c.id] = row]
                           /\ row.topic = "webhook.event" /\ row.status = "done"
    BY <2>1, DoneRow
  <2>4. events' = events \union {c.id} /\ deliveries' \subseteq events' \X Subscriptions
    BY <2>1, Fanned
  <2> QED
    BY <1>7, <2>2, <2>3, <2>4, RowSettled DEF FanOut
<1>8. CASE FanOutUnknown(p)
  <2>1. PICK c \in proc[p].claimed : InsertEventAndFanout(c.id) /\ MarkDone(c.id)
    BY <1>8 DEF FanOutUnknown, Items
  <2>2. PICK r \in ProcTypes : proc' = [proc EXCEPT ![p] = r] /\ r.claimed = proc[p].claimed /\ r.ids = proc[p].ids
    BY <1>8, ToRetryIs DEF FanOutUnknown
  <2>3. PICK row \in Row : /\ outbox' = [outbox EXCEPT ![c.id] = row]
                           /\ row.topic = "webhook.event" /\ row.status = "done"
    BY <2>1, DoneRow
  <2>4. events' = events \union {c.id} /\ deliveries' \subseteq events' \X Subscriptions
    BY <2>1, Fanned
  <2> QED
    BY <1>8, <2>2, <2>3, <2>4, RowSettled DEF FanOutUnknown
<1>9. CASE MarkRetry(p)
  <2>1. PICK c \in proc[p].claimed : PutBack(c, AfterFailure(c)) /\ NextItem(p, c)
    BY <1>9 DEF MarkRetry, Items
  <2>2. PICK r \in ProcTypes : proc' = [proc EXCEPT ![p] = r] /\ r.claimed = proc[p].claimed \ {c} /\ r.ids = {}
    BY <2>1, NextItemIs
  <2>3. PICK row \in Row : /\ outbox' = [outbox EXCEPT ![c.id] = row]
                           /\ row.topic = "webhook.event" /\ row.attempts > 0
                           /\ row.status \in {"pending", "failed"}
                           /\ row.status = "pending" => row.attempts < MaxAttempts
    BY <2>1, PutBackRow
  <2>4. events' = events /\ deliveries' \subseteq events' \X Subscriptions /\ faults' = faults
    BY <1>9 DEF MarkRetry, TableInv, TableTypes
  <2> QED
    BY <2>2, <2>3, <2>4, RowSettled
<1> QED
  BY <1>1, <1>2, <1>3, <1>4, <1>5, <1>6, <1>7, <1>8, <1>9

LEMMA DueStep ==
  ASSUME TableInv, NEW i \in Ids, BecomesDue(i)
  PROVE  TableInv'
<1> DEFINE row == [outbox[i] EXCEPT !.due = TRUE]
<1>1. outbox' = [outbox EXCEPT ![i] = row] /\ UNCHANGED <<proc, events, deliveries, faults>>
  BY DEF BecomesDue
<1>2. outbox \in Seq(Row) /\ outbox[i] \in Row
  BY DEF TableInv, TableTypes, Ids
<1>3. /\ row \in Row /\ row.status = outbox[i].status /\ row.topic = outbox[i].topic
      /\ row.attempts = outbox[i].attempts
  BY <1>2 DEF Row
<1> HIDE DEF row
<1>4. /\ Ids' = Ids /\ outbox' \in Seq(Row)
      /\ \A j \in Ids : /\ outbox'[j].status = outbox[j].status
                        /\ outbox'[j].topic = outbox[j].topic
                        /\ outbox'[j].attempts = outbox[j].attempts
  BY <1>1, <1>2, <1>3 DEF Ids
<1>5. TableTypes'
  BY <1>1, <1>4 DEF TableInv, TableTypes
<1>6. RowInv'
  BY <1>1, <1>4 DEF TableInv, RowInv
<1>7. HoldInv'
  BY <1>1, <1>4 DEF TableInv, HoldInv
<1>8. StrandInv'
  BY <1>1, <1>4 DEF TableInv, StrandInv
<1> QED
  BY <1>5, <1>6, <1>7, <1>8 DEF TableInv

LEMMA TableStep == TableInv /\ [Next]_vars => TableInv'
<1> SUFFICES ASSUME TableInv, [Next]_vars PROVE TableInv'
  OBVIOUS
<1>1. CASE UNCHANGED outboxVars
  BY <1>1
  DEF outboxVars, TableInv, TableTypes, RowInv, HoldInv, StrandInv, Ids
<1>2. CASE Publish
  BY <1>2, Appended DEF Publish, Topics
<1>3. ASSUME NEW w \in Workers, RecordAttemptResult(w)
      PROVE  TableInv'
  BY <1>1, <1>3, Appended DEF RecordAttemptResult, Topics, outboxVars
\* A worker whose statement fails leaves the table alone.
<1>4. ASSUME Fault, UNCHANGED <<outbox, proc, events, deliveries>>
      PROVE  TableInv'
  <2>1. faults' \in 0 .. MaxFaults /\ faults' # 0
    BY <1>4, OutboxAssumption DEF TableInv, TableTypes, Fault
  <2> QED
    BY <1>4, <2>1 DEF TableInv, TableTypes, RowInv, HoldInv, StrandInv, Ids
<1>5. CASE RelayStep
  BY <1>1, <1>3, <1>4, <1>5
  DEF RelayStep, CooldownEnds, SelectRoute, RecordFails, PersistHalfOpen, PersistHalfOpenFails,
      DeliverAndRead
<1>6. CASE OutboxStep
  BY <1>2, <1>6, DueStep, CallStep DEF OutboxStep
<1>7. CASE UNCHANGED vars
  BY <1>1, <1>7 DEF vars, outboxVars
<1> QED
  BY <1>5, <1>6, <1>7 DEF Next

LEMMA TableInit == Init => TableInv
<1> SUFFICES ASSUME Init PROVE TableInv
  OBVIOUS
<1>1. outbox \in Seq(Row) /\ Ids = {}
  BY DEF Init, OutboxInit, Ids
<1>2. Idle \in ProcTypes /\ Idle.ids = {} /\ Idle.claimed = {}
  BY DEF Idle, ProcTypes
<1>3. TableTypes
  BY <1>1, <1>2, OutboxAssumption DEF Init, OutboxInit, TableTypes
<1>4. \A p \in Processors : proc[p] = Idle
  BY DEF Init, OutboxInit
<1> QED
  BY <1>1, <1>2, <1>3, <1>4 DEF TableInv, RowInv, HoldInv, StrandInv

LEMMA TableInvariance == Spec => []TableInv
BY TableInit, TableStep, PTL DEF Spec

\* Every variable of the breaker and of the outbox keeps to its type: no row is tried
\* more than MaxAttempts times.
THEOREM RelayTypesHold == Spec => []TypeOK
<1>1. BreakerInv /\ TableInv => TypeOK
  <2> SUFFICES ASSUME BreakerInv, TableInv PROVE TypeOK
    OBVIOUS
  <2>1. \A p \in Processors : /\ proc[p].ids \subseteq Ids
                              /\ \A c \in proc[p].claimed : c \in [id : Ids, attempts : 0 .. MaxAttempts - 1]
    BY DEF TableInv, HoldInv, TableTypes, ProcTypes, Claims
  <2>2. proc \in [Processors -> [pc : {"idle", "claim", "work", "retry"}, ids : SUBSET Ids,
                                 claimed : SUBSET [id : Ids, attempts : 0 .. MaxAttempts - 1]]]
    BY <2>1 DEF TableInv, TableTypes, ProcTypes
  <2>3. worker \in [Workers -> [pc : {"idle", "resolve", "attempt", "record"},
                                next : [state : CircuitState, failures : Nat, opened : OpenedAt],
                                ok : BOOLEAN, announce : BOOLEAN, stale : BOOLEAN]]
    BY DEF BreakerInv, RelayTypes, WorkerTypes, CircuitTypes
  <2> QED
    BY <2>2, <2>3 DEF TypeOK, BreakerInv, RelayTypes, CircuitTypes, TableInv, TableTypes
<1> QED
  BY <1>1, BreakerInvariance, TableInvariance, PTL

\* However the calls interleave, no two hold a row at once, and a waiting row is held
\* by none.
THEOREM RowsAreClaimedOnce == Spec => []ClaimedOnce
<1>1. TableInv => ClaimedOnce
  BY DEF TableInv, HoldInv, ClaimedOnce, HeldBy
<1> QED
  BY <1>1, TableInvariance, PTL

\* A done row has its event, and a stored event is worked on again only after a
\* retry.
THEOREM DoneRowsAreFanned == Spec => []DoneMeansFanned
<1>1. TableInv => DoneMeansFanned
  <2> SUFFICES ASSUME TableInv PROVE DoneMeansFanned
    OBVIOUS
  <2>1. events \subseteq Ids
    BY DEF TableInv, TableTypes
  <2> QED
    BY <2>1 DEF TableInv, RowInv, DoneMeansFanned
<1> QED
  BY <1>1, TableInvariance, PTL

\* The rows that announce transitions are never listed, claimed or settled by the
\* processors of the webhook topic.
THEOREM TopicsKeepApart == Spec => []TopicsApart
<1>1. TableInv => TopicsApart
  BY DEF TableInv, RowInv, HoldInv, TopicsApart, HeldBy
<1> QED
  BY <1>1, TableInvariance, PTL

\* Without a fault, no row stays in processing with nobody at work on it.
THEOREM OnlyFaultsStrand == Spec => []StrandedByFault
<1>1. TableInv => StrandedByFault
  BY DEF TableInv, StrandInv, StrandedByFault, Stranded, HeldBy
<1> QED
  BY <1>1, TableInvariance, PTL

\* No step adds a delivery to an event that is stored, or takes one away.
THEOREM EventsAreFannedOnce == Spec => FannedOnce
<1>1. TableInv /\ [Next]_vars =>
        \A i \in events : \A s \in Subscriptions :
          (<<i, s>> \in deliveries') <=> (<<i, s>> \in deliveries)
  <2> SUFFICES ASSUME TableInv, [Next]_vars, NEW i \in events, NEW s \in Subscriptions
               PROVE  (<<i, s>> \in deliveries') <=> (<<i, s>> \in deliveries)
    OBVIOUS
  <2>1. \/ deliveries' = deliveries
        \/ \E p \in Processors : FanOut(p) \/ FanOutUnknown(p)
    BY DEF Next, RelayStep, OutboxStep, CooldownEnds, SelectRoute, RecordAttemptResult, RecordFails,
           PersistHalfOpen, PersistHalfOpenFails, DeliverAndRead, Publish, BecomesDue, ListClaimable,
           ClaimRow, ClaimFails, ReadClaimedFails, FanOutFails, BeginFails, MarkRetry,
           MarkRetryFails, ProcessorCrash, outboxVars, vars
  <2>2. ASSUME NEW p \in Processors, FanOut(p) \/ FanOutUnknown(p)
        PROVE  (<<i, s>> \in deliveries') <=> (<<i, s>> \in deliveries)
    <3>1. PICK c \in proc[p].claimed : InsertEventAndFanout(c.id)
      BY <2>2 DEF FanOut, FanOutUnknown, Items
    <3> QED
      BY <3>1, Fanned
  <2> QED
    BY <2>1, <2>2
<1> QED
  BY <1>1, TableInvariance, PTL DEF Spec, FannedOnce

\* One transaction stores a new event with its deliveries, or nothing.
LEMMA TransactionFans ==
  ASSUME NEW i, InsertEventAndFanout(i)
  PROVE  [Fanout!FanoutNext]_(Fanout!fanoutVars)
<1>1. CASE i \in events
  <2>1. UNCHANGED <<events, deliveries>>
    BY <1>1 DEF InsertEventAndFanout
  <2> QED
    BY <2>1 DEF Fanout!fanoutVars
<1>2. CASE i \notin events
  <2>1. i \in events' \ events /\ Fanout!Fan(i)
    BY <1>2 DEF InsertEventAndFanout, Fanout!Fan
  <2> QED
    BY <2>1 DEF Fanout!FanoutNext
<1> QED
  BY <1>1, <1>2

\* The processors of the outbox implement EventFanout, whatever statement fails,
\* whichever answer is lost and wherever a process dies.
THEOREM ProcessorsFanOut == Spec => FanoutContract
<1>1. Init => Fanout!FanoutInit
  BY DEF Init, OutboxInit, Fanout!FanoutInit
<1>2. [Next]_vars => [Fanout!FanoutNext]_(Fanout!fanoutVars)
  <2> SUFFICES ASSUME [Next]_vars
               PROVE  [Fanout!FanoutNext]_(Fanout!fanoutVars)
    OBVIOUS
  <2>1. \/ UNCHANGED <<events, deliveries>>
        \/ \E p \in Processors : FanOut(p) \/ FanOutUnknown(p)
    BY DEF Next, RelayStep, OutboxStep, CooldownEnds, SelectRoute, RecordAttemptResult, RecordFails,
           PersistHalfOpen, PersistHalfOpenFails, DeliverAndRead, Publish, BecomesDue, ListClaimable,
           ClaimRow, ClaimFails, ReadClaimedFails, FanOutFails, BeginFails, MarkRetry,
           MarkRetryFails, ProcessorCrash, outboxVars, vars
  <2>2. ASSUME NEW p \in Processors, FanOut(p) \/ FanOutUnknown(p)
        PROVE  [Fanout!FanoutNext]_(Fanout!fanoutVars)
    <3>1. PICK c \in Items(p) : InsertEventAndFanout(c.id)
      BY <2>2 DEF FanOut, FanOutUnknown
    <3> QED
      BY <3>1, TransactionFans
  <2> QED
    BY <2>1, <2>2 DEF Fanout!fanoutVars
<1> QED
  BY <1>1, <1>2, PTL DEF Spec, FanoutContract, Fanout!FanoutSpec

----------------------------------------------------------------------------
(* Breaker and outbox together.                                            *)

\* A circuit closes or stops being closed together with its event, unless the write
\* was stale.
THEOREM TransitionsAreAnnounced == Spec => AnnouncedUnlessRaced
<1> DEFINE Told ==
      (circuit.state = "closed") # (circuit'.state = "closed")
        => \/ Len(outbox') = Len(outbox) + 1 /\ outbox'[Len(outbox')].topic = "relay.circuit.transition"
           \/ \E w \in Workers : worker[w].stale /\ worker'[w] # worker[w]
<1>1. BreakerInv /\ [Next]_vars /\ TableInv => Told
  <2> SUFFICES ASSUME BreakerInv, [Next]_vars, TableInv,
                      ~(circuit.state = "closed" <=> circuit'.state = "closed")
               PROVE  \/ Len(outbox') = Len(outbox) + 1 /\ outbox'[Len(outbox')].topic = "relay.circuit.transition"
                      \/ \E w \in Workers : worker[w].stale /\ worker'[w] # worker[w]
    OBVIOUS
  <2>0. circuit \in CircuitTypes /\ worker \in [Workers -> WorkerTypes]
    BY DEF BreakerInv, RelayTypes
  <2>1. PICK w \in Workers :
          RecordAttemptResult(w) \/ \E limited \in BOOLEAN : PersistHalfOpen(w, limited)
    <3>1. CooldownEnds => circuit'.state = circuit.state
      BY <2>0 DEF CooldownEnds, CircuitTypes
    <3> QED
      BY <3>1 DEF Next, RelayStep, SelectRoute, RecordFails, PersistHalfOpenFails, DeliverAndRead,
                  relayVars, vars
  <2>2. worker'[w].pc \in {"idle", "attempt"} /\ worker[w].pc \in {"resolve", "record"}
    BY <2>1, Places DEF RecordAttemptResult, PersistHalfOpen, UpdateProviderCircuit
  <2>3. CASE worker[w].stale
    BY <2>2, <2>3
  <2>4. CASE ~worker[w].stale
    <3>1. Fresh(w) /\ circuit' = worker[w].next
      BY <2>1, <2>4 DEF BreakerInv, RecordAttemptResult, PersistHalfOpen, UpdateProviderCircuit
    <3>2. RecordAttemptResult(w)
      BY <2>1, <3>1 DEF Fresh, PersistHalfOpen
    <3>3. outbox' = Append(outbox, [topic |-> "relay.circuit.transition", status |-> "pending",
                                    attempts |-> 0, due |-> TRUE])
      BY <3>1, <3>2 DEF Fresh, RecordAttemptResult, Enqueue
    <3>4. outbox \in Seq(Row)
      BY DEF TableInv, TableTypes
    <3> QED
      BY <3>3, <3>4
  <2> QED
    BY <2>3, <2>4
<1> QED
  BY <1>1, BreakerInvariance, TableInvariance, PTL DEF Spec, AnnouncedUnlessRaced

=============================================================================
