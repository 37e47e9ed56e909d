---------------------------- MODULE RelayCircuit ----------------------------
(***************************************************************************)
(* The circuit breaker of one relay provider (src/internal/platform/relay: *)
(* circuitbreaker.go, and SelectRoute and RecordAttemptResult of           *)
(* service.go), composed with the kernel outbox that its transition events *)
(* share with the webhook events (KernelOutbox).                           *)
(*                                                                         *)
(* The breaker is pure logic over three columns of the provider's row.     *)
(* Delivery workers read the row, decide, and write all three columns by   *)
(* the provider's id alone, so that a worker may write over a row that     *)
(* another one changed since it was read; the worker's field "stale" is    *)
(* history that remembers this.                                            *)
(***************************************************************************)
EXTENDS KernelOutbox

CONSTANTS
  Workers,      \* delivery workers that route through the provider
  Threshold,    \* FailureThreshold of the breaker
  MaxFailures,  \* bound: attempts that fail
  MaxLoad       \* bound: attempts that fail, events published and faults, together

ASSUME RelayAssumption == Threshold \in Nat \ {0} /\ MaxFailures \in Nat /\ MaxLoad \in Nat

VARIABLES
  circuit,   \* circuit_state, circuit_failures and circuit_opened_at of the provider
  worker,    \* each worker's place in SelectRoute, Deliver and RecordAttemptResult, and what it will write
  failed,    \* attempts that failed so far
  streak,    \* history: failures recorded since the last success, while no write raced
  raced      \* history: a stale write since the last recorded success

relayVars == <<circuit, worker, failed, streak, raced>>
vars == <<outbox, proc, events, deliveries, faults, circuit, worker, failed, streak, raced>>

-----------------------------------------------------------------------------
CircuitState == {"closed", "open", "half_open"}

\* circuit_opened_at: nil, less than a cooldown ago, or longer ago.
OpenedAt == {"nil", "recent", "cooled"}

Circuit(state, failures, opened) == [state |-> state, failures |-> failures, opened |-> opened]

NewCircuit == Circuit("closed", 0, "nil")

IdleWorker == [pc |-> "idle", ok |-> FALSE, next |-> NewCircuit, announce |-> FALSE, stale |-> FALSE]

RelayInit ==
  /\ circuit = NewCircuit
  /\ worker = [w \in Workers |-> IdleWorker]
  /\ failed = 0 /\ streak = 0 /\ raced = FALSE

Init == OutboxInit /\ RelayInit

-----------------------------------------------------------------------------
(* CircuitBreaker.                                                         *)

\* IsAvailable: the state in which the provider may be used, and whether it may.
ResolvedState(c) == IF c.state = "open" /\ c.opened = "cooled" THEN "half_open" ELSE c.state

IsAvailable(c) == ResolvedState(c) # "open"

OnSuccess == NewCircuit

\* Mutant: the breaker trips one failure late.
OnFailureLate(c) ==
  IF c.state = "half_open" \/ c.failures + 1 > Threshold
  THEN Circuit("open", c.failures + 1, "recent")
  ELSE Circuit("closed", c.failures + 1, "nil")

OnFailure(c) ==
  IF c.state = "half_open" \/ c.failures + 1 >= Threshold
  THEN Circuit("open", c.failures + 1, "recent")
  ELSE Circuit("closed", c.failures + 1, "nil")

-----------------------------------------------------------------------------
(* The workers.                                                            *)

\* UPDATE platform_relay_providers SET ... WHERE id = ...: whoever read the row
\* before holds a stale copy from now on.  The worker itself goes on with "next".
UpdateProviderCircuit(w, c, next) ==
  /\ circuit' = c
  /\ worker' = [v \in Workers |->
       IF v = w THEN next
       ELSE IF worker[v].pc \in {"resolve", "record"} THEN [worker[v] EXCEPT !.stale = TRUE]
       ELSE worker[v]]

Goto(pc) == [IdleWorker EXCEPT !.pc = pc]

\* SelectRoute reads the providers of the pool.  One that may be used is tried,
\* after its lazy transition to half-open is persisted.
SelectRoute(w) ==
  /\ worker[w].pc = "idle"
  /\ IsAvailable(circuit)
  /\ worker' = [worker EXCEPT ![w] =
       IF ResolvedState(circuit) = circuit.state THEN Goto("attempt")
       ELSE [Goto("resolve") EXCEPT !.next = Circuit(ResolvedState(circuit), circuit.failures, circuit.opened)]]
  /\ UNCHANGED <<circuit, failed, streak, raced>>
  /\ UNCHANGED outboxVars

\* The transition open -> half_open is written with the failures and the time
\* that were read; then the rate limit is consulted, which may rule the provider
\* out (limited).
PersistHalfOpen(w, limited) ==
  /\ worker[w].pc = "resolve"
  /\ UpdateProviderCircuit(w, worker[w].next, IF limited THEN IdleWorker ELSE Goto("attempt"))
  /\ raced' = (raced \/ worker[w].stale)
  /\ streak' = IF raced' THEN 0 ELSE streak
  /\ UNCHANGED failed
  /\ UNCHANGED outboxVars

\* The write fails; its error is discarded and the provider is tried all the same.
PersistHalfOpenFails(w, limited) ==
  /\ worker[w].pc = "resolve"
  /\ Fault
  /\ worker' = [worker EXCEPT ![w] = IF limited THEN IdleWorker ELSE Goto("attempt")]
  /\ UNCHANGED <<circuit, failed, streak, raced>>
  /\ UNCHANGED <<outbox, proc, events, deliveries>>

\* Mutant: a success resets the counter and leaves the state.
DecideCountOnly(ok, c) == IF ok THEN [c EXCEPT !.failures = 0] ELSE OnFailure(c)

\* The outcome of the attempt applied to the row that was read.
Decide(ok, c) == IF ok THEN OnSuccess ELSE OnFailure(c)

\* Mutant: only an opening is announced.
AnnouncedOpening(c, d) == d.state = "open" /\ c.state # "open"

\* An event is due when the new state differs from the state that was read.
Announced(c, d) == d.state # c.state

\* RelaySelector.Deliver and the start of RecordAttemptResult: the relay takes the
\* message or the attempt fails, and the worker reads the provider's row and
\* decides.
DeliverAndRead(w, ok) ==
  /\ worker[w].pc = "attempt"
  /\ ok \/ failed < MaxFailures
  /\ failed' = IF ok THEN failed ELSE failed + 1
  /\ worker' = [worker EXCEPT ![w] =
       [pc |-> "record", ok |-> ok, next |-> Decide(ok, circuit),
        announce |-> Announced(circuit, Decide(ok, circuit)), stale |-> FALSE]]
  /\ UNCHANGED <<circuit, streak, raced>>
  /\ UNCHANGED outboxVars

\* One transaction: the new circuit and, when the state changes, its event.
RecordAttemptResult(w) ==
  /\ worker[w].pc = "record"
  /\ UpdateProviderCircuit(w, worker[w].next, IdleWorker)
  /\ IF worker[w].announce THEN Enqueue("relay.circuit.transition") ELSE UNCHANGED outbox
  /\ raced' = (~worker[w].ok /\ (raced \/ worker[w].stale))
  /\ streak' = IF worker[w].ok \/ raced' THEN 0 ELSE streak + 1
  /\ UNCHANGED <<failed, proc, events, deliveries, faults>>

\* The read or the transaction fails, or the process dies: the attempt is not
\* recorded, whatever its outcome was.
RecordFails(w) ==
  /\ worker[w].pc \in {"attempt", "record"}
  /\ Fault
  /\ worker' = [worker EXCEPT ![w] = IdleWorker]
  /\ UNCHANGED <<circuit, failed, streak, raced>>
  /\ UNCHANGED <<outbox, proc, events, deliveries>>

\* The cooldown of an open circuit is over.
CooldownEnds ==
  /\ circuit.opened = "recent"
  /\ circuit' = [circuit EXCEPT !.opened = "cooled"]
  /\ UNCHANGED <<worker, failed, streak, raced>>
  /\ UNCHANGED outboxVars

-----------------------------------------------------------------------------
RelayStep ==
  \/ CooldownEnds
  \/ \E w \in Workers :
       \/ SelectRoute(w) \/ RecordAttemptResult(w) \/ RecordFails(w)
       \/ \E limited \in BOOLEAN : PersistHalfOpen(w, limited) \/ PersistHalfOpenFails(w, limited)
       \/ \E ok \in BOOLEAN : DeliverAndRead(w, ok)

Next ==
  /\ RelayStep \/ (OutboxStep /\ UNCHANGED relayVars)
  /\ failed' + Cardinality(Published') + faults' <= MaxLoad

Spec == Init /\ [][Next]_vars

\* A worker that has mail to send asks for a route and runs its attempt to the
\* end; the ticker and the platform job call ProcessOutbox again and again; time
\* passes.
Attempt(w) ==
  \/ SelectRoute(w) \/ RecordAttemptResult(w)
  \/ \E limited \in BOOLEAN : PersistHalfOpen(w, limited)
  \/ \E ok \in BOOLEAN : DeliverAndRead(w, ok)

Fairness ==
  /\ \A w \in Workers : WF_vars(Attempt(w))
  /\ WF_vars(CooldownEnds)
  /\ \A p \in Processors : WF_vars(ProcessOutbox(p) /\ UNCHANGED relayVars)
  /\ WF_vars(\E i \in Ids : BecomesDue(i) /\ UNCHANGED relayVars)

FairSpec == Spec /\ Fairness

-----------------------------------------------------------------------------
(* Properties.                                                             *)

TypeOK ==
  /\ outbox \in Seq(Row)
  /\ proc \in [Processors -> [pc : {"idle", "claim", "work", "retry"}, ids : SUBSET Ids,
                              claimed : SUBSET [id : Ids, attempts : 0 .. MaxAttempts - 1]]]
  /\ events \subseteq Ids
  /\ deliveries \subseteq events \X Subscriptions
  /\ faults \in 0 .. MaxFaults
  /\ circuit \in [state : CircuitState, failures : Nat, opened : OpenedAt]
  /\ worker \in [Workers -> [pc : {"idle", "resolve", "attempt", "record"},
                             next : [state : CircuitState, failures : Nat, opened : OpenedAt],
                             ok : BOOLEAN, announce : BOOLEAN, stale : BOOLEAN]]
  /\ failed \in 0 .. MaxFailures /\ streak \in Nat /\ raced \in BOOLEAN

\* The three circuit columns always agree, whatever stale values the workers
\* write over each other: a closed circuit has fewer failures than the threshold
\* and no opening time, any other one has reached the threshold and has one.  (An
\* open circuit with fewer failures would be closed by the next failure; one
\* without an opening time would never be tried again.)
CircuitConsistent ==
  IF circuit.state = "closed"
  THEN circuit.failures < Threshold /\ circuit.opened = "nil"
  ELSE circuit.failures >= Threshold /\ circuit.opened # "nil"

\* The breaker trips on time unless writes raced: while no worker has written over
\* a row that changed under it, the counter is exactly the number of failures
\* recorded since the last success, and the circuit is closed exactly while
\* that number is below the threshold.
CountsUnlessRaced ==
  ~raced => /\ circuit.failures = streak
            /\ (circuit.state = "closed") = (streak < Threshold)

\* A circuit that closes, or stops being closed, is announced by an event of the
\* same step, unless the worker that wrote it had read an older row.
AnnouncedUnlessRaced ==
  [][(circuit.state = "closed") # (circuit'.state = "closed")
       => \/ Len(outbox') = Len(outbox) + 1 /\ outbox'[Len(outbox')].topic = "relay.circuit.transition"
          \/ \E w \in Workers : worker[w].stale /\ worker'[w] # worker[w]]_vars

\* Two calls of ProcessOutbox never hold the same row, and a row that is waiting
\* in the table is held by none.
ClaimedOnce ==
  /\ \A p, q \in Processors : p # q => HeldBy(p) \intersect HeldBy(q) = {}
  /\ \A p \in Processors : \A i \in HeldBy(p) : outbox[i].status \in {"processing", "done"}

\* The deliveries of an event are written by one transaction, for the
\* subscriptions of that moment: neither a repetition after a lost commit answer
\* nor a subscription that appears later adds one.
FannedOnce ==
  [][\A i \in events : \A s \in Subscriptions :
       (<<i, s>> \in deliveries') <=> (<<i, s>> \in deliveries)]_vars

Fanout == INSTANCE EventFanout WITH fanned <- events, rows <- deliveries

\* The calls of ProcessOutbox, with all their repetitions, implement EventFanout:
\* an event is stored once, together with its deliveries, and no step drops or
\* adds one afterwards.
FanoutContract == Fanout!FanoutSpec

\* A row is done only when its event is stored, and a row that is processed though
\* its event is stored was put back by MarkRetry after a commit whose answer was
\* lost.
DoneMeansFanned ==
  /\ \A i \in Ids : outbox[i].status = "done" => i \in events
  /\ \A i \in events : outbox[i].status = "processing" => outbox[i].attempts > 0

\* The webhook processors leave the rows of other topics alone.
TopicsApart ==
  \A i \in Ids : outbox[i].topic # "webhook.event" =>
    /\ outbox[i].status = "pending" /\ outbox[i].attempts = 0
    /\ \A p \in Processors : i \notin proc[p].ids /\ i \notin HeldBy(p)

\* A row that was claimed and that no call holds any more: nothing claims it again.
Stranded(i) == outbox[i].status = "processing" /\ \A p \in Processors : i \notin HeldBy(p)

\* Only a fault strands a row: while statements succeed and no process dies,
\* every claimed row is in the hands of a call.
StrandedByFault == faults = 0 => \A i \in Ids : ~Stranded(i)

\* Every event that was published is fanned out, or failed after its attempts, or
\* stranded by a fault.
EventEnds ==
  \A i \in 1 .. MaxEvents :
    (i \in Ids) ~> (i \in Ids /\ (outbox[i].status \in {"done", "failed"} \/ Stranded(i) \/ outbox[i].topic # "webhook.event"))

\* A provider whose attempts stop failing is in use again for good.
FinallyClosed == <>[](circuit.state = "closed")

=============================================================================
