---------------------------- MODULE EventFanout ----------------------------
(***************************************************************************)
(* What the webhook tables promise about an event                          *)
(* (src/internal/webhooks/repository.go, InsertEventAndFanoutTx): it is    *)
(* stored once, with the deliveries it will ever have, and both stay.      *)
(* RelayCircuit, whose processors repeat the call after failures, and      *)
(* WebhookDelivery, whose deliveries live on, both implement this module.  *)
(***************************************************************************)
CONSTANT Subscriptions

VARIABLES
  fanned,  \* the stored events
  rows     \* their original deliveries: <<event, subscription>>

fanoutVars == <<fanned, rows>>

FanoutInit == fanned = {} /\ rows = {}

\* An event is new to the table, and the subscriptions that get it are those
\* that ask for it at that moment.
Fan(e) ==
  /\ e \notin fanned
  /\ fanned' = fanned \union {e}
  /\ \E matches \in SUBSET Subscriptions : rows' = rows \union ({e} \X matches)

FanoutNext == \E e \in fanned' \ fanned : Fan(e)

FanoutSpec == FanoutInit /\ [][FanoutNext]_fanoutVars

=============================================================================
