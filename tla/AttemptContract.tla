-------------------------- MODULE AttemptContract --------------------------
(***************************************************************************)
(* A delivery attempt as the queue sees it, step by step: servers take     *)
(* the message one at a time, each but the last without its answer being   *)
(* read, until the attempt returns.  The process may die after any step,   *)
(* so what was handed over counts from the moment it happens.              *)
(***************************************************************************)
EXTENDS AttemptOutcome

VARIABLES
    returned, \* "none" until the attempt returns
    copies,   \* copies handed over
    unsure    \* those of them whose acceptance was not read

contractVars == <<returned, copies, unsure>>

ContractInit == returned = "none" /\ copies = 0 /\ unsure = 0

Take == copies < MaxChain /\ copies' = copies + 1

TakeUnread == Take /\ unsure' = unsure + 1

\* A server may have taken the message, and the attempt goes on.
HandOver == returned = "none" /\ TakeUnread /\ UNCHANGED returned

Deliver == Take /\ UNCHANGED unsure

\* The attempt returns r, on the strength of its last server.
ReturnWith(r) ==
    /\ returned = "none" /\ returned' = r
    /\ r = "delivered" => Deliver
    /\ r # "delivered" => TakeUnread \/ UNCHANGED <<copies, unsure>>
    /\ r = "refused" => copies' = 0

ContractNext == HandOver \/ \E r \in Outcomes : ReturnWith(r)

ContractSpec == ContractInit /\ [][ContractNext]_contractVars
=============================================================================
