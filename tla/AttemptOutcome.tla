--------------------------- MODULE AttemptOutcome ---------------------------
(***************************************************************************)
(* What a delivery attempt returns to the worker that asked for it, and    *)
(* how many copies of the message it may have handed over by then: the     *)
(* interface between MailQueue, which counts the copies of a row over all  *)
(* its attempts, and DeliveryAttempt, which makes one attempt.             *)
(***************************************************************************)
EXTENDS Integers

CONSTANT MaxChain  \* servers that one attempt may hand the message to

ASSUME MaxChainAssumption == MaxChain \in Nat \ {0}

Outcomes == {"delivered", "tempfail", "permfail", "refused"}

\* n copies were handed over, the acceptance of u of them was not read.  Relays
\* and exchangers may have taken the message without their answer being read; a
\* delivered message has one copy more, and one refused beforehand has none.
Owes(r, n, u) ==
    /\ n \in 0..MaxChain
    /\ n = u + (IF r = "delivered" THEN 1 ELSE 0)
    /\ r = "refused" => n = 0
=============================================================================
