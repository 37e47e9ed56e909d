------------------------- MODULE MCWebhookDelivery -------------------------
(* An instance of WebhookDelivery for TLC.                                 *)
EXTENDS WebhookDelivery, TLC

CONSTANTS v1, v2, s1, p1, p2

ProcessorSymmetry == Permutations(Processors)
=============================================================================
