------------------------- MODULE MCDeliveryAttempt -------------------------
(* An instance of DeliveryAttempt for TLC.                                 *)
EXTENDS DeliveryAttempt

CONSTANTS r1, r2, r3, r4, x1, x2

\* A primary with a credential, a fallback that can never be resolved safely,
\* one without credential and TLS, and one past the bound of the chain.
MCChain == <<r1, r2, r3, r4>>
MCMX == <<x1, x2>>
MCSecurity ==
    [s \in {r1, r2, r3, r4} |->
        CASE s = r1 -> "starttls" [] s \in {r2, r3} -> "none" [] s = r4 -> "implicit_tls"]
MCCredential == [s \in {r1, r2, r3, r4} |-> s \in {r1, r2, r4}]
=============================================================================
