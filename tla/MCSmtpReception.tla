-------------------------- MODULE MCSmtpReception --------------------------
(* An instance of SmtpReception for TLC: two mailboxes, an alias of both,  *)
(* an external address, and two users with a sender each.                  *)
EXTENDS SmtpReception, TLC

CONSTANTS m1, m2, u1, u2, f1, f2, alias, local, remote

SmallHome == [a \in {alias, local, remote} |->
                IF a = alias THEN {m1, m2} ELSE IF a = local THEN {m1} ELSE {}]

SmallOwned == [u \in {u1, u2} |-> IF u = u1 THEN {f1} ELSE {f2}]

\* The users may change places, if their senders do.
UserSymmetry ==
  {p \in Permutations({u1, u2, f1, f2}) : p[u1] \in {u1, u2} /\ p[u2] \in {u1, u2}
                                           /\ (p[u1] = u1 <=> p[f1] = f1)}

=============================================================================
