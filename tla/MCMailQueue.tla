---------------------------- MODULE MCMailQueue ----------------------------
(* Instances of MailQueue for TLC.                                         *)
EXTENDS MailQueue, TLC

CONSTANTS e1, e2, w1, w2

OneEntry == {e1}
TwoEntries == {e1, e2}
TwoWorkers == {w1, w2}

\* e1 goes first when both are due.
MCPriority == [e \in Entries |-> IF e = e1 THEN 1 ELSE 0]
\* With three attempts a row is retried once before it is dead-lettered.
MCMaxAttempts == [e \in Entries |-> IF e = e1 THEN 3 ELSE 2]

WorkerSymmetry == Permutations(Workers)
=============================================================================
