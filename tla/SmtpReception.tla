--------------------------- MODULE SmtpReception ---------------------------
(***************************************************************************)
(* Reception of a message over SMTP (src/internal/coremail/smtp): the      *)
(* session of one connection (commands.go, server.go) and the acceptance   *)
(* of the message (receive.go, AcceptMessage), up to the stored copies and *)
(* the queue entries that the delivery workers take over.                  *)
(*                                                                         *)
(* A client brings one message to one server.  It may issue any command at *)
(* any time, lose its connection, and offer the message again as long as   *)
(* it has not read a 250.  Each DATA transfer is a try, and a try stores   *)
(* its own copies: copy[t][m] and queued[t][m] are the message and the     *)
(* queue entries of mailbox m in try t.  A reply that refuses a command    *)
(* leaves the session as it is, and so is a stuttering step here.          *)
(***************************************************************************)
EXTENDS Naturals, Sequences, FiniteSets

CONSTANTS
  Mailboxes,
  Addresses,      \* what a client may name in RCPT TO
  Home,           \* Home[a]: mailboxes the address resolves to; none: it is external
  Users,          \* identities a client may authenticate as
  Senders,        \* what a client may name in MAIL FROM
  Owned,          \* Owned[u]: senders the identity may use
  MaxRecipients,  \* MaxRecipientsPerMessage
  MaxTries,       \* bound: DATA transfers of the message
  MaxFaults,      \* bound: failed statements, lost replies and crashes
  Nobody          \* no identity, no sender, no message

ASSUME ReceptionAssumption ==
  /\ Home \in [Addresses -> SUBSET Mailboxes]
  /\ Owned \in [Users -> SUBSET Senders]
  /\ MaxRecipients \in Nat \ {0} /\ MaxTries \in Nat /\ MaxFaults \in Nat
  /\ Nobody \notin Users \union Senders \union Mailboxes

VARIABLES
  listener,      \* the port of the connection
  session,       \* smtp.Session and the login step of its CommandHandler
  reauth,        \* history: AUTH succeeded while a sender was set
  acc,           \* where AcceptMessage is
  try,           \* DATA transfers so far
  confirmed,     \* the client has read a 250 for the message
  domainActive,  \* the local domain is active
  copy,          \* copy[t][h]: the message that try t stored for the holder h
  queued,        \* queued[t][m]: entries for local delivery
  ruled,         \* copies the rules of their mailbox have seen
  relayed,       \* entries for remote delivery: their try, address, message and identity
  faults

sessionVars == <<listener, session, reauth>>
storeVars == <<copy, queued, ruled, relayed>>
vars == <<listener, session, reauth, acc, try, confirmed, domainActive, copy, queued, ruled,
          relayed, faults>>

-----------------------------------------------------------------------------
(* The session.                                                            *)

States == {"new", "greeted", "mail", "rcpt", "data", "authenticated", "closed"}

Tries == 1 .. MaxTries
Holders == Mailboxes \union {Nobody}

NewSession == [state |-> "new", from |-> Nobody, rcpts |-> <<>>, user |-> Nobody,
               tls |-> FALSE, login |-> 0]

\* AcceptMessage: the mailboxes and external addresses still to be served, the
\* mailbox under work, and the holder of the first message stored.
Idle == [pc |-> "idle", todo |-> [m \in Mailboxes |-> 0], out |-> {}, at |-> Nobody, first |-> {}]

\* InboundConfig and SubmissionConfig: AUTH is disabled on the one; the other
\* wants TLS for AUTH and for MAIL, and an identity for MAIL.
AuthDisabled == listener = "inbound"
TLSRequired == listener = "submission"
AuthRequired == listener = "submission"

\* ResetTransaction.
Reset(s) ==
  [s EXCEPT !.from = Nobody, !.rcpts = <<>>,
            !.state = IF @ \in {"mail", "rcpt", "data"} THEN "greeted" ELSE @]

\* A line of the client reaches its handler: the server reads no command while it
\* accepts a message, and a login that has begun takes the line as its next step.
Ready == acc.pc = "idle" /\ session.state # "closed"
Command == Ready /\ session.login = 0

\* The handler leaves everything but the session alone.
Answer(s) ==
  /\ session' = s
  /\ UNCHANGED <<listener, acc, try, confirmed, domainActive, storeVars, faults>>

\* handleEHLO, handleHELO.
Ehlo ==
  /\ Command /\ session.state = "new"
  /\ Answer([session EXCEPT !.state = "greeted"])
  /\ UNCHANGED reauth

\* Mutant: the sender must be somebody's.
SenderOfAnyUser(a) == session.user # Nobody => \E u \in Users : a \in Owned[u]

\* An authenticated client sends as itself.
SenderAllowed(a) == session.user # Nobody => a \in Owned[session.user]

\* handleMAIL.
Mail(a) ==
  /\ Command
  /\ session.state \in {"greeted", "authenticated"}
  /\ TLSRequired => session.tls
  /\ session.state = "greeted" /\ AuthRequired => session.user # Nobody
  /\ SenderAllowed(a)
  /\ Answer([session EXCEPT !.from = a, !.state = "mail"])
  /\ reauth' = FALSE

IsLocal(a) == domainActive /\ Home[a] # {}

\* Mutant: relay protection on the submission port only.
RelayAllowedInbound(a) == AuthRequired => session.user # Nobody

\* Relay protection: a client without an identity names local recipients only.
RelayAllowed(a) == session.user # Nobody \/ IsLocal(a)

Room == Len(session.rcpts) < MaxRecipients

\* handleRCPT.
Rcpt(a) ==
  /\ Command
  /\ session.state \in {"mail", "rcpt", "authenticated"}
  /\ session.from # Nobody
  /\ Room
  /\ RelayAllowed(a)
  /\ Answer([session EXCEPT !.rcpts = Append(@, a), !.state = "rcpt"])
  /\ UNCHANGED reauth

\* handleRSET, which is also heard in the middle of a login.
Rset ==
  /\ Ready
  /\ Answer(Reset(session))
  /\ UNCHANGED reauth

\* handleQUIT, or the connection breaks between two commands.
Quit ==
  /\ Ready
  /\ Answer([session EXCEPT !.state = "closed"])
  /\ UNCHANGED reauth

\* Mutant: credentials are heard in clear.
AuthAllowedInClear == ~AuthDisabled

AuthAllowed == ~AuthDisabled /\ (TLSRequired => session.tls)

Authenticated(u) == [session EXCEPT !.user = u, !.state = "authenticated", !.login = 0]

\* AUTH PLAIN with good credentials, in any state of the session.
AuthPlain(u) ==
  /\ Ready /\ AuthAllowed
  /\ Answer([Authenticated(u) EXCEPT !.login = session.login])
  /\ reauth' = (session.from # Nobody)

\* AUTH LOGIN, the user name, and the password.
AuthLogin ==
  /\ Ready /\ AuthAllowed
  /\ Answer([session EXCEPT !.login = 1])
  /\ UNCHANGED reauth

LoginStep(u) ==
  /\ Ready
  /\ \/ session.login = 1 /\ Answer([session EXCEPT !.login = 2]) /\ UNCHANGED reauth
     \/ session.login = 2 /\ Answer(Authenticated(u)) /\ reauth' = (session.from # Nobody)
     \/ session.login > 0 /\ Answer([session EXCEPT !.login = 0]) /\ UNCHANGED reauth

\* handleSTARTTLS and the upgrade of the connection: the identity is forgotten and
\* the session starts anew, but it keeps its sender and its recipients.
StartTLS ==
  /\ Command
  /\ ~session.tls
  /\ \/ Answer([session EXCEPT !.tls = TRUE, !.state = "new", !.user = Nobody])
     \/ Answer([session EXCEPT !.state = "closed"])
  /\ UNCHANGED reauth

\* A new connection, after the last one ended.
Connect(port) ==
  /\ acc.pc = "idle" /\ session.state = "closed"
  /\ listener' = port
  /\ session' = NewSession
  /\ reauth' = FALSE
  /\ UNCHANGED <<acc, try, confirmed, domainActive, storeVars, faults>>

-----------------------------------------------------------------------------
(* DATA and AcceptMessage.                                                 *)

Complete ==
  /\ session.state \in {"mail", "rcpt", "authenticated"}
  /\ session.from # Nobody /\ session.rcpts # <<>>

\* The session after a DATA transfer, whatever its outcome.
Finished == Reset([session EXCEPT !.state = "greeted"])

\* handleDATA, and the body cannot be read, or a recipient cannot be resolved, or
\* the message is refused or held by a rule, the antivirus or the spam policy: a
\* temporary error, before anything is stored.
Refuse ==
  /\ Command /\ Complete
  /\ Answer(Finished)
  /\ UNCHANGED reauth

\* How many recipients resolve to the mailbox.
Resolved(m) == Cardinality({i \in DOMAIN session.rcpts :
                              IsLocal(session.rcpts[i]) /\ m \in Home[session.rcpts[i]]})

\* dedupRecipients: one copy for each mailbox.
Dedup(n) == IF n > 0 THEN 1 ELSE 0

\* Mutant: a recipient whose domain is not active any more is forgotten.
ExternalOnly == {a \in Addresses : (\E i \in DOMAIN session.rcpts : session.rcpts[i] = a) /\ Home[a] = {}}

\* Recipients are resolved again here.  One whose domain is not active any more
\* has become external.
External == {a \in Addresses : (\E i \in DOMAIN session.rcpts : session.rcpts[i] = a) /\ ~IsLocal(a)}

\* handleDATA, the body, and the resolution of the recipients.
Data ==
  /\ Command /\ Complete
  /\ ~confirmed /\ try < MaxTries
  /\ try' = try + 1
  /\ session' = [session EXCEPT !.state = "data"]
  /\ acc' = [Idle EXCEPT !.pc = "serve", !.todo = [m \in Mailboxes |-> Dedup(Resolved(m))],
                         !.out = External]
  /\ UNCHANGED <<listener, reauth, confirmed, domainActive, storeVars, faults>>

Fault == faults < MaxFaults /\ faults' = faults + 1

Frame == UNCHANGED <<listener, reauth, try, domainActive>>

\* AcceptMessage returns an error: the client reads "try again later".
Fail == acc' = Idle /\ session' = Finished /\ UNCHANGED confirmed

Go(next) == acc' = next /\ UNCHANGED <<session, confirmed>>

\* StoreMessage, for the next mailbox.
StoreLocal(m) ==
  /\ acc.pc = "serve" /\ acc.todo[m] > 0
  /\ copy' = [copy EXCEPT ![try][m] = "stored"]
  /\ Go([acc EXCEPT !.pc = "enqueue", !.at = m, !.first = IF @ = {} THEN {m} ELSE @])
  /\ Frame /\ UNCHANGED <<queued, ruled, relayed, faults>>

\* Mutant: a mailbox that has an entry from an earlier try gets no other.
EnqueueLocalOnce ==
  /\ acc.pc = "enqueue"
  /\ queued' = [queued EXCEPT ![try][acc.at] = IF \E t \in Tries : queued[t][acc.at] > 0 THEN @ ELSE 1]
  /\ Go([acc EXCEPT !.pc = "rules"])
  /\ Frame /\ UNCHANGED <<copy, ruled, relayed, faults>>

\* The local delivery is queued before the rules run.
EnqueueLocal ==
  /\ acc.pc = "enqueue"
  /\ queued' = [queued EXCEPT ![try][acc.at] = @ + 1]
  /\ Go([acc EXCEPT !.pc = "rules"])
  /\ Frame /\ UNCHANGED <<copy, ruled, relayed, faults>>

EnqueueLocalFails ==
  /\ acc.pc = "enqueue" /\ Fault
  /\ Go([acc EXCEPT !.pc = "purge"])
  /\ Frame /\ UNCHANGED storeVars

\* Mutant: the first message stored is purged.
PurgeFirst == acc.first

\* The copy whose entry could not be queued.
PurgeLast == {acc.at}

\* PurgeMessage, for the copy whose entry could not be queued.  It may fail too.
PurgeStored ==
  /\ acc.pc = "purge"
  /\ \/ copy' = [copy EXCEPT ![try] = [h \in Holders |-> IF h \in PurgeLast THEN "purged" ELSE @[h]]]
        /\ UNCHANGED faults
     \/ Fault /\ UNCHANGED copy
  /\ Fail
  /\ Frame /\ UNCHANGED <<queued, ruled, relayed>>

\* applyRulesRunner: forwards and automatic replies go out, and the copy is filed; or
\* it is deleted, when it was forwarded and its owner keeps no copy.  DeleteMessage
\* marks the row, which can still be loaded.  Errors are logged and change nothing here.
RunRules ==
  /\ acc.pc = "rules"
  /\ \/ UNCHANGED copy
     \/ copy' = [copy EXCEPT ![try][acc.at] = "deleted"]
  /\ ruled' = ruled \union {<<try, acc.at>>}
  /\ Go([acc EXCEPT !.pc = "serve", !.todo[acc.at] = @ - 1, !.at = Nobody])
  /\ Frame /\ UNCHANGED <<queued, relayed, faults>>

LocalServed == acc.pc = "serve" /\ \A m \in Mailboxes : acc.todo[m] = 0

\* Without a local recipient, the message is stored once for the external ones.
StoreForRelay ==
  /\ LocalServed /\ acc.out # {} /\ acc.first = {}
  /\ copy' = [copy EXCEPT ![try][Nobody] = "stored"]
  /\ Go([acc EXCEPT !.first = {Nobody}])
  /\ Frame /\ UNCHANGED <<queued, ruled, relayed, faults>>

\* An external recipient: its entry refers to the first message stored, which may
\* be the copy of a local recipient.
EnqueueRelay(a) ==
  /\ LocalServed /\ a \in acc.out /\ acc.first # {}
  /\ relayed' = relayed \union {[try |-> try, to |-> a, msg |-> h, user |-> session.user] : h \in acc.first}
  /\ Go([acc EXCEPT !.out = @ \ {a}])
  /\ Frame /\ UNCHANGED <<copy, queued, ruled, faults>>

\* A statement for a recipient fails: the whole message is answered with an error,
\* and what was queued for other recipients stays.
ServeFails ==
  /\ acc.pc = "serve" /\ ((\E m \in Mailboxes : acc.todo[m] > 0) \/ acc.out # {})
  /\ Fault
  /\ Fail
  /\ Frame /\ UNCHANGED storeVars

\* 250, which the client may never read.
Accept ==
  /\ LocalServed /\ acc.out = {}
  /\ acc' = Idle
  /\ \/ session' = Finished /\ confirmed' = TRUE /\ UNCHANGED faults
     \/ session' = [session EXCEPT !.state = "closed"] /\ UNCHANGED confirmed /\ Fault
  /\ Frame /\ UNCHANGED storeVars

\* The process dies while it accepts a message.
Crash ==
  /\ acc.pc # "idle" /\ Fault
  /\ acc' = Idle /\ session' = [session EXCEPT !.state = "closed"]
  /\ Frame /\ UNCHANGED <<confirmed, storeVars>>

\* An administrator deactivates the local domain.
DeactivateDomain ==
  /\ domainActive
  /\ domainActive' = FALSE
  /\ UNCHANGED <<sessionVars, acc, try, confirmed, storeVars, faults>>

-----------------------------------------------------------------------------
Init ==
  /\ listener \in {"inbound", "submission"}
  /\ session = NewSession /\ reauth = FALSE
  /\ acc = Idle /\ try = 0 /\ confirmed = FALSE /\ domainActive = TRUE
  /\ copy = [t \in Tries |-> [h \in Holders |-> "absent"]]
  /\ queued = [t \in Tries |-> [m \in Mailboxes |-> 0]]
  /\ ruled = {} /\ relayed = {}
  /\ faults = 0

Session ==
  \/ Ehlo \/ Rset \/ Quit \/ AuthLogin \/ StartTLS
  \/ \E a \in Senders : Mail(a)
  \/ \E a \in Addresses : Rcpt(a)
  \/ \E u \in Users : AuthPlain(u) \/ LoginStep(u)
  \/ \E port \in {"inbound", "submission"} : Connect(port)

AcceptMessage ==
  \/ Refuse \/ Data
  \/ \E m \in Mailboxes : StoreLocal(m)
  \/ EnqueueLocal \/ EnqueueLocalFails \/ PurgeStored \/ RunRules
  \/ StoreForRelay \/ \E a \in Addresses : EnqueueRelay(a)
  \/ ServeFails \/ Accept \/ Crash

Next == Session \/ AcceptMessage \/ DeactivateDomain

Spec == Init /\ [][Next]_vars

-----------------------------------------------------------------------------
(* Properties.                                                             *)

CopyStates == {"absent", "stored", "deleted", "purged"}

TypeOK ==
  /\ listener \in {"inbound", "submission"}
  /\ session \in [state : States, from : Senders \union {Nobody}, rcpts : Seq(Addresses),
                  user : Users \union {Nobody}, tls : BOOLEAN, login : 0 .. 2]
  /\ Len(session.rcpts) <= MaxRecipients
  /\ reauth \in BOOLEAN /\ confirmed \in BOOLEAN /\ domainActive \in BOOLEAN
  /\ acc \in [pc : {"idle", "serve", "enqueue", "purge", "rules"}, todo : [Mailboxes -> Nat],
              out : SUBSET Addresses, at : Holders, first : SUBSET Holders]
  /\ try \in 0 .. MaxTries /\ faults \in 0 .. MaxFaults
  /\ copy \in [Tries -> [Holders -> CopyStates]]
  /\ queued \in [Tries -> [Mailboxes -> Nat]]
  /\ ruled \subseteq Tries \X Mailboxes
  /\ relayed \subseteq [try : Tries, to : Addresses, msg : Holders, user : Users \union {Nobody}]

\* On the submission port every transaction belongs to an identity and to an
\* encrypted connection, whatever commands came in whatever order; and no identity
\* is ever established in clear.
SubmissionProtected ==
  /\ listener = "submission" /\ session.state \in {"mail", "rcpt", "data", "authenticated"}
       => session.user # Nobody /\ session.tls
  /\ session.user # Nobody => session.tls

\* The sender of a transaction is one the identity may use, unless the client
\* authenticated after it had named the sender.
SenderOwned ==
  session.user # Nobody /\ session.from # Nobody /\ ~reauth => session.from \in Owned[session.user]

\* Without an identity, nothing leaves the server but mail for an address that was
\* local when the client named it.
RelayAuthorised ==
  \A e \in relayed : e.user # Nobody \/ (Home[e.to] # {} /\ ~domainActive)

\* A try serves a mailbox once, however many of its recipients lead there.
OneEntryPerTry == \A t \in Tries, m \in Mailboxes : queued[t][m] <= 1

\* A delivery worker can load the message (GetByMessageID passes over purged rows
\* alone), and only the rules of the holder's mailbox have deleted it.
Loadable(t, h) == copy[t][h] = "stored" \/ (copy[t][h] = "deleted" /\ <<t, h>> \in ruled)

\* A queue entry refers to a message that was stored before it and that acceptance
\* never purges, whatever fails for the recipients after it, also when it is the copy
\* of another recipient, whose rules may have deleted it; and the rules of a mailbox,
\* with their forwards and replies, see a message only once its delivery is queued.
EntryHasMessage ==
  /\ \A t \in Tries, m \in Mailboxes : queued[t][m] > 0 => Loadable(t, m)
  /\ \A e \in relayed : Loadable(e.try, e.msg)
  /\ \A x \in ruled : queued[x[1]][x[2]] > 0

\* Served by the current try: an entry in every mailbox of a local address, one for
\* relay otherwise.
Served(a) ==
  \/ Home[a] # {} /\ \A m \in Home[a] : queued[try][m] > 0
  \/ \E e \in relayed : e.try = try /\ e.to = a

\* 250 means that every recipient of the transaction is served.
AcceptedMeansQueued ==
  [][confirmed' /\ ~confirmed => \A i \in DOMAIN session.rcpts : Served(session.rcpts[i])]_vars

\* A copy that no queue entry will deliver is left behind by a fault, and by none
\* more than one.
Orphans == {x \in Tries \X Mailboxes : copy[x[1]][x[2]] = "stored" /\ queued[x[1]][x[2]] = 0}

OrphanedByFault == acc.pc = "idle" => Cardinality(Orphans) <= faults

=============================================================================
