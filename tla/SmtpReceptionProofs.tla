------------------------ MODULE SmtpReceptionProofs ------------------------
(***************************************************************************)
(* Proofs about SmtpReception, for any mailboxes, addresses, identities    *)
(* and bounds: the session protects the submission port, the sender of an  *)
(* identity and the relay; the acceptance of a message leaves no queue     *)
(* entry without its message, no mailbox with two entries, and no copy     *)
(* without an entry but by a fault; and 250 means that all are served.     *)
(*                                                                         *)
(* The invariant has two halves.  SessionInv is about the commands of the  *)
(* connection; StoreInv about the place of AcceptMessage in its loop over  *)
(* the recipients.  AcceptMessage runs while no command is read, and so    *)
(* each action disturbs one half only.                                     *)
(***************************************************************************)
EXTENDS SmtpReception, FiniteSetTheorems, TLAPS

Ports == {"inbound", "submission"}

SessionTypes ==
  [state : States, from : Senders \union {Nobody}, rcpts : Seq(Addresses),
   user : Users \union {Nobody}, tls : BOOLEAN, login : 0 .. 2]

AccTypes ==
  [pc : {"idle", "serve", "enqueue", "purge", "rules"}, todo : [Mailboxes -> Nat],
   out : SUBSET Addresses, at : Holders, first : SUBSET Holders]

Entries == [try : Tries, to : Addresses, msg : Holders, user : Users \union {Nobody}]

----------------------------------------------------------------------------
(* The session.                                                            *)

InTransaction == {"mail", "rcpt", "data", "authenticated"}

\* An identity, and a login under way, belong to an encrypted connection to the
\* submission port; the recipients of a client without an identity were local.
SessionInv ==
  /\ listener \in Ports
  /\ session \in SessionTypes /\ Len(session.rcpts) <= MaxRecipients
  /\ reauth \in BOOLEAN
  /\ session.user # Nobody \/ session.login > 0 => listener = "submission" /\ session.tls
  /\ listener = "submission" /\ session.state \in InTransaction
       => session.user # Nobody /\ session.tls
  /\ SenderOwned
  /\ session.user = Nobody => \A i \in DOMAIN session.rcpts : Home[session.rcpts[i]] # {}

\* ResetTransaction forgets the sender and the recipients, and nothing else.
LEMMA ResetKeeps ==
  ASSUME NEW s \in SessionTypes
  PROVE  /\ Reset(s) \in SessionTypes
         /\ Reset(s).from = Nobody /\ Reset(s).rcpts = <<>>
         /\ Reset(s).user = s.user /\ Reset(s).tls = s.tls /\ Reset(s).login = s.login
         /\ Reset(s).state \in {s.state, "greeted"}
         /\ Reset(s).state \notin {"mail", "rcpt", "data"}
<1> DEFINE st == IF s.state \in {"mail", "rcpt", "data"} THEN "greeted" ELSE s.state
           e == <<>>
<1>1. Reset(s) = [s EXCEPT !.from = Nobody, !.rcpts = e, !.state = st]
  BY DEF Reset
<1>2. /\ st \in States /\ st \in {s.state, "greeted"} /\ st \notin {"mail", "rcpt", "data"}
      /\ e \in Seq(Addresses) /\ e = <<>>
  BY DEF SessionTypes, States
<1> HIDE DEF st, e
<1> QED
  BY <1>1, <1>2 DEF SessionTypes

\* Where a session without a sender may go.
LEMMA WithoutSender ==
  ASSUME SessionInv, listener' = listener, reauth' \in BOOLEAN,
         session' \in SessionTypes, session'.from = Nobody, session'.rcpts = <<>>,
         session'.user = session.user, session'.tls = session.tls,
         session'.login = session.login,
         session'.state \in InTransaction => session'.state = session.state
  PROVE  SessionInv'
BY ReceptionAssumption DEF SessionInv, SenderOwned, InTransaction

\* Where a session may go that keeps its sender and its recipients.
LEMMA WithTransaction ==
  ASSUME SessionInv, listener' = listener, reauth' = reauth,
         session' \in SessionTypes, session'.from = session.from,
         session'.rcpts = session.rcpts, session'.user = session.user,
         session'.tls = session.tls,
         session'.login > 0 => listener = "submission" /\ session.tls,
         session'.state \in InTransaction => session.state \in InTransaction
  PROVE  SessionInv'
BY DEF SessionInv, SenderOwned

LEMMA LoginOnly ==
  ASSUME NEW s \in SessionTypes, NEW n \in 0 .. 2
  PROVE  LET t == [s EXCEPT !.login = n]
         IN  /\ t \in SessionTypes /\ t.login = n
             /\ t.from = s.from /\ t.rcpts = s.rcpts /\ t.user = s.user
             /\ t.tls = s.tls /\ t.state = s.state
BY DEF SessionTypes

LEMMA RcptStep ==
  ASSUME SessionInv, NEW a \in Addresses, Rcpt(a)
  PROVE  SessionInv'
<1>1. /\ session.state \in InTransaction
      /\ session.user = Nobody => Home[a] # {}
      /\ Len(session.rcpts) < MaxRecipients
      /\ session' = [session EXCEPT !.rcpts = Append(@, a), !.state = "rcpt"]
      /\ listener' = listener /\ reauth' = reauth
  BY DEF Rcpt, RelayAllowed, IsLocal, Room, Answer, InTransaction
<1>2. session \in SessionTypes /\ session.rcpts \in Seq(Addresses)
  BY DEF SessionInv, SessionTypes
<1>3. /\ session' \in SessionTypes
      /\ session'.rcpts = Append(session.rcpts, a) /\ session'.state = "rcpt"
      /\ session'.user = session.user /\ session'.tls = session.tls
      /\ session'.from = session.from /\ session'.login = session.login
  <2> DEFINE q == Append(session.rcpts, a)
  <2>1. q \in Seq(Addresses) /\ session' = [session EXCEPT !.rcpts = q, !.state = "rcpt"]
    BY <1>1, <1>2
  <2> HIDE DEF q
  <2>2. /\ session' \in SessionTypes /\ session'.rcpts = q /\ session'.state = "rcpt"
        /\ session'.user = session.user /\ session'.tls = session.tls
        /\ session'.from = session.from /\ session'.login = session.login
    BY <1>2, <2>1 DEF SessionTypes, States
  <2> QED
    BY <2>2 DEF q
<1>4. /\ Len(session'.rcpts) <= MaxRecipients
      /\ \A i \in DOMAIN session'.rcpts :
           session'.rcpts[i] = a \/ (i \in DOMAIN session.rcpts /\ session'.rcpts[i] = session.rcpts[i])
  BY <1>1, <1>2, <1>3, ReceptionAssumption
<1> QED
  BY <1>1, <1>3, <1>4 DEF SessionInv, SenderOwned

\* Credentials are accepted where AUTH is heard; a sender that was named before is
\* remembered as such.
LEMMA AuthStep ==
  ASSUME SessionInv, NEW u \in Users, NEW n \in 0 .. 2,
         listener = "submission", session.tls,
         session' = [Authenticated(u) EXCEPT !.login = n],
         reauth' = (session.from # Nobody), listener' = listener
  PROVE  SessionInv'
<1>1. session \in SessionTypes
  BY DEF SessionInv
<1>2. /\ session' \in SessionTypes
      /\ session'.user = u /\ session'.tls = session.tls /\ session'.from = session.from
      /\ session'.rcpts = session.rcpts
  BY <1>1 DEF Authenticated, SessionTypes, States
<1>3. u # Nobody
  BY ReceptionAssumption
<1> QED
  BY <1>2, <1>3 DEF SessionInv, SenderOwned

LEMMA SessionStep == SessionInv /\ Session => SessionInv'
<1> SUFFICES ASSUME SessionInv, Session PROVE SessionInv'
  OBVIOUS
<1>0. session \in SessionTypes /\ listener \in Ports /\ Len(session.rcpts) <= MaxRecipients
  BY DEF SessionInv
<1>1. CASE Ehlo
  <2>1. session' = [session EXCEPT !.state = "greeted"] /\ UNCHANGED <<listener, reauth>>
    BY <1>1 DEF Ehlo, Answer
  <2> QED
    BY <1>0, <2>1, WithTransaction DEF SessionTypes, States, InTransaction, SessionInv
<1>2. CASE Rset
  <2>1. session' = Reset(session) /\ UNCHANGED <<listener, reauth>>
    BY <1>2 DEF Rset, Answer
  <2> QED
    BY <1>0, <2>1, ResetKeeps, WithoutSender DEF InTransaction, SessionInv
<1>3. CASE Quit
  <2>1. session' = [session EXCEPT !.state = "closed"] /\ UNCHANGED <<listener, reauth>>
    BY <1>3 DEF Quit, Answer
  <2> QED
    BY <1>0, <2>1, WithTransaction DEF SessionTypes, States, InTransaction, SessionInv
<1>4. CASE AuthLogin
  <2>1. /\ session' = [session EXCEPT !.login = 1] /\ UNCHANGED <<listener, reauth>>
        /\ listener = "submission" /\ session.tls
    BY <1>0, <1>4 DEF AuthLogin, AuthAllowed, AuthDisabled, TLSRequired, Answer, Ports
  <2> QED
    <3>1. /\ session' \in SessionTypes /\ session'.from = session.from
          /\ session'.rcpts = session.rcpts /\ session'.user = session.user
          /\ session'.tls = session.tls /\ session'.state = session.state
      <4>1. 1 \in 0 .. 2
        OBVIOUS
      <4> QED
        BY <1>0, <2>1, <4>1, LoginOnly
    <3> QED
      BY <2>1, <3>1, WithTransaction
<1>5. CASE StartTLS
  <2>1. /\ ~session.tls /\ session.login = 0 /\ UNCHANGED <<listener, reauth>>
        /\ \/ session' = [session EXCEPT !.tls = TRUE, !.state = "new", !.user = Nobody]
           \/ session' = [session EXCEPT !.state = "closed"]
    BY <1>5 DEF StartTLS, Command, Answer
  <2>2. session.user = Nobody
    BY <2>1 DEF SessionInv
  <2>3. CASE session' = [session EXCEPT !.state = "closed"]
    BY <1>0, <2>1, <2>3, WithTransaction DEF SessionTypes, States, InTransaction, SessionInv
  <2>4. CASE session' = [session EXCEPT !.tls = TRUE, !.state = "new", !.user = Nobody]
    <3>1. /\ session' \in SessionTypes /\ session'.state = "new" /\ session'.user = Nobody
          /\ session'.rcpts = session.rcpts /\ session'.login = 0
      BY <1>0, <2>1, <2>4 DEF SessionTypes, States
    <3> QED
      BY <2>1, <2>2, <3>1 DEF SessionInv, SenderOwned, InTransaction
  <2> QED
    BY <2>1, <2>3, <2>4
<1>6. ASSUME NEW a \in Senders, Mail(a) PROVE SessionInv'
  <2>1. /\ session.state \in {"greeted", "authenticated"}
        /\ listener = "submission" => session.tls
        /\ session.state = "greeted" /\ listener = "submission" => session.user # Nobody
        /\ session.user # Nobody => a \in Owned[session.user]
        /\ session' = [session EXCEPT !.from = a, !.state = "mail"]
        /\ reauth' = FALSE /\ listener' = listener
    BY <1>6 DEF Mail, TLSRequired, AuthRequired, SenderAllowed, Answer
  <2>2. /\ session' \in SessionTypes /\ session'.from = a /\ session'.state = "mail"
        /\ session'.user = session.user /\ session'.rcpts = session.rcpts
        /\ session'.tls = session.tls /\ session'.login = session.login
    BY <1>0, <2>1 DEF SessionTypes, States
  <2> QED
    BY <2>1, <2>2 DEF SessionInv, SenderOwned, InTransaction
<1>7. ASSUME NEW a \in Addresses, Rcpt(a) PROVE SessionInv'
  BY <1>7, RcptStep
<1>8. ASSUME NEW u \in Users, AuthPlain(u) PROVE SessionInv'
  <2>1. listener = "submission" /\ session.tls
    BY <1>0, <1>8 DEF AuthPlain, AuthAllowed, AuthDisabled, TLSRequired, Ports
  <2> QED
    BY <1>0, <1>8, <2>1, AuthStep DEF AuthPlain, Answer, SessionTypes
<1>9. ASSUME NEW u \in Users, LoginStep(u) PROVE SessionInv'
  <2>1. /\ session.login > 0 /\ listener' = listener
        /\ \/ session' = [session EXCEPT !.login = 2] /\ reauth' = reauth
           \/ session' = Authenticated(u) /\ reauth' = (session.from # Nobody)
           \/ session' = [session EXCEPT !.login = 0] /\ reauth' = reauth
    BY <1>9 DEF LoginStep, Answer
  <2>2. listener = "submission" /\ session.tls
    BY <2>1 DEF SessionInv
  <2>3. Authenticated(u) = [Authenticated(u) EXCEPT !.login = 0]
    BY <1>0 DEF Authenticated, SessionTypes
  <2> QED
    <3>1. CASE session' = Authenticated(u) /\ reauth' = (session.from # Nobody)
      BY <2>1, <2>2, <2>3, <3>1, AuthStep
    <3>2. ASSUME NEW n \in 0 .. 2, session' = [session EXCEPT !.login = n], reauth' = reauth
          PROVE  SessionInv'
      <4>1. /\ session' \in SessionTypes /\ session'.from = session.from
            /\ session'.rcpts = session.rcpts /\ session'.user = session.user
            /\ session'.tls = session.tls /\ session'.state = session.state
        BY <1>0, <3>2, LoginOnly
      <4> QED
        BY <2>1, <2>2, <3>2, <4>1, WithTransaction
    <3> QED
      BY <2>1, <3>1, <3>2
<1>10. ASSUME NEW port \in Ports, Connect(port) PROVE SessionInv'
  <2>1. session' = NewSession /\ listener' = port /\ reauth' = FALSE
    BY <1>10 DEF Connect
  <2> QED
    <3>1. /\ session' \in SessionTypes /\ session'.user = Nobody /\ session'.login = 0
          /\ session'.from = Nobody /\ session'.state = "new" /\ session'.rcpts = <<>>
      BY <2>1 DEF NewSession, SessionTypes, States
    <3>2. Len(session'.rcpts) <= MaxRecipients /\ DOMAIN session'.rcpts = {}
      BY <3>1, ReceptionAssumption
    <3>3. SenderOwned'
      BY <3>1 DEF SenderOwned
    <3>4. session'.state \notin InTransaction
      BY <3>1 DEF InTransaction
    <3>5. \A i \in DOMAIN session'.rcpts : Home[session'.rcpts[i]] # {}
      BY <3>2
    <3> QED
      <4>1. ~(session'.login > 0) /\ session'.user = Nobody
        BY <3>1
      <4>2. listener' \in Ports /\ reauth' \in BOOLEAN
        BY <1>10, <2>1
      <4> QED
        BY <3>1, <3>2, <3>3, <3>4, <3>5, <4>1, <4>2 DEF SessionInv
<1> QED
  BY <1>1, <1>2, <1>3, <1>4, <1>5, <1>6, <1>7, <1>8, <1>9, <1>10 DEF Session, Ports

----------------------------------------------------------------------------
(* The loop of AcceptMessage over the recipients.                          *)

StoreTypes ==
  /\ confirmed \in BOOLEAN /\ domainActive \in BOOLEAN
  /\ acc \in AccTypes
  /\ try \in 0 .. MaxTries /\ faults \in 0 .. MaxFaults
  /\ copy \in [Tries -> [Holders -> CopyStates]]
  /\ queued \in [Tries -> [Mailboxes -> Nat]]
  /\ ruled \subseteq Tries \X Mailboxes
  /\ relayed \subseteq Entries

\* The mailbox under work has its copy; the ones still to be served have no entry;
\* and nothing is relayed before all of them are served.
PlaceInv ==
  acc.pc # "idle" =>
    /\ try \in Tries
    /\ \A m \in Mailboxes : acc.todo[m] \in {0, 1}
    /\ acc.pc # "serve" =>
         acc.at \in Mailboxes /\ acc.todo[acc.at] = 1 /\ copy[try][acc.at] = "stored"
    /\ acc.pc = "rules" => queued[try][acc.at] = 1
    /\ \A m \in Mailboxes :
         acc.todo[m] = 1 /\ (acc.pc = "rules" => m # acc.at) => queued[try][m] = 0
    /\ \A h \in acc.first : Loadable(try, h)
    /\ \A e \in relayed : e.try = try => \A m \in Mailboxes : acc.todo[m] = 0

\* No try of the future has left anything.
PastInv ==
  /\ \A t \in Tries : t > try => \A m \in Mailboxes : queued[t][m] = 0
  /\ \A e \in relayed : e.try <= try

StoreInv == StoreTypes /\ PlaceInv /\ PastInv /\ OneEntryPerTry /\ EntryHasMessage

\* Without an identity, what is left to be relayed was local until its domain was
\* deactivated.
RelayInv ==
  /\ RelayAuthorised
  /\ acc.pc # "idle" /\ session.user = Nobody =>
       \A a \in acc.out : Home[a] # {} /\ ~domainActive

\* A step that changes neither the copies nor the entries, and ends the try or finds
\* none under way.
LEMMA Settles ==
  ASSUME StoreInv, acc' \in AccTypes, acc'.pc = "idle", UNCHANGED <<try, storeVars>>,
         confirmed' \in BOOLEAN, domainActive' \in BOOLEAN, faults' \in 0 .. MaxFaults
  PROVE  StoreInv'
BY DEF StoreInv, StoreTypes, PlaceInv, PastInv, OneEntryPerTry, EntryHasMessage, Loadable,
       storeVars

LEMMA IdleType == Idle \in AccTypes /\ Idle.pc = "idle"
BY DEF Idle, AccTypes, Holders

LEMMA FaultType == ASSUME StoreInv, Fault PROVE faults' \in 0 .. MaxFaults
BY ReceptionAssumption DEF StoreInv, StoreTypes, Fault

LEMMA DataStep ==
  ASSUME StoreInv, SessionInv, Data
  PROVE  StoreInv'
<1>1. /\ try' = try + 1 /\ try < MaxTries
      /\ acc' = [Idle EXCEPT !.pc = "serve", !.todo = [m \in Mailboxes |-> Dedup(Resolved(m))],
                             !.out = External]
      /\ UNCHANGED <<confirmed, domainActive, copy, queued, ruled, relayed, faults>>
  BY DEF Data, storeVars
<1>2. \A m \in Mailboxes : Dedup(Resolved(m)) \in {0, 1}
  BY DEF Dedup
<1> DEFINE todo == [m \in Mailboxes |-> Dedup(Resolved(m))]
           out == External
<1>3. todo \in [Mailboxes -> Nat] /\ (\A m \in Mailboxes : todo[m] \in {0, 1}) /\ out \in SUBSET Addresses
  BY <1>2 DEF External
<1>4. acc' = [pc |-> "serve", todo |-> todo, out |-> out, at |-> Nobody, first |-> {}]
  BY <1>1 DEF Idle
<1> HIDE DEF todo, out
<1>5. /\ acc' \in AccTypes /\ acc'.pc = "serve" /\ acc'.first = {}
      /\ \A m \in Mailboxes : acc'.todo[m] \in {0, 1}
  BY <1>3, <1>4 DEF AccTypes, Holders
<1>6. try' \in Tries /\ try' \in 0 .. MaxTries /\ try' > try
  BY <1>1, ReceptionAssumption DEF StoreInv, StoreTypes, Tries
<1>7. \A m \in Mailboxes : queued[try'][m] = 0
  BY <1>6 DEF StoreInv, PastInv
<1>8. \A e \in relayed : e.try <= try' /\ e.try # try'
  BY <1>6, ReceptionAssumption DEF StoreInv, StoreTypes, PastInv, Entries, Tries
<1>9. \A t \in Tries : t > try' => t > try
  BY <1>1, ReceptionAssumption DEF StoreInv, StoreTypes, Tries
<1>10. StoreTypes'
  BY <1>1, <1>5, <1>6 DEF StoreInv, StoreTypes
<1>11. PlaceInv'
  BY <1>1, <1>5, <1>6, <1>7, <1>8 DEF PlaceInv
<1>12. PastInv'
  BY <1>1, <1>8, <1>9 DEF StoreInv, PastInv
<1> QED
  BY <1>1, <1>10, <1>11, <1>12 DEF StoreInv, OneEntryPerTry, EntryHasMessage, Loadable

LEMMA StoreLocalStep ==
  ASSUME StoreInv, NEW m \in Mailboxes, StoreLocal(m)
  PROVE  StoreInv'
<1>1. /\ acc.pc = "serve" /\ acc.todo[m] > 0
      /\ copy' = [copy EXCEPT ![try][m] = "stored"]
      /\ acc' = [acc EXCEPT !.pc = "enqueue", !.at = m, !.first = IF @ = {} THEN {m} ELSE @]
      /\ UNCHANGED <<try, domainActive, confirmed, queued, ruled, relayed, faults>>
  BY DEF StoreLocal, Go, Frame
<1>2. acc \in AccTypes /\ try \in Tries /\ m \in Holders /\ acc.todo[m] = 1
  BY <1>1, ReceptionAssumption DEF StoreInv, StoreTypes, PlaceInv, Holders
<1> DEFINE first == IF acc.first = {} THEN {m} ELSE acc.first
<1>3. first \in SUBSET Holders /\ \A h \in first : h = m \/ h \in acc.first
  BY <1>2 DEF AccTypes
<1>4. acc' = [acc EXCEPT !.pc = "enqueue", !.at = m, !.first = first]
  BY <1>1
<1> HIDE DEF first
<1>5. /\ acc' \in AccTypes /\ acc'.pc = "enqueue" /\ acc'.at = m
      /\ acc'.first = first /\ acc'.todo = acc.todo
  BY <1>2, <1>3, <1>4 DEF AccTypes
<1>6. /\ copy' \in [Tries -> [Holders -> CopyStates]]
      /\ copy'[try][m] = "stored"
      /\ \A t \in Tries : \A h \in Holders : Loadable(t, h) => Loadable(t, h)'
  BY <1>1, <1>2 DEF StoreInv, StoreTypes, CopyStates, Loadable
<1>7. StoreTypes'
  BY <1>1, <1>5, <1>6 DEF StoreInv, StoreTypes
<1>8. PlaceInv'
  <2>1. Loadable(try, m)'
    BY <1>1, <1>6 DEF Loadable
  <2>2. \A h \in acc'.first : Loadable(try, h)'
    BY <1>1, <1>2, <1>3, <1>5, <1>6, <2>1 DEF StoreInv, PlaceInv, AccTypes
  <2> QED
    BY <1>1, <1>2, <1>3, <1>5, <1>6, <2>2 DEF StoreInv, PlaceInv, AccTypes
<1>9. EntryHasMessage'
  BY <1>1, <1>6 DEF StoreInv, StoreTypes, EntryHasMessage, Entries, Holders
<1> QED
  BY <1>1, <1>7, <1>8, <1>9 DEF StoreInv, PastInv, OneEntryPerTry

LEMMA EnqueueLocalStep ==
  ASSUME StoreInv, EnqueueLocal
  PROVE  StoreInv'
<1>1. /\ acc.pc = "enqueue"
      /\ queued' = [queued EXCEPT ![try][acc.at] = @ + 1]
      /\ acc' = [acc EXCEPT !.pc = "rules"]
      /\ UNCHANGED <<try, domainActive, confirmed, copy, ruled, relayed, faults>>
  BY DEF EnqueueLocal, Go, Frame
<1>2. /\ acc \in AccTypes /\ try \in Tries /\ acc.at \in Mailboxes /\ acc.todo[acc.at] = 1
      /\ queued[try][acc.at] = 0 /\ copy[try][acc.at] = "stored"
  BY <1>1 DEF StoreInv, StoreTypes, PlaceInv
<1>3. /\ acc' \in AccTypes /\ acc'.pc = "rules" /\ acc'.at = acc.at
      /\ acc'.first = acc.first /\ acc'.todo = acc.todo
  BY <1>1, <1>2 DEF AccTypes
<1>4. /\ queued' \in [Tries -> [Mailboxes -> Nat]] /\ queued'[try][acc.at] = 1
      /\ \A t \in Tries : \A m \in Mailboxes :
           (t # try \/ m # acc.at) => queued'[t][m] = queued[t][m]
  BY <1>1, <1>2 DEF StoreInv, StoreTypes
<1>5. StoreTypes'
  BY <1>1, <1>3, <1>4 DEF StoreInv, StoreTypes
<1>6. PlaceInv'
  BY <1>1, <1>2, <1>3, <1>4 DEF StoreInv, PlaceInv, Loadable
<1>7. PastInv'
  <2>1. \A t \in Tries : t > try => t # try
    BY <1>2 DEF Tries
  <2> QED
    BY <1>1, <1>4, <2>1 DEF StoreInv, PastInv
<1>8. OneEntryPerTry'
  BY <1>4 DEF StoreInv, OneEntryPerTry
<1>9. EntryHasMessage'
  <2>1. \A t \in Tries, m \in Mailboxes : queued'[t][m] > 0 => Loadable(t, m)
    BY <1>2, <1>4 DEF StoreInv, EntryHasMessage, Loadable
  <2>2. \A x \in ruled : x[1] \in Tries /\ x[2] \in Mailboxes
    BY DEF StoreInv, StoreTypes
  <2>3. \A x \in ruled : queued'[x[1]][x[2]] > 0
    BY <1>4, <2>2 DEF StoreInv, EntryHasMessage
  <2> QED
    BY <1>1, <2>1, <2>3 DEF StoreInv, EntryHasMessage, Loadable
<1> QED
  BY <1>5, <1>6, <1>7, <1>8, <1>9 DEF StoreInv

LEMMA PurgeStep ==
  ASSUME StoreInv, PurgeStored
  PROVE  StoreInv'
<1>1. /\ acc.pc = "purge" /\ acc' = Idle
      /\ UNCHANGED <<try, domainActive, confirmed, queued, ruled, relayed>>
      /\ \/ /\ copy' = [copy EXCEPT ![try] = [h \in Holders |-> IF h \in PurgeLast THEN "purged" ELSE @[h]]]
            /\ faults' = faults
         \/ Fault /\ copy' = copy
  BY DEF PurgeStored, Fail, Frame
<1>2. CASE copy' = copy
  <2>1. faults' \in 0 .. MaxFaults
    BY <1>1, FaultType DEF StoreInv, StoreTypes
  <2> QED
    BY <1>1, <1>2, <2>1, IdleType, Settles DEF StoreInv, StoreTypes, storeVars
<1>3. CASE /\ copy' = [copy EXCEPT ![try] = [h \in Holders |-> IF h \in PurgeLast THEN "purged" ELSE @[h]]]
           /\ faults' = faults
  <2>1. /\ try \in Tries /\ acc.at \in Mailboxes /\ acc.todo[acc.at] = 1
        /\ queued[try][acc.at] = 0 /\ \A e \in relayed : e.try # try
    BY <1>1 DEF StoreInv, PlaceInv
  <2>2. /\ copy' \in [Tries -> [Holders -> CopyStates]]
        /\ \A t \in Tries : \A h \in Holders :
             (t # try \/ h # acc.at) => copy'[t][h] = copy[t][h]
    BY <1>3, <2>1 DEF StoreInv, StoreTypes, CopyStates, PurgeLast
  <2>3. StoreTypes'
    BY <1>1, <1>3, <2>2, IdleType DEF StoreInv, StoreTypes
  <2>4. PlaceInv'
    BY <1>1, IdleType DEF PlaceInv
  <2>5. EntryHasMessage'
    <3>1. \A t \in Tries, m \in Mailboxes : queued[t][m] > 0 => Loadable(t, m)'
      BY <1>1, <2>1, <2>2 DEF StoreInv, EntryHasMessage, Holders, Loadable
    <3>2. \A e \in relayed : e.try \in Tries /\ e.msg \in Holders
      BY DEF StoreInv, StoreTypes, Entries
    <3>3. \A e \in relayed : Loadable(e.try, e.msg)'
      BY <1>1, <2>1, <2>2, <3>2 DEF StoreInv, EntryHasMessage, Loadable
    <3> QED
      BY <1>1, <3>1, <3>3 DEF StoreInv, EntryHasMessage
  <2> QED
    BY <1>1, <2>3, <2>4, <2>5 DEF StoreInv, PastInv, OneEntryPerTry
<1> QED
  BY <1>1, <1>2, <1>3

LEMMA RulesStep ==
  ASSUME StoreInv, RunRules
  PROVE  StoreInv'
<1>1. /\ acc.pc = "rules"
      /\ ruled' = ruled \union {<<try, acc.at>>}
      /\ copy' = copy \/ copy' = [copy EXCEPT ![try][acc.at] = "deleted"]
      /\ acc' = [acc EXCEPT !.pc = "serve", !.todo[acc.at] = @ - 1, !.at = Nobody]
      /\ UNCHANGED <<try, domainActive, confirmed, queued, relayed, faults>>
  BY DEF RunRules, Go, Frame
<1>2. /\ acc \in AccTypes /\ try \in Tries /\ acc.at \in Mailboxes /\ acc.todo[acc.at] = 1
      /\ queued[try][acc.at] = 1
  BY <1>1 DEF StoreInv, StoreTypes, PlaceInv
<1> DEFINE todo == [acc.todo EXCEPT ![acc.at] = @ - 1]
<1>3. /\ todo \in [Mailboxes -> Nat] /\ todo[acc.at] = 0
      /\ \A m \in Mailboxes : m # acc.at => todo[m] = acc.todo[m]
  BY <1>2 DEF AccTypes
<1>4. acc' = [acc EXCEPT !.pc = "serve", !.todo = todo, !.at = Nobody]
  BY <1>1
<1> HIDE DEF todo
<1>5. /\ acc' \in AccTypes /\ acc'.pc = "serve" /\ acc'.todo = todo /\ acc'.first = acc.first
  BY <1>2, <1>3, <1>4 DEF AccTypes, Holders
<1>6. /\ copy' \in [Tries -> [Holders -> CopyStates]]
      /\ \A t \in Tries : \A h \in Holders : Loadable(t, h) => Loadable(t, h)'
  <2>1. copy \in [Tries -> [Holders -> CopyStates]] /\ acc.at \in Holders
    BY <1>2 DEF StoreInv, StoreTypes, Holders
  <2>2. CASE copy' = copy
    BY <1>1, <2>1, <2>2 DEF Loadable
  <2>3. CASE copy' = [copy EXCEPT ![try][acc.at] = "deleted"]
    <3>1. copy' \in [Tries -> [Holders -> CopyStates]]
      BY <2>1, <2>3 DEF CopyStates
    <3>2. \A t \in Tries : \A h \in Holders :
            IF t = try /\ h = acc.at THEN copy'[t][h] = "deleted" ELSE copy'[t][h] = copy[t][h]
      BY <1>2, <2>1, <2>3
    <3>3. <<try, acc.at>> \in ruled' /\ ruled \subseteq ruled'
      BY <1>1
    <3> QED
      BY <3>1, <3>2, <3>3 DEF Loadable
  <2> QED
    BY <1>1, <2>2, <2>3
<1>7. StoreTypes'
  BY <1>1, <1>2, <1>5, <1>6 DEF StoreInv, StoreTypes
<1>8. PlaceInv'
  <2>1. \A h \in acc'.first : Loadable(try, h)'
    BY <1>1, <1>2, <1>5, <1>6 DEF StoreInv, PlaceInv, AccTypes
  <2> QED
    BY <1>1, <1>2, <1>3, <1>5, <2>1 DEF StoreInv, PlaceInv
<1>9. EntryHasMessage'
  BY <1>1, <1>2, <1>6 DEF StoreInv, StoreTypes, EntryHasMessage, Entries, Holders
<1> QED
  BY <1>1, <1>7, <1>8, <1>9 DEF StoreInv, PastInv, OneEntryPerTry

LEMMA StoreForRelayStep ==
  ASSUME StoreInv, StoreForRelay
  PROVE  StoreInv'
<1>1. /\ acc.pc = "serve" /\ \A m \in Mailboxes : acc.todo[m] = 0
      /\ copy' = [copy EXCEPT ![try][Nobody] = "stored"]
      /\ acc' = [acc EXCEPT !.first = {Nobody}]
      /\ UNCHANGED <<try, domainActive, confirmed, queued, ruled, relayed, faults>>
  BY DEF StoreForRelay, LocalServed, Go, Frame
<1>2. acc \in AccTypes /\ try \in Tries /\ Nobody \in Holders
  BY <1>1 DEF StoreInv, StoreTypes, PlaceInv, Holders
<1>3. /\ acc' \in AccTypes /\ acc'.pc = "serve" /\ acc'.first = {Nobody}
      /\ acc'.todo = acc.todo
  BY <1>1, <1>2 DEF AccTypes
<1>4. /\ copy' \in [Tries -> [Holders -> CopyStates]]
      /\ copy'[try][Nobody] = "stored"
      /\ \A t \in Tries : \A h \in Holders : Loadable(t, h) => Loadable(t, h)'
  BY <1>1, <1>2 DEF StoreInv, StoreTypes, CopyStates, Loadable
<1>5. StoreTypes'
  BY <1>1, <1>3, <1>4 DEF StoreInv, StoreTypes
<1>6. PlaceInv'
  BY <1>1, <1>2, <1>3, <1>4 DEF StoreInv, PlaceInv, Loadable
<1>7. EntryHasMessage'
  BY <1>1, <1>4 DEF StoreInv, StoreTypes, EntryHasMessage, Entries, Holders
<1> QED
  BY <1>1, <1>5, <1>6, <1>7 DEF StoreInv, PastInv, OneEntryPerTry

LEMMA EnqueueRelayStep ==
  ASSUME StoreInv, SessionInv, NEW a \in Addresses, EnqueueRelay(a)
  PROVE  StoreInv'
<1>1. /\ acc.pc = "serve" /\ \A m \in Mailboxes : acc.todo[m] = 0
      /\ relayed' = relayed \union {[try |-> try, to |-> a, msg |-> h, user |-> session.user] : h \in acc.first}
      /\ acc' = [acc EXCEPT !.out = @ \ {a}]
      /\ UNCHANGED <<try, domainActive, confirmed, copy, queued, ruled, faults>>
  BY DEF EnqueueRelay, LocalServed, Go, Frame
<1>2. acc \in AccTypes /\ try \in Tries /\ session.user \in Users \union {Nobody}
  BY <1>1 DEF StoreInv, StoreTypes, PlaceInv, SessionInv, SessionTypes
<1> DEFINE out == acc.out \ {a}
<1>3. out \in SUBSET Addresses
  BY <1>2 DEF AccTypes
<1>4. acc' = [acc EXCEPT !.out = out]
  BY <1>1
<1> HIDE DEF out
<1>5. /\ acc' \in AccTypes /\ acc'.pc = "serve" /\ acc'.first = acc.first
      /\ acc'.todo = acc.todo
  BY <1>1, <1>2, <1>3, <1>4 DEF AccTypes
<1>6. \A e \in relayed' : e \in relayed \/
        (e \in Entries /\ e.try = try /\ e.msg \in acc.first)
  BY <1>1, <1>2 DEF Entries, AccTypes
<1>7. StoreTypes'
  BY <1>1, <1>5, <1>6 DEF StoreInv, StoreTypes
<1>8. PlaceInv'
  BY <1>1, <1>2, <1>5, <1>6 DEF StoreInv, PlaceInv, Loadable
<1>9. PastInv'
  <2>1. try \in Nat
    BY <1>2 DEF Tries
  <2> QED
    BY <1>1, <1>6, <2>1 DEF StoreInv, PastInv
<1>10. EntryHasMessage'
  <2>1. \A h \in acc.first : Loadable(try, h)
    BY <1>1 DEF StoreInv, PlaceInv
  <2>2. \A e \in relayed' : Loadable(e.try, e.msg)
    BY <1>6, <2>1 DEF StoreInv, EntryHasMessage
  <2> QED
    BY <1>1, <2>2 DEF StoreInv, EntryHasMessage, Loadable
<1> QED
  BY <1>1, <1>7, <1>8, <1>9, <1>10 DEF StoreInv, OneEntryPerTry

LEMMA EnqueueFailsStep ==
  ASSUME StoreInv, EnqueueLocalFails
  PROVE  StoreInv'
<1>1. /\ acc.pc = "enqueue" /\ acc' = [acc EXCEPT !.pc = "purge"]
      /\ UNCHANGED <<try, domainActive, confirmed, copy, queued, ruled, relayed>>
  BY DEF EnqueueLocalFails, Go, Frame, storeVars
<1>2. faults' \in 0 .. MaxFaults
  BY FaultType DEF EnqueueLocalFails
<1>3. /\ acc' \in AccTypes /\ acc'.pc = "purge" /\ acc'.at = acc.at
      /\ acc'.first = acc.first /\ acc'.todo = acc.todo
  BY <1>1 DEF StoreInv, StoreTypes, AccTypes
<1> QED
  BY <1>1, <1>2, <1>3
  DEF StoreInv, StoreTypes, PlaceInv, PastInv, OneEntryPerTry, EntryHasMessage, Loadable

\* The actions that leave the stores alone and end the try, or find none under way.
LEMMA EndStep ==
  ASSUME StoreInv,
         \/ Session \/ Refuse \/ ServeFails \/ Accept \/ Crash \/ UNCHANGED vars
         \/ acc.pc = "idle" /\ DeactivateDomain
  PROVE  StoreInv'
<1> USE DEF storeVars, Frame
<1>0. acc \in AccTypes /\ confirmed \in BOOLEAN /\ domainActive \in BOOLEAN /\ faults \in 0 .. MaxFaults
  BY DEF StoreInv, StoreTypes
<1>1. CASE Session \/ Refuse \/ (acc.pc = "idle" /\ DeactivateDomain)
  <2>1. /\ acc.pc = "idle" /\ UNCHANGED <<acc, try, confirmed, storeVars, faults>>
        /\ domainActive' \in BOOLEAN
    BY <1>0, <1>1
    DEF Session, Ehlo, Rset, Quit, AuthLogin, StartTLS, Mail, Rcpt, AuthPlain, LoginStep,
        Connect, Refuse, DeactivateDomain, Answer, Ready, Command
  <2> QED
    BY <1>0, <2>1, Settles
<1>2. CASE ServeFails \/ Accept \/ Crash
  <2>1. /\ acc' = Idle /\ UNCHANGED <<try, domainActive, storeVars>>
        /\ faults' = faults \/ Fault
        /\ confirmed' \in BOOLEAN
    BY <1>0, <1>2 DEF ServeFails, Accept, Crash, Fail
  <2>2. faults' \in 0 .. MaxFaults
    BY <1>0, <2>1, FaultType
  <2> QED
    BY <1>0, <2>1, <2>2, IdleType, Settles
<1>3. CASE UNCHANGED vars
  BY <1>3
  DEF vars, StoreInv, StoreTypes, PlaceInv, PastInv, OneEntryPerTry, EntryHasMessage, Loadable
<1> QED
  BY <1>1, <1>2, <1>3

LEMMA StoreStep == StoreInv /\ SessionInv /\ [Next]_vars => StoreInv'
<1> SUFFICES ASSUME StoreInv, SessionInv, [Next]_vars PROVE StoreInv'
  OBVIOUS
<1>1. CASE acc.pc # "idle" /\ DeactivateDomain
  <2>1. UNCHANGED <<acc, try, confirmed, storeVars, faults>> /\ domainActive' \in BOOLEAN
    BY <1>1 DEF DeactivateDomain
  <2> QED
    BY <2>1
    DEF storeVars, StoreInv, StoreTypes, PlaceInv, PastInv, OneEntryPerTry, EntryHasMessage, Loadable
<1> QED
  BY <1>1, DataStep, StoreLocalStep, EnqueueLocalStep, EnqueueFailsStep, PurgeStep, RulesStep,
     StoreForRelayStep, EnqueueRelayStep, EndStep
  DEF Next, AcceptMessage

\* AcceptMessage leaves the connection between two transactions, or closed.
LEMMA AcceptSession ==
  ASSUME SessionInv, AcceptMessage \/ DeactivateDomain \/ UNCHANGED vars
  PROVE  SessionInv' /\ session'.user = session.user
<1>0. session \in SessionTypes /\ reauth \in BOOLEAN
  BY DEF SessionInv
<1>1. UNCHANGED <<listener, reauth>>
  BY DEF AcceptMessage, Refuse, Data, StoreLocal, EnqueueLocal, EnqueueLocalFails, PurgeStored,
         RunRules, StoreForRelay, EnqueueRelay, ServeFails, Accept, Crash, DeactivateDomain,
         Answer, Frame, sessionVars, vars
<1>2. \/ session' = session
      \/ session' = [session EXCEPT !.state = "closed"]
      \/ session' = Finished
      \/ /\ session' = [session EXCEPT !.state = "data"]
         /\ session.state \in {"mail", "rcpt", "authenticated"}
  BY DEF AcceptMessage, Refuse, Data, StoreLocal, EnqueueLocal, EnqueueLocalFails, PurgeStored,
         RunRules, StoreForRelay, EnqueueRelay, ServeFails, Accept, Crash, DeactivateDomain,
         Answer, Go, Fail, Complete, sessionVars, vars
<1>3. CASE session' = session
  BY <1>1, <1>3 DEF SessionInv, SenderOwned
<1>4. CASE session' = [session EXCEPT !.state = "closed"]
  <2>1. /\ session' \in SessionTypes /\ session'.state = "closed" /\ session'.from = session.from
        /\ session'.rcpts = session.rcpts /\ session'.user = session.user
        /\ session'.tls = session.tls /\ session'.login = session.login
    BY <1>0, <1>4 DEF SessionTypes, States
  <2> QED
    BY <1>1, <2>1, WithTransaction DEF InTransaction, SessionInv
<1>5. CASE session' = Finished
  <2> DEFINE g == [session EXCEPT !.state = "greeted"]
  <2>1. /\ g \in SessionTypes /\ g.state = "greeted" /\ g.user = session.user
        /\ g.tls = session.tls /\ g.login = session.login
    BY <1>0 DEF SessionTypes, States
  <2>2. session' = Reset(g)
    BY <1>5 DEF Finished
  <2> HIDE DEF g
  <2> QED
    BY <1>0, <1>1, <2>1, <2>2, ResetKeeps, WithoutSender DEF InTransaction
<1>6. CASE /\ session' = [session EXCEPT !.state = "data"]
           /\ session.state \in {"mail", "rcpt", "authenticated"}
  <2>1. /\ session' \in SessionTypes /\ session'.from = session.from
        /\ session'.rcpts = session.rcpts /\ session'.user = session.user
        /\ session'.tls = session.tls /\ session'.login = session.login
    BY <1>0, <1>6 DEF SessionTypes, States
  <2> QED
    BY <1>1, <1>6, <2>1, WithTransaction DEF InTransaction, SessionInv
<1> QED
  BY <1>2, <1>3, <1>4, <1>5, <1>6

LEMMA SessionInvStep == SessionInv /\ [Next]_vars => SessionInv'
BY SessionStep, AcceptSession DEF Next

LEMMA InitInvs == Init => SessionInv /\ StoreInv /\ RelayInv
<1> SUFFICES ASSUME Init PROVE SessionInv /\ StoreInv /\ RelayInv
  OBVIOUS
<1>1. SessionInv
  <2>1. /\ session \in SessionTypes /\ session.user = Nobody /\ session.login = 0
        /\ session.from = Nobody /\ session.state = "new" /\ session.rcpts = <<>>
    BY DEF Init, NewSession, SessionTypes, States
  <2>2. Len(session.rcpts) <= MaxRecipients /\ DOMAIN session.rcpts = {} /\ ~(session.login > 0)
    BY <2>1, ReceptionAssumption
  <2>3. listener \in Ports /\ reauth \in BOOLEAN
    BY DEF Init, Ports
  <2>4. SenderOwned /\ session.state \notin InTransaction
    BY <2>1 DEF SenderOwned, InTransaction
  <2> QED
    BY <2>1, <2>2, <2>3, <2>4 DEF SessionInv
<1>2. acc \in AccTypes /\ acc.pc = "idle"
  BY IdleType DEF Init
<1>3. StoreTypes
  <2>1. try \in 0 .. MaxTries /\ faults \in 0 .. MaxFaults
    BY ReceptionAssumption DEF Init
  <2>2. copy \in [Tries -> [Holders -> CopyStates]]
    BY DEF Init, CopyStates
  <2>3. queued \in [Tries -> [Mailboxes -> Nat]]
    BY DEF Init
  <2> QED
    BY <1>2, <2>1, <2>2, <2>3 DEF Init, StoreTypes
<1>4. PlaceInv /\ PastInv /\ OneEntryPerTry /\ EntryHasMessage
  BY <1>2 DEF Init, PlaceInv, PastInv, OneEntryPerTry, EntryHasMessage, Loadable
<1> QED
  BY <1>1, <1>2, <1>3, <1>4 DEF Init, StoreInv, RelayInv, RelayAuthorised

LEMMA RelayStep == RelayInv /\ SessionInv /\ StoreInv /\ [Next]_vars => RelayInv'
<1> SUFFICES ASSUME RelayInv, SessionInv, StoreInv, [Next]_vars PROVE RelayInv'
  OBVIOUS
<1>1. domainActive' => domainActive
  BY DEF Next, Session, Ehlo, Rset, Quit, AuthLogin, StartTLS, Mail, Rcpt, AuthPlain, LoginStep,
         Connect, AcceptMessage, Refuse, Data, StoreLocal, EnqueueLocal, EnqueueLocalFails,
         PurgeStored, RunRules, StoreForRelay, EnqueueRelay, ServeFails, Accept, Crash,
         DeactivateDomain, Answer, Frame, vars
<1>2. CASE Session
  <2>1. acc.pc = "idle" /\ acc' = acc /\ relayed' = relayed
    BY <1>2
    DEF Session, Ehlo, Rset, Quit, AuthLogin, StartTLS, Mail, Rcpt, AuthPlain, LoginStep,
        Connect, Answer, Ready, Command, storeVars
  <2> QED
    BY <1>1, <2>1 DEF RelayInv, RelayAuthorised
<1>3. CASE Data
  <2>1. /\ acc'.out = External /\ relayed' = relayed /\ domainActive' = domainActive
        /\ session'.user = session.user /\ session'.rcpts = session.rcpts
    BY <1>3 DEF Data, Idle, storeVars, SessionInv, SessionTypes
  <2>2. session.user = Nobody => \A a \in External : Home[a] # {} /\ ~domainActive
    BY DEF SessionInv, External, IsLocal
  <2> QED
    BY <2>1, <2>2 DEF RelayInv, RelayAuthorised
<1>4. ASSUME NEW a \in Addresses, EnqueueRelay(a) PROVE RelayInv'
  <2>1. /\ relayed' = relayed \union {[try |-> try, to |-> a, msg |-> h, user |-> session.user] : h \in acc.first}
        /\ acc.pc = "serve" /\ a \in acc.out /\ acc' = [acc EXCEPT !.out = @ \ {a}]
        /\ session' = session /\ domainActive' = domainActive
    BY <1>4 DEF EnqueueRelay, LocalServed, Go, Frame
  <2>2. acc'.pc = "serve" /\ acc'.out = acc.out \ {a}
    BY <2>1 DEF StoreInv, StoreTypes, AccTypes
  <2>3. session.user = Nobody => Home[a] # {} /\ ~domainActive
    BY <2>1 DEF RelayInv
  <2>4. \A e \in relayed' : e \in relayed \/ (e.to = a /\ e.user = session.user)
    BY <2>1
  <2> QED
    BY <2>1, <2>2, <2>3, <2>4 DEF RelayInv, RelayAuthorised
<1>5. ASSUME acc.pc # "idle", acc'.out = acc.out, relayed' = relayed, session' = session
      PROVE  RelayInv'
  BY <1>1, <1>5 DEF RelayInv, RelayAuthorised
<1>6. ASSUME acc'.pc = "idle", relayed' = relayed
      PROVE  RelayInv'
  BY <1>1, <1>6 DEF RelayInv, RelayAuthorised
<1>7. CASE \/ Refuse \/ PurgeStored \/ ServeFails \/ Accept \/ Crash
           \/ acc.pc = "idle" /\ DeactivateDomain
  <2>1. acc'.pc = "idle" /\ relayed' = relayed
    BY <1>7, IdleType
    DEF Refuse, PurgeStored, ServeFails, Accept, Crash, DeactivateDomain, Fail, Answer,
        Command, Ready, storeVars
  <2> QED
    BY <1>6, <2>1
<1>8. CASE acc.pc # "idle" /\ DeactivateDomain
  BY <1>5, <1>8 DEF DeactivateDomain, sessionVars, storeVars
<1>9. CASE \/ \E m \in Mailboxes : StoreLocal(m)
           \/ EnqueueLocal \/ EnqueueLocalFails \/ RunRules \/ StoreForRelay
  <2>1. acc.pc # "idle" /\ relayed' = relayed /\ session' = session
    BY <1>9
    DEF StoreLocal, EnqueueLocal, EnqueueLocalFails, RunRules, StoreForRelay, LocalServed, Go,
        storeVars
  <2>2. acc'.out = acc.out
    BY <1>9
    DEF StoreLocal, EnqueueLocal, EnqueueLocalFails, RunRules, StoreForRelay, Go,
        StoreInv, StoreTypes, AccTypes
  <2> QED
    BY <1>5, <2>1, <2>2
<1>10. CASE UNCHANGED vars
  BY <1>10 DEF vars, RelayInv, RelayAuthorised
<1> QED
  BY <1>2, <1>3, <1>4, <1>7, <1>8, <1>9, <1>10 DEF Next, AcceptMessage

----------------------------------------------------------------------------
(* The theorems.                                                           *)

LEMMA Invariance == Spec => [](SessionInv /\ StoreInv /\ RelayInv)
BY InitInvs, SessionInvStep, StoreStep, RelayStep, PTL DEF Spec

\* Every variable keeps to its type, and a transaction to its limit of recipients.
THEOREM ReceptionTypes == Spec => []TypeOK
<1>1. SessionInv /\ StoreInv => TypeOK
  BY DEF SessionInv, StoreInv, StoreTypes, TypeOK, Ports, SessionTypes, AccTypes, Entries
<1> QED
  BY <1>1, Invariance, PTL

\* No order of commands opens a transaction on the submission port without an
\* identity or in clear.
THEOREM SubmissionIsProtected == Spec => []SubmissionProtected
<1>1. SessionInv => SubmissionProtected
  BY DEF SessionInv, SubmissionProtected, InTransaction
<1> QED
  BY <1>1, Invariance, PTL

\* A sender that the identity may not use is refused, unless it was named before the
\* client authenticated.
THEOREM SenderIsOwned == Spec => []SenderOwned
<1>1. SessionInv => SenderOwned
  BY DEF SessionInv
<1> QED
  BY <1>1, Invariance, PTL

\* What a client without an identity has relayed was local when it was named.
THEOREM RelayIsAuthorised == Spec => []RelayAuthorised
<1>1. RelayInv => RelayAuthorised
  BY DEF RelayInv
<1> QED
  BY <1>1, Invariance, PTL

\* However many recipients of a try lead to a mailbox, it gets one entry.
THEOREM OneEntryForATry == Spec => []OneEntryPerTry
<1>1. StoreInv => OneEntryPerTry
  BY DEF StoreInv
<1> QED
  BY <1>1, Invariance, PTL

\* No fault at no point leaves a queue entry without its message.
THEOREM EntriesHaveMessages == Spec => []EntryHasMessage
<1>1. StoreInv => EntryHasMessage
  BY DEF StoreInv
<1> QED
  BY <1>1, Invariance, PTL

----------------------------------------------------------------------------
(* 250 means that every recipient is served.                               *)

\* While a message is accepted, each of its recipients is served already or still
\* to be served: through its mailboxes, or as an external one.
Pending(a) ==
  \/ a \in acc.out
  \/ \E e \in relayed : e.try = try /\ e.to = a
  \/ Home[a] # {} /\ \A m \in Home[a] : acc.todo[m] = 1 \/ queued[try][m] > 0

PendingInv == acc.pc # "idle" => \A i \in DOMAIN session.rcpts : Pending(session.rcpts[i])

\* A mailbox that some recipient leads to is on the list of AcceptMessage.
LEMMA OnTheList ==
  ASSUME SessionInv, NEW i \in DOMAIN session.rcpts, IsLocal(session.rcpts[i]),
         NEW m \in Home[session.rcpts[i]]
  PROVE  Dedup(Resolved(m)) = 1
<1> DEFINE S == {j \in DOMAIN session.rcpts : IsLocal(session.rcpts[j]) /\ m \in Home[session.rcpts[j]]}
<1>1. session.rcpts \in Seq(Addresses)
  BY DEF SessionInv, SessionTypes
<1>2. IsFiniteSet(1 .. Len(session.rcpts)) /\ DOMAIN session.rcpts = 1 .. Len(session.rcpts)
  BY <1>1, FS_Interval
<1>3. S \subseteq 1 .. Len(session.rcpts) /\ i \in S
  BY <1>2
<1>4. IsFiniteSet(S)
  BY <1>2, <1>3, FS_Subset
<1>5. Cardinality(S) \in Nat /\ Cardinality(S) # 0
  BY <1>3, <1>4, FS_CardinalityType, FS_EmptySet
<1>6. Resolved(m) = Cardinality(S)
  BY DEF Resolved
<1> HIDE DEF S
<1> QED
  BY <1>5, <1>6 DEF Dedup

LEMMA PendingStep == PendingInv /\ StoreInv /\ SessionInv /\ [Next]_vars => PendingInv'
<1> SUFFICES ASSUME PendingInv, StoreInv, SessionInv, [Next]_vars PROVE PendingInv'
  OBVIOUS
<1> USE DEF Frame, storeVars
<1>0. /\ session.rcpts \in Seq(Addresses)
      /\ \A i \in DOMAIN session.rcpts : Home[session.rcpts[i]] \subseteq Mailboxes
  BY ReceptionAssumption DEF SessionInv, SessionTypes
\* A step that serves what it takes off the list.
<1>1. ASSUME acc.pc # "idle", session' = session, try' = try, relayed \subseteq relayed',
             \A a \in acc.out : a \in acc'.out \/ (\E e \in relayed' : e.try = try /\ e.to = a),
             \A m \in Mailboxes : /\ acc.todo[m] = 1 => acc'.todo[m] = 1 \/ queued'[try][m] > 0
                                  /\ queued[try][m] > 0 => queued'[try][m] > 0
      PROVE  PendingInv'
  <2> SUFFICES ASSUME NEW i \in DOMAIN session.rcpts PROVE Pending(session.rcpts[i])'
    BY <1>1 DEF PendingInv
  <2>1. Pending(session.rcpts[i])
    BY <1>1 DEF PendingInv
  <2> QED
    BY <1>0, <1>1, <2>1 DEF Pending
<1>2. ASSUME acc'.pc = "idle" PROVE PendingInv'
  BY <1>2 DEF PendingInv
<1>3. CASE \/ Session \/ Refuse \/ PurgeStored \/ ServeFails \/ Accept \/ Crash
           \/ acc.pc = "idle" /\ DeactivateDomain
  <2>1. acc'.pc = "idle"
    BY <1>3, IdleType
    DEF Session, Ehlo, Rset, Quit, AuthLogin, StartTLS, Mail, Rcpt, AuthPlain, LoginStep, Connect,
        Refuse, PurgeStored, ServeFails, Accept, Crash, DeactivateDomain, Fail, Answer, Command,
        Ready
  <2> QED
    BY <1>2, <2>1
<1>4. CASE Data
  <2>1. /\ acc'.out = External /\ session'.rcpts = session.rcpts
        /\ acc'.todo = [m \in Mailboxes |-> Dedup(Resolved(m))]
    BY <1>4 DEF Data, Idle, SessionInv, SessionTypes
  <2> SUFFICES ASSUME NEW i \in DOMAIN session.rcpts PROVE Pending(session.rcpts[i])'
    BY <2>1 DEF PendingInv
  <2>2. CASE IsLocal(session.rcpts[i])
    <3>1. \A m \in Home[session.rcpts[i]] : acc'.todo[m] = 1
      BY <1>0, <2>1, <2>2, OnTheList
    <3>2. Home[session.rcpts[i]] # {}
      BY <2>2 DEF IsLocal
    <3> QED
      BY <2>1, <3>1, <3>2 DEF Pending
  <2>3. CASE ~IsLocal(session.rcpts[i])
    <3>1. session.rcpts[i] \in External
      BY <1>0, <2>3 DEF External
    <3> QED
      BY <2>1, <3>1 DEF Pending
  <2> QED
    BY <2>2, <2>3
<1>5. ASSUME NEW m \in Mailboxes, StoreLocal(m) PROVE PendingInv'
  <2>1. acc'.out = acc.out /\ acc'.todo = acc.todo /\ acc.pc = "serve"
    BY <1>5 DEF StoreLocal, Go, StoreInv, StoreTypes, AccTypes
  <2> QED
    BY <1>1, <1>5, <2>1 DEF StoreLocal, Go
<1>6. CASE EnqueueLocal
  <2>1. acc'.out = acc.out /\ acc'.todo = acc.todo /\ acc.pc = "enqueue"
    BY <1>6 DEF EnqueueLocal, Go, StoreInv, StoreTypes, AccTypes
  <2>2. /\ queued' = [queued EXCEPT ![try][acc.at] = @ + 1]
        /\ try \in Tries /\ queued \in [Tries -> [Mailboxes -> Nat]]
    BY <1>6 DEF EnqueueLocal, StoreInv, StoreTypes, PlaceInv
  <2>3. \A m \in Mailboxes : queued[try][m] > 0 => queued'[try][m] > 0
    BY <2>2
  <2> QED
    BY <1>1, <1>6, <2>1, <2>3 DEF EnqueueLocal, Go
<1>7. CASE EnqueueLocalFails
  <2>1. acc'.out = acc.out /\ acc'.todo = acc.todo /\ acc.pc = "enqueue"
    BY <1>7 DEF EnqueueLocalFails, Go, StoreInv, StoreTypes, AccTypes
  <2> QED
    BY <1>1, <1>7, <2>1 DEF EnqueueLocalFails, Go
<1>8. CASE RunRules
  <2>1. /\ acc'.out = acc.out /\ acc.pc = "rules"
        /\ \A m \in Mailboxes : m # acc.at => acc'.todo[m] = acc.todo[m]
    BY <1>8 DEF RunRules, Go, StoreInv, StoreTypes, AccTypes
  <2>2. queued[try][acc.at] = 1
    BY <2>1 DEF StoreInv, PlaceInv
  <2> QED
    BY <1>1, <1>8, <2>1, <2>2 DEF RunRules, Go
<1>9. CASE StoreForRelay
  <2>1. acc'.out = acc.out /\ acc'.todo = acc.todo /\ acc.pc = "serve"
    BY <1>9 DEF StoreForRelay, LocalServed, Go, StoreInv, StoreTypes, AccTypes
  <2> QED
    BY <1>1, <1>9, <2>1 DEF StoreForRelay, Go
<1>10. ASSUME NEW a \in Addresses, EnqueueRelay(a) PROVE PendingInv'
  <2>1. acc'.out = acc.out \ {a} /\ acc'.todo = acc.todo /\ acc.pc = "serve"
    BY <1>10 DEF EnqueueRelay, LocalServed, Go, StoreInv, StoreTypes, AccTypes
  <2>2. /\ acc.first # {} /\ relayed \subseteq relayed'
        /\ relayed' = relayed \union {[try |-> try, to |-> a, msg |-> h, user |-> session.user] : h \in acc.first}
    BY <1>10 DEF EnqueueRelay
  <2>3. \E e \in relayed' : e.try = try /\ e.to = a
    <3>1. PICK h \in acc.first : TRUE
      BY <2>2
    <3>2. [try |-> try, to |-> a, msg |-> h, user |-> session.user] \in relayed'
      BY <2>2, <3>1
    <3> QED
      BY <3>2
  <2> QED
    BY <1>1, <1>10, <2>1, <2>2, <2>3 DEF EnqueueRelay, Go
<1>11. CASE acc.pc # "idle" /\ DeactivateDomain
  BY <1>1, <1>11 DEF DeactivateDomain, sessionVars
<1>12. CASE UNCHANGED vars
  BY <1>12 DEF vars, PendingInv, Pending
<1> QED
  BY <1>3, <1>4, <1>5, <1>6, <1>7, <1>8, <1>9, <1>10, <1>11, <1>12 DEF Next, AcceptMessage

\* A client that reads 250 can forget the message: every recipient it named has an
\* entry of this try, whatever was deactivated and however often it tried before.
THEOREM AcceptanceServes == Spec => AcceptedMeansQueued
<1>1. Init => PendingInv
  BY IdleType DEF Init, PendingInv
<1>2. /\ PendingInv /\ StoreInv /\ SessionInv /\ [Next]_vars
      => (confirmed' /\ ~confirmed => \A i \in DOMAIN session.rcpts : Served(session.rcpts[i]))
  <2> SUFFICES ASSUME PendingInv, StoreInv, SessionInv, [Next]_vars, confirmed', ~confirmed,
                      NEW i \in DOMAIN session.rcpts
               PROVE  Served(session.rcpts[i])
    OBVIOUS
  <2>1. Accept
    BY DEF Next, Session, Ehlo, Rset, Quit, AuthLogin, StartTLS, Mail, Rcpt, AuthPlain, LoginStep,
           Connect, AcceptMessage, Refuse, Data, StoreLocal, EnqueueLocal, EnqueueLocalFails,
           PurgeStored, RunRules, StoreForRelay, EnqueueRelay, ServeFails, Crash,
           DeactivateDomain, Answer, Go, Fail, vars
  <2>2. acc.pc = "serve" /\ acc.out = {} /\ \A m \in Mailboxes : acc.todo[m] = 0
    BY <2>1 DEF Accept, LocalServed
  <2>3. Pending(session.rcpts[i])
    BY <2>2 DEF PendingInv
  <2>4. Home[session.rcpts[i]] \subseteq Mailboxes
    BY ReceptionAssumption DEF SessionInv, SessionTypes
  <2> QED
    BY <2>2, <2>3, <2>4 DEF Pending, Served
<1> QED
  BY <1>1, <1>2, Invariance, PendingStep, PTL DEF Spec, AcceptedMeansQueued

----------------------------------------------------------------------------
(* A copy without an entry is the work of a fault.                         *)

\* The copies without an entry, but for the one that is about to be queued.
Loose == Orphans \ (IF acc.pc = "enqueue" THEN {<<try, acc.at>>} ELSE {})

OrphanInv == IsFiniteSet(Loose) /\ Cardinality(Loose) <= faults

\* No fault, and no new copy without an entry.
LEMMA NoneAdded ==
  ASSUME OrphanInv, StoreInv, Loose' \subseteq Loose, faults' = faults
  PROVE  OrphanInv'
<1>1. IsFiniteSet(Loose') /\ Cardinality(Loose') <= Cardinality(Loose)
  BY FS_Subset DEF OrphanInv
<1>2. Cardinality(Loose) \in Nat /\ Cardinality(Loose') \in Nat /\ faults \in Nat
  BY <1>1, FS_CardinalityType, ReceptionAssumption DEF OrphanInv, StoreInv, StoreTypes
<1> QED
  BY <1>1, <1>2 DEF OrphanInv

\* A fault may leave one.
LEMMA OneAdded ==
  ASSUME OrphanInv, StoreInv, NEW x, Loose' \subseteq Loose \union {x}, Fault
  PROVE  OrphanInv'
<1>1. IsFiniteSet(Loose \union {x}) /\ Cardinality(Loose \union {x}) <= Cardinality(Loose) + 1
  <2>1. /\ IsFiniteSet(Loose \union {x})
        /\ Cardinality(Loose \union {x}) = IF x \in Loose THEN Cardinality(Loose)
                                           ELSE Cardinality(Loose) + 1
    BY FS_AddElement DEF OrphanInv
  <2> QED
    BY <2>1, FS_CardinalityType DEF OrphanInv
<1>2. IsFiniteSet(Loose') /\ Cardinality(Loose') <= Cardinality(Loose \union {x})
  BY <1>1, FS_Subset
<1>3. /\ Cardinality(Loose) \in Nat /\ Cardinality(Loose') \in Nat
      /\ Cardinality(Loose \union {x}) \in Nat /\ faults \in Nat /\ faults' = faults + 1
  BY <1>1, <1>2, FS_CardinalityType, ReceptionAssumption DEF OrphanInv, StoreInv, StoreTypes, Fault
<1> QED
  BY <1>1, <1>2, <1>3 DEF OrphanInv

LEMMA OrphanStep == OrphanInv /\ StoreInv /\ SessionInv /\ [Next]_vars => OrphanInv'
<1> SUFFICES ASSUME OrphanInv, StoreInv, SessionInv, [Next]_vars PROVE OrphanInv'
  OBVIOUS
<1> USE DEF Frame, storeVars
<1>0. /\ acc \in AccTypes /\ copy \in [Tries -> [Holders -> CopyStates]]
      /\ queued \in [Tries -> [Mailboxes -> Nat]]
      /\ acc.pc \in {"enqueue", "purge", "rules"} => try \in Tries /\ acc.at \in Mailboxes
  BY DEF StoreInv, StoreTypes, PlaceInv
\* A step that leaves copies and entries alone.
<1>1. ASSUME UNCHANGED <<copy, queued>> PROVE Orphans' = Orphans
  BY <1>1 DEF Orphans
<1>2. ASSUME UNCHANGED <<copy, queued, faults>>, acc.pc # "enqueue" PROVE OrphanInv'
  <2>1. Loose' \subseteq Loose
    BY <1>1, <1>2 DEF Loose
  <2> QED
    BY <1>2, <2>1, NoneAdded
<1>3. ASSUME UNCHANGED <<copy, queued>>, Fault PROVE OrphanInv'
  <2>1. Loose' \subseteq Loose \union {<<try, acc.at>>}
    BY <1>1, <1>3 DEF Loose
  <2> QED
    BY <1>3, <2>1, OneAdded
<1>4. CASE Session \/ Refuse \/ Data \/ \E a \in Addresses : EnqueueRelay(a)
  <2>1. UNCHANGED <<copy, queued, faults>> /\ acc.pc # "enqueue"
    BY <1>4
    DEF Session, Ehlo, Rset, Quit, AuthLogin, StartTLS, Mail, Rcpt, AuthPlain, LoginStep, Connect,
        Refuse, Data, EnqueueRelay, LocalServed, Answer, Command, Ready
  <2> QED
    BY <1>2, <2>1
<1>5. ASSUME NEW m \in Mailboxes, StoreLocal(m) PROVE OrphanInv'
  <2>1. /\ acc.pc = "serve" /\ acc'.pc = "enqueue" /\ acc'.at = m
        /\ copy' = [copy EXCEPT ![try][m] = "stored"]
        /\ UNCHANGED <<try, queued, faults>>
    BY <1>0, <1>5 DEF StoreLocal, Go, AccTypes
  <2>2. \A x \in Tries \X Mailboxes : x # <<try, m>> => copy'[x[1]][x[2]] = copy[x[1]][x[2]]
    BY <1>0, <2>1 DEF Holders
  <2>3. Loose' \subseteq Loose
    BY <2>1, <2>2 DEF Loose, Orphans
  <2> QED
    BY <2>1, <2>3, NoneAdded
<1>6. CASE EnqueueLocal
  <2>1. /\ acc.pc = "enqueue" /\ acc'.pc = "rules"
        /\ queued' = [queued EXCEPT ![try][acc.at] = @ + 1]
        /\ UNCHANGED <<try, copy, faults>>
    BY <1>0, <1>6 DEF EnqueueLocal, Go, AccTypes
  <2>2. \A x \in Tries \X Mailboxes :
          IF x = <<try, acc.at>> THEN queued'[x[1]][x[2]] # 0
                                 ELSE queued'[x[1]][x[2]] = queued[x[1]][x[2]]
    BY <1>0, <2>1
  <2>3. Loose' \subseteq Loose
    BY <2>1, <2>2 DEF Loose, Orphans
  <2> QED
    BY <2>1, <2>3, NoneAdded
<1>7. CASE EnqueueLocalFails \/ ServeFails \/ Crash
  BY <1>3, <1>7 DEF EnqueueLocalFails, ServeFails, Crash
<1>8. CASE PurgeStored
  <2>1. /\ acc.pc = "purge" /\ acc'.pc = "idle" /\ UNCHANGED <<try, queued>>
        /\ \/ /\ copy' = [copy EXCEPT ![try] = [h \in Holders |-> IF h \in PurgeLast THEN "purged" ELSE @[h]]]
              /\ faults' = faults
           \/ Fault /\ copy' = copy
    BY <1>8, IdleType DEF PurgeStored, Fail
  <2>2. CASE Fault /\ copy' = copy
    BY <1>3, <2>1, <2>2
  <2>3. CASE /\ copy' = [copy EXCEPT ![try] = [h \in Holders |-> IF h \in PurgeLast THEN "purged" ELSE @[h]]]
             /\ faults' = faults
    <3>1. \A x \in Tries \X Mailboxes :
            copy'[x[1]][x[2]] = copy[x[1]][x[2]] \/ copy'[x[1]][x[2]] = "purged"
      BY <1>0, <2>1, <2>3 DEF Holders
    <3>2. Loose' \subseteq Loose
      BY <2>1, <3>1 DEF Loose, Orphans
    <3> QED
      BY <2>3, <3>2, NoneAdded
  <2> QED
    BY <2>1, <2>2, <2>3
<1>9. CASE StoreForRelay
  <2>1. /\ acc.pc = "serve" /\ acc'.pc = "serve"
        /\ copy' = [copy EXCEPT ![try][Nobody] = "stored"]
        /\ UNCHANGED <<try, queued, faults>>
    BY <1>0, <1>9 DEF StoreForRelay, LocalServed, Go, AccTypes
  <2>2. \A x \in Tries \X Mailboxes : copy'[x[1]][x[2]] = copy[x[1]][x[2]]
    BY <1>0, <2>1, ReceptionAssumption DEF Holders
  <2>3. Loose' \subseteq Loose
    BY <2>1, <2>2 DEF Loose, Orphans
  <2> QED
    BY <2>1, <2>3, NoneAdded
<1>10. CASE Accept
  <2>1. acc.pc = "serve" /\ UNCHANGED <<copy, queued>> /\ (faults' = faults \/ Fault)
    BY <1>10 DEF Accept, LocalServed
  <2> QED
    BY <1>2, <1>3, <2>1
<1>11. CASE DeactivateDomain \/ UNCHANGED vars
  <2>1. UNCHANGED <<acc, try, copy, queued, faults>>
    BY <1>11 DEF DeactivateDomain, vars
  <2>2. Loose' \subseteq Loose
    BY <1>1, <2>1 DEF Loose
  <2> QED
    BY <2>1, <2>2, NoneAdded
\* The rules may delete the copy that was queued.
<1>12. CASE RunRules
  <2>1. /\ acc.pc = "rules" /\ acc'.pc = "serve" /\ UNCHANGED <<try, queued, faults>>
        /\ copy' = copy \/ copy' = [copy EXCEPT ![try][acc.at] = "deleted"]
    BY <1>0, <1>12 DEF RunRules, Go, AccTypes
  <2>2. \A x \in Tries \X Mailboxes :
          copy'[x[1]][x[2]] = copy[x[1]][x[2]] \/ copy'[x[1]][x[2]] = "deleted"
    BY <1>0, <2>1 DEF Holders
  <2>3. Loose' \subseteq Loose
    BY <2>1, <2>2 DEF Loose, Orphans
  <2> QED
    BY <2>1, <2>3, NoneAdded
<1> QED
  BY <1>4, <1>5, <1>6, <1>7, <1>8, <1>9, <1>10, <1>11, <1>12 DEF Next, AcceptMessage

\* Whatever fails and whenever the process dies, no more copies are left without a
\* queue entry than there were faults: AcceptMessage purges what it cannot queue.
THEOREM OrphansHaveFaults == Spec => []OrphanedByFault
<1>1. Init => OrphanInv
  <2> SUFFICES ASSUME Init PROVE OrphanInv
    OBVIOUS
  <2>1. Orphans = {} /\ faults = 0
    BY DEF Init, Orphans, Holders
  <2>2. Loose = {}
    BY <2>1 DEF Loose
  <2> QED
    BY <2>1, <2>2, FS_EmptySet DEF OrphanInv
<1>2. OrphanInv => OrphanedByFault
  BY DEF OrphanInv, OrphanedByFault, Loose
<1> QED
  BY <1>1, <1>2, Invariance, OrphanStep, PTL DEF Spec

=============================================================================
