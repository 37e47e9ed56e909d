-------------------------- MODULE DeliveryAttempt --------------------------
(***************************************************************************)
(* One attempt of a delivery worker at a remote recipient (deliverRemote): *)
(* the suppression check, the routing decision, the walk over the relays   *)
(* of the chosen chain or over the addresses of the recipient's mail       *)
(* exchangers, and the SMTP session with each.  The stores, the network    *)
(* and the servers are the environment: an answer of theirs is a choice    *)
(* among the classes that the code tells apart.                            *)
(*                                                                         *)
(* What MailQueue takes from here, what an attempt returns and how many    *)
(* copies of the message it may hand over, is AttemptContract, which this  *)
(* specification implements.                                               *)
(***************************************************************************)
EXTENDS Integers, Sequences, FiniteSets, SequencesExt

CONSTANTS
    Chain,       \* the providers selectFromPool returns, primary first
    MX,          \* the addresses of the mail exchangers, in preference order
    Security,    \* [relays -> {"none", "starttls", "implicit_tls"}]
    Credential,  \* [relays -> BOOLEAN], HasSecret
    MaxFallbacks \* maxFallbackChain

Relays == ToSet(Chain)
Servers == Relays \cup ToSet(MX)

ASSUME ChainAssumption ==
    /\ Chain \in Seq(Relays) /\ IsInjective(Chain)
    /\ MX \in Seq(ToSet(MX)) /\ IsInjective(MX)
    /\ Relays \cap ToSet(MX) = {}
ASSUME SecurityAssumption ==
    /\ Security \in [Relays -> {"none", "starttls", "implicit_tls"}]
    /\ Credential \in [Relays -> BOOLEAN]
ASSUME MaxFallbacksAssumption == MaxFallbacks \in Nat

VARIABLES
    policy,     \* what the rules and the suppression list say of this message
    phase,
    plan,       \* the servers to try, in order
    at,         \* the index in plan of the server the session is with
    step,       \* the next step of the session
    tls,        \* the session is encrypted
    result,     \* what the attempt returns
    \* history
    offered,    \* servers that were sent MAIL FROM
    inClear,    \* servers that were sent MAIL FROM or AUTH without TLS
    accepted,   \* servers that took the message
    unread,     \* servers whose answer to the whole message was not read,
    broken,     \* those of them that broke the connection or answered garbage
    rejected,   \* servers that answered 5xx
    reply       \* the last answer, or how it was lost; "none" before the first

sessionVars == <<plan, at, step, tls>>
historyVars == <<offered, inClear, accepted, unread, broken, rejected, reply>>
vars == <<policy, phase, sessionVars, result, historyVars>>

Commands == {"greeting", "ehlo", "helo", "starttls", "ehlo2", "auth", "mail", "rcpt", "data"}
Policies == [suppressed : BOOLEAN, route : {"direct", "relay", "blocked"}]

\* "ok" is the code the command asks for (any 2xx for the whole message),
\* "other" another one below 400, "needtls" a 5xx that asks for STARTTLS; "lost"
\* is a timeout or an orderly close, "broken" a reset or a malformed line.
Unread == {"lost", "broken"}
Replies == {"ok", "other", "4xx", "421", "5xx", "needtls"} \cup Unread
Is4xx(r) == r \in {"4xx", "421"}
Is5xx(r) == r \in {"5xx", "needtls"}

Server == plan[at]
Relayed == plan # <<>> /\ Server \in Relays

TypeOK ==
    /\ policy \in Policies
    /\ phase \in {"suppression", "routing", "walking", "done"}
    /\ plan \in Seq(Servers)
    /\ at \in 0..Len(plan)
    /\ step \in Commands \cup {"connect", "body", "final"}
    /\ tls \in BOOLEAN
    /\ result \in {"none", "delivered", "tempfail", "permfail"}
    /\ \A S \in {offered, inClear, accepted, unread, broken, rejected} : S \subseteq Servers
    /\ reply \in Replies \cup {"none"}
    /\ phase = "walking" => at # 0

Init ==
    /\ policy \in Policies
    /\ phase = "suppression"
    /\ plan = <<>> /\ at = 0 /\ step = "connect" /\ tls = FALSE
    /\ result = "none"
    /\ offered = {} /\ inClear = {} /\ accepted = {} /\ unread = {} /\ broken = {} /\ rejected = {}
    /\ reply = "none"

Return(r) ==
    /\ phase' = "done" /\ result' = r
    /\ UNCHANGED sessionVars

----------------------------------------------------------------------------
(* Before any server is contacted.                                         *)

\* TenantIDForRelay and IsSuppressed, either of which may fail.
CheckSuppression ==
    /\ phase = "suppression"
    /\ \/ Return("tempfail")
       \/ policy.suppressed /\ Return("permfail")
       \/ ~policy.suppressed /\ phase' = "routing" /\ UNCHANGED <<sessionVars, result>>
    /\ UNCHANGED <<policy, historyVars>>

\* ValidateCredentialTransport; the other conditions of resolveProviderRoute
\* are stores, credentials and addresses that may turn out bad.
CredentialSafe(p) == Credential[p] => Security[p] # "none"

\* What may be left of a sequence of servers, some of which cannot be used.
Subsequences(s) ==
    UNION {{[i \in 1..n |-> s[f[i]]] :
              f \in {f \in [1..n -> DOMAIN s] : \A i, j \in 1..n : i < j => f[i] < f[j]}} :
           n \in 0..Len(s)}

\* The chains of deliverViaRelayChain, whichever fallbacks can be resolved.
RelayPlans ==
    {<<Head(Chain)>> \o s : s \in {s \in Subsequences(Tail(Chain)) : Len(s) <= MaxFallbacks}}

Walk(servers) ==
    IF servers = <<>>
    THEN Return("tempfail")
    ELSE /\ phase' = "walking" /\ plan' = servers /\ at' = 1
         /\ UNCHANGED <<step, tls, result>>

\* Mutant: a message whose routing cannot be determined goes to the exchangers.
FallThroughToDirect ==
    \E servers \in Subsequences(MX) : Walk(servers)

\* deliverRemote defers on every error of the selector.
DeferRouting == Return("tempfail")

\* SelectRoute fails: a store or the key of a credential is unavailable, or the
\* configuration is wrong or blocks the sender.
RoutingFails ==
    /\ phase = "routing"
    /\ DeferRouting
    /\ UNCHANGED <<policy, historyVars>>

\* SelectRoute selects the exchangers or a chain of relays, and the message is
\* loaded, or is not there any more.
Route ==
    /\ phase = "routing"
    /\ \/ policy.route = "direct" /\ Return("tempfail") \* LookupMX fails
       \/ policy.route # "blocked" /\ Return("permfail")
       \/ /\ policy.route = "direct"
          /\ \E servers \in Subsequences(MX) : Walk(servers)
       \/ /\ policy.route = "relay" /\ Chain # <<>>
          /\ \E servers \in RelayPlans :
               (\A p \in ToSet(servers) : CredentialSafe(p)) /\ Walk(servers)
    /\ UNCHANGED <<policy, historyVars>>

----------------------------------------------------------------------------
(* The walk.  A temporary failure moves on to the next server, or defers   *)
(* the message after the last one; anything else ends the attempt.         *)

GoTo(s) == step' = s /\ UNCHANGED <<phase, plan, at, tls, result>>

NextServer ==
    IF at < Len(plan)
    THEN /\ at' = at + 1 /\ step' = "connect" /\ tls' = FALSE
         /\ UNCHANGED <<phase, plan, result>>
    ELSE Return("tempfail")

EndSession(temporary) == IF temporary THEN NextServer ELSE Return("permfail")

\* The connection, with the handshake of an implicit-TLS relay.
Connect ==
    /\ phase = "walking" /\ step = "connect"
    /\ \/ NextServer
       \/ /\ step' = "greeting" /\ tls' = (Relayed /\ Security[Server] = "implicit_tls")
          /\ UNCHANGED <<phase, plan, at, result>>
    /\ UNCHANGED <<policy, historyVars>>

\* What every command leaves in the history.
Recorded(r) ==
    /\ offered' = IF step = "mail" THEN offered \cup {Server} ELSE offered
    /\ inClear' = IF step \in {"mail", "auth"} /\ ~tls THEN inClear \cup {Server} ELSE inClear
    /\ rejected' = IF Is5xx(r) THEN rejected \cup {Server} ELSE rejected
    /\ reply' = r
    /\ UNCHANGED <<policy, accepted, unread, broken>>

After == [mail |-> "rcpt", rcpt |-> "data", data |-> "body"]

\* The handshake that follows a 220 to STARTTLS.
Handshake ==
    \/ NextServer
    \/ step' = "ehlo2" /\ tls' = TRUE /\ UNCHANGED <<phase, plan, at, result>>

\* Mutant: a server that does not offer STARTTLS is sent the message in clear.
OpportunisticTLS == GoTo("mail")

\* Mutant: a message that cannot be sent in clear bounces.
NoTLSForGood == Return("permfail")

\* RequireSTARTTLS: without TLS the message is deferred, not sent in clear.
TLSRequired == NextServer

\* DeliverWithTLSName, up to the reply to DATA.
DirectExchange ==
    /\ phase = "walking" /\ ~Relayed /\ step \in Commands
    /\ \E r \in Replies :
        /\ Recorded(r)
        /\ CASE step = "greeting" /\ r = "ok" -> GoTo("ehlo")
             [] step = "ehlo" /\ r = "ok" -> GoTo("starttls") \/ TLSRequired
             [] step = "ehlo" /\ r # "ok" -> GoTo("helo")
             [] step = "helo" /\ r = "ok" -> TLSRequired
             [] step \in {"greeting", "helo"} /\ r # "ok" -> EndSession(r = "421")
             [] step = "starttls" /\ r = "ok" -> Handshake
             [] step = "ehlo2" /\ r = "ok" -> GoTo("mail")
             [] step \in {"starttls", "ehlo2"} /\ r # "ok" -> NextServer
             [] step \in DOMAIN After /\ r = "ok" -> GoTo(After[step])
             [] step \in DOMAIN After /\ r # "ok" ->
                  EndSession(Is4xx(r) \/ (step = "mail" /\ r = "needtls"))

\* connectAndAuth after the EHLO that counts: AUTH only over TLS, and only if
\* the server advertises it.
Authenticate ==
    IF Credential[Server]
    THEN NextServer \/ (tls /\ GoTo("auth"))
    ELSE GoTo("mail")

\* connectAndAuth and deliverWith, up to the reply to DATA.  smtpCommand takes
\* every code below 400 for a success, and the greeting may have any code.
RelayExchange ==
    /\ phase = "walking" /\ Relayed /\ step \in Commands
    /\ \E r \in Replies :
        LET fine == IF step = "greeting" THEN r \notin Unread ELSE r \in {"ok", "other"} IN
        /\ Recorded(r)
        /\ CASE step \in DOMAIN After /\ ~fine -> EndSession(Is4xx(r))
             [] step \notin DOMAIN After /\ ~fine -> NextServer
             [] step = "greeting" /\ fine -> GoTo("ehlo")
             [] step = "ehlo" /\ fine ->
                  IF Security[Server] = "starttls" THEN GoTo("starttls") ELSE Authenticate
             [] step = "starttls" /\ fine -> Handshake
             [] step = "ehlo2" /\ fine -> Authenticate
             [] step = "auth" /\ fine -> GoTo("mail")
             [] step \in DOMAIN After /\ fine -> GoTo(After[step])

\* The message and its terminating dot.  When the write to a relay fails after
\* its first byte, the relay may have the message and the attempt ends.
WriteBody ==
    /\ phase = "walking" /\ step = "body"
    /\ \/ (GoTo("final") \/ NextServer) /\ UNCHANGED <<accepted, unread>>
       \/ /\ Relayed /\ Return("tempfail")
          /\ unread' = unread \cup {Server}
          /\ accepted' \in {accepted, accepted \cup {Server}}
    /\ UNCHANGED <<policy, offered, inClear, broken, rejected, reply>>

\* Mutant: a relay whose answer timed out is as good as one that refused.
NothingAmbiguous(r) == FALSE

\* isTimeoutOrEOF
Ambiguous(r) == Relayed /\ r = "lost"

\* Mutant: every answer that is not an error is an acceptance.
AnyAnswer(r) == r \in {"ok", "other"}

Accepts(r) == r = "ok"

\* The answer to the whole message.  A server whose answer is not read may
\* have taken the message.
ReadFinalReply ==
    /\ phase = "walking" /\ step = "final"
    /\ \E r \in Replies, took \in BOOLEAN :
        /\ r \notin Unread => took = (r = "ok")
        /\ accepted' = IF took THEN accepted \cup {Server} ELSE accepted
        /\ unread' = IF r \in Unread THEN unread \cup {Server} ELSE unread
        /\ broken' = IF r = "broken" THEN broken \cup {Server} ELSE broken
        /\ rejected' = IF Is5xx(r) THEN rejected \cup {Server} ELSE rejected
        /\ reply' = r
        /\ CASE Accepts(r) -> Return("delivered")
             [] Ambiguous(r) -> Return("tempfail")
             [] ~Accepts(r) /\ ~Ambiguous(r) ->
                  EndSession(Is4xx(r) \/ (Relayed /\ r \in Unread))
    /\ UNCHANGED <<policy, offered, inClear>>

Next ==
    \/ CheckSuppression
    \/ RoutingFails
    \/ Route
    \/ Connect
    \/ DirectExchange
    \/ RelayExchange
    \/ WriteBody
    \/ ReadFinalReply

Spec == Init /\ [][Next]_vars
----------------------------------------------------------------------------
(* Properties.                                                             *)

\* Whatever store fails at whatever point, nothing is offered to a suppressed
\* recipient, to an exchanger when the rules demand a relay, or at all when
\* they block the sender.
PolicyHolds ==
    offered # {} =>
        /\ ~policy.suppressed
        /\ policy.route # "blocked"
        /\ offered \subseteq (IF policy.route = "relay" THEN Relays ELSE ToSet(MX))

\* No exchanger is sent the message in clear, and a relay only if it is
\* configured without TLS and has no credential that could leak.
NoCleartext ==
    \A s \in inClear : s \in Relays /\ Security[s] = "none" /\ ~Credential[s]

\* Once a server may have taken the message no other one is offered it, save
\* after a relay whose connection broke: an attempt hands over one copy more
\* for each of these.
NothingAfterAcceptance ==
    \A s \in unread \cup accepted : s # Server => Relayed /\ s \in broken

\* An attempt reports the message delivered exactly when a server took it,
\* unless the answer was not read.
AcceptanceReported ==
    phase = "done" => (result = "delivered" <=> accepted \ unread # {})

Contract == INSTANCE AttemptContract WITH
    MaxChain <- 1 + MaxFallbacks,
    returned <- result,
    copies <- Cardinality(accepted),
    unsure <- Cardinality(accepted \cap unread)

\* An attempt keeps the contract that the queue counts on: it hands over one
\* message at a time, returns "delivered" exactly for the one whose acceptance was
\* read, and never more copies than one for each relay of the bounded chain, even
\* when it is cut short.
KeepsContract == Contract!ContractSpec

\* Wherever the attempt is cut short, or once it has returned, it owes the queue no
\* copy that AttemptDelivery of MailQueue does not count; cut short, it is to the
\* queue an attempt that failed for now.
FulfilsTheQueue ==
    Contract!Owes(IF phase = "done" THEN result ELSE "tempfail",
                  Cardinality(accepted), Cardinality(accepted \cap unread))

\* What is left of the attempt: the servers to come, and the steps of a session.
StepsAfter ==
    [connect |-> 12, greeting |-> 11, ehlo |-> 10, helo |-> 9, starttls |-> 9, ehlo2 |-> 8,
     auth |-> 7, mail |-> 6, rcpt |-> 5, data |-> 4, body |-> 3, final |-> 2]

Left ==
    CASE phase = "suppression" -> 12 * (Len(Chain) + Len(MX)) + 2
      [] phase = "routing" -> 12 * (Len(Chain) + Len(MX)) + 1
      [] phase = "walking" -> 12 * (Len(plan) - at) + StepsAfter[step]
      [] phase = "done" -> 0

\* Every step brings the attempt closer to its end, whatever the servers answer:
\* neither the fallback to HELO, nor the second EHLO after STARTTLS, nor the next
\* server of the chain lets a session or the walk start over.
EveryStepCounts == [][Left' < Left]_vars

\* After a connection drop or a timeout following DATA the message is not
\* offered to a fallback relay.
AmbiguousStopsChain ==
    \A s \in unread : Relayed => s = Server

\* Where an answer, or the lack of one, may end the attempt for good.
Transaction == {"mail", "rcpt", "data", "final"}
Final == Transaction \cup (IF Relayed THEN {} ELSE {"greeting", "helo"})

\* A message that was routed bounces on what the last server tried answered, never
\* because a server could not be reached or refused EHLO, TLS or a credential, and
\* never on a 4xx of the mail transaction, on an exchanger that asks for TLS at MAIL,
\* or on a relay whose final answer was lost.  It is wider than "only for permanent
\* 5xx": a connection that breaks or times out has code 0, which the code takes for
\* permanent within the transaction and, with an exchanger, at the greeting and at
\* HELO, where a 4xx other than 421 is permanent as well.
BounceHasCause ==
    phase = "done" /\ result = "permfail" /\ plan # <<>> =>
        /\ step \in Final
        /\ reply \notin {"none", "ok", "421"}
        /\ step \in Transaction => ~Is4xx(reply)
        /\ step = "mail" /\ ~Relayed => reply # "needtls"
        /\ step = "final" /\ Relayed => reply \notin Unread
=============================================================================
