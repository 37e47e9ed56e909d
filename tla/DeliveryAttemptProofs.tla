----------------------- MODULE DeliveryAttemptProofs -----------------------
(***************************************************************************)
(* Theorems about DeliveryAttempt, for any chain of relays, any exchangers *)
(* and any configuration of the relays.                                    *)
(***************************************************************************)
EXTENDS DeliveryAttempt, SequenceTheorems, FiniteSetTheorems, TLAPS

----------------------------------------------------------------------------
(* The plans a walk can follow.                                            *)

LEMMA SubsequenceOf ==
    ASSUME NEW S, NEW s \in Seq(S), NEW p \in Subsequences(s)
    PROVE  /\ p \in Seq(S)
           /\ \A i \in 1..Len(p) : p[i] \in ToSet(s)
           /\ IsInjective(s) => IsInjective(p)
           /\ Len(p) <= Len(s)
<1>0. PICK n \in 0..Len(s) :
        \E f \in [1..n -> DOMAIN s] :
            /\ \A i, j \in 1..n : i < j => f[i] < f[j]
            /\ p = [i \in 1..n |-> s[f[i]]]
  BY DEF Subsequences
<1>1. PICK f \in [1..n -> DOMAIN s] :
        /\ \A i, j \in 1..n : i < j => f[i] < f[j]
        /\ p = [i \in 1..n |-> s[f[i]]]
  BY <1>0
<1>2. Len(s) \in Nat /\ DOMAIN s = 1..Len(s) /\ n \in Nat
  OBVIOUS
<1>3. \A i \in 1..n : s[f[i]] \in S /\ s[f[i]] \in ToSet(s)
  BY <1>1, <1>2 DEF ToSet
<1>4. p \in Seq(S) /\ Len(p) = n /\ DOMAIN p = 1..n
  BY <1>1, <1>2, <1>3
<1>5. ASSUME IsInjective(s), NEW i \in 1..n, NEW j \in 1..n, p[i] = p[j]
      PROVE  i = j
  <2>1. f[i] = f[j]
    BY <1>1, <1>5 DEF IsInjective
  <2> QED
    BY <1>1, <1>2, <2>1
<1> QED
  BY <1>1, <1>2, <1>3, <1>4, <1>5 DEF IsInjective

LEMMA RelayPlanOf ==
    ASSUME Chain # <<>>, NEW p \in RelayPlans
    PROVE  /\ p # <<>> /\ p \in Seq(Relays) /\ IsInjective(p)
           /\ Len(p) <= 1 + MaxFallbacks /\ Len(p) <= Len(Chain)
<1>1. PICK s \in Subsequences(Tail(Chain)) : p = <<Head(Chain)>> \o s /\ Len(s) <= MaxFallbacks
  BY DEF RelayPlans
<1>2. /\ Chain \in Seq(Relays) /\ Len(Chain) \in Nat /\ Len(Chain) >= 1
      /\ DOMAIN Chain = 1..Len(Chain) /\ Head(Chain) = Chain[1]
  BY ChainAssumption
<1>3. /\ Tail(Chain) \in Seq(Relays) /\ Len(Tail(Chain)) = Len(Chain) - 1
      /\ \A i \in 1..Len(Tail(Chain)) : Tail(Chain)[i] = Chain[i + 1]
  BY <1>2
<1>4. IsInjective(Tail(Chain))
  BY <1>2, <1>3, ChainAssumption DEF IsInjective
<1>5. /\ s \in Seq(Relays) /\ IsInjective(s)
      /\ \A i \in 1..Len(s) : s[i] \in ToSet(Tail(Chain))
      /\ Len(s) <= Len(Tail(Chain))
  BY <1>3, <1>4, SubsequenceOf
<1>6. ASSUME NEW i \in 1..Len(s)
      PROVE  s[i] # Chain[1]
  <2>1. PICK j \in 1..Len(Tail(Chain)) : s[i] = Tail(Chain)[j]
    BY <1>3, <1>5 DEF ToSet
  <2>2. s[i] = Chain[j + 1] /\ j + 1 \in 2..Len(Chain)
    BY <1>2, <1>3, <2>1
  <2> QED
    BY <1>2, <2>2, ChainAssumption DEF IsInjective
<1>7. /\ p \in Seq(Relays) /\ Len(p) = Len(s) + 1 /\ Len(s) \in Nat
      /\ p[1] = Chain[1] /\ \A i \in 2..Len(p) : p[i] = s[i - 1]
  BY <1>1, <1>2, <1>5
<1>8. ASSUME NEW i \in 1..Len(p), NEW j \in 1..Len(p), p[i] = p[j]
      PROVE  i = j
  <2>1. CASE i = 1 \/ j = 1
    BY <1>6, <1>7, <1>8, <2>1
  <2>2. CASE i # 1 /\ j # 1
    <3>1. s[i - 1] = s[j - 1] /\ i - 1 \in 1..Len(s) /\ j - 1 \in 1..Len(s)
      BY <1>7, <1>8, <2>2
    <3>2. i - 1 = j - 1
      BY <1>5, <3>1 DEF IsInjective
    <3> QED
      BY <3>2
  <2> QED
    BY <2>1, <2>2
<1>9. Len(p) <= 1 + MaxFallbacks /\ Len(p) <= Len(Chain)
  BY <1>1, <1>2, <1>3, <1>5, <1>7, MaxFallbacksAssumption
<1> QED
  BY <1>7, <1>8, <1>9 DEF IsInjective

----------------------------------------------------------------------------
(* What a command of a session may lead to.                                *)

\* A session with an exchanger authenticates never, one with a relay has no
\* HELO, and a handshake precedes whatever follows it.
StepInv ==
    phase = "walking" =>
        /\ step = "auth" => Relayed /\ tls
        /\ step = "helo" => ~Relayed
        /\ step = "ehlo2" => tls

\* What an answer that ends the attempt for good is like, and the step it is to.
Refused ==
    /\ step \in Final
    /\ reply' \notin {"none", "ok", "421"}
    /\ step \in Transaction => ~Is4xx(reply')
    /\ step = "mail" /\ ~Relayed => reply' # "needtls"
    /\ step = "final" /\ Relayed => reply' \notin Unread

\* Going on in the session.
Advance ==
    \/ step = "greeting" /\ GoTo("ehlo")
    \/ step = "ehlo" /\ (GoTo("starttls") \/ (~Relayed /\ GoTo("helo")))
    \/ step = "starttls" /\ step' = "ehlo2" /\ tls' = TRUE /\ UNCHANGED <<phase, plan, at, result>>
    \/ /\ step = "ehlo2" \/ (step = "ehlo" /\ Security[Server] # "starttls")
       /\ Relayed
       /\ IF Credential[Server] THEN tls /\ GoTo("auth") ELSE GoTo("mail")
    \/ step = "ehlo2" /\ ~Relayed /\ GoTo("mail")
    \/ step = "auth" /\ GoTo("mail")
    \/ step = "mail" /\ GoTo("rcpt")
    \/ step = "rcpt" /\ GoTo("data")
    \/ step = "data" /\ GoTo("body")

LEMMA Afters ==
    /\ DOMAIN After = {"mail", "rcpt", "data"}
    /\ After["mail"] = "rcpt" /\ After["rcpt"] = "data" /\ After["data"] = "body"
BY DEF After

LEMMA DirectOutcome ==
    ASSUME StepInv, DirectExchange
    PROVE  /\ phase = "walking" /\ step \in Commands
           /\ \E r \in Replies : Recorded(r)
           /\ NextServer \/ (Return("permfail") /\ Refused) \/ Advance
<1>1. PICK r \in Replies :
        /\ Recorded(r)
        /\ CASE step = "greeting" /\ r = "ok" -> GoTo("ehlo")
             [] step = "ehlo" /\ r = "ok" -> GoTo("starttls") \/ TLSRequired
             [] step = "ehlo" /\ r # "ok" -> GoTo("helo")
             [] step = "helo" /\ r = "ok" -> TLSRequired
             [] step \in {"greeting", "helo"} /\ r # "ok" -> EndSession(r = "421")
             [] step = "starttls" /\ r = "ok" -> Handshake
             [] step = "ehlo2" /\ r = "ok" -> GoTo("mail")
             [] step \in {"starttls", "ehlo2"} /\ r # "ok" -> NextServer
             [] step \in DOMAIN After /\ r = "ok" -> GoTo(After[step])
             [] step \in DOMAIN After /\ r # "ok" ->
                  EndSession(Is4xx(r) \/ (step = "mail" /\ r = "needtls"))
  BY DEF DirectExchange
<1>2. phase = "walking" /\ ~Relayed /\ step \in Commands /\ step # "auth"
  BY DEF DirectExchange, StepInv
<1>3. NextServer \/ (Return("permfail") /\ Refused) \/ Advance
  <2> USE <1>1, <1>2, Afters DEF EndSession, TLSRequired, Handshake, Advance, Refused, Final,
          Transaction, Replies, Unread, Recorded, Is4xx
  <2>1. CASE step = "greeting"
    BY <2>1
  <2>2. CASE step \in {"ehlo", "helo"}
    BY <2>2
  <2>3. CASE step \in {"starttls", "ehlo2"}
    BY <2>3
  <2>4. CASE step = "mail"
    BY <2>4
  <2>5. CASE step = "rcpt"
    BY <2>5
  <2>6. CASE step = "data"
    BY <2>6
  <2> QED
    BY <2>1, <2>2, <2>3, <2>4, <2>5, <2>6 DEF Commands
<1> QED
  BY <1>1, <1>2, <1>3

LEMMA RelayOutcome ==
    ASSUME StepInv, RelayExchange
    PROVE  /\ phase = "walking" /\ step \in Commands
           /\ \E r \in Replies : Recorded(r)
           /\ NextServer \/ (Return("permfail") /\ Refused) \/ Advance
<1>1. PICK r \in Replies :
        LET fine == IF step = "greeting" THEN r \notin Unread ELSE r \in {"ok", "other"} IN
        /\ Recorded(r)
        /\ CASE step \in DOMAIN After /\ ~fine -> EndSession(Is4xx(r))
             [] step \notin DOMAIN After /\ ~fine -> NextServer
             [] step = "greeting" /\ fine -> GoTo("ehlo")
             [] step = "ehlo" /\ fine ->
                  IF Security[Server] = "starttls" THEN GoTo("starttls") ELSE Authenticate
             [] step = "starttls" /\ fine -> Handshake
             [] step = "ehlo2" /\ fine -> Authenticate
             [] step = "auth" /\ fine -> GoTo("mail")
             [] step \in DOMAIN After /\ fine -> GoTo(After[step])
  BY DEF RelayExchange
<1>2. phase = "walking" /\ Relayed /\ step \in Commands /\ step # "helo"
  BY DEF RelayExchange, StepInv
<1>3. NextServer \/ (Return("permfail") /\ Refused) \/ Advance
  <2> USE <1>1, <1>2, Afters DEF EndSession, Handshake, Authenticate, Advance, Refused, Final,
          Transaction, Replies, Unread, Recorded, Is4xx
  <2>1. CASE step = "greeting"
    BY <2>1
  <2>2. CASE step = "ehlo"
    BY <2>2
  <2>3. CASE step \in {"starttls", "ehlo2", "auth"}
    BY <2>3
  <2>4. CASE step = "mail"
    BY <2>4
  <2>5. CASE step = "rcpt"
    BY <2>5
  <2>6. CASE step = "data"
    BY <2>6
  <2> QED
    BY <2>1, <2>2, <2>3, <2>4, <2>5, <2>6 DEF Commands
<1> QED
  BY <1>1, <1>2, <1>3

LEMMA FinalOutcome ==
    ASSUME ReadFinalReply
    PROVE  \E r \in Replies, took \in BOOLEAN :
             /\ r \notin Unread => took = (r = "ok")
             /\ accepted' = IF took THEN accepted \cup {Server} ELSE accepted
             /\ unread' = IF r \in Unread THEN unread \cup {Server} ELSE unread
             /\ broken' = IF r = "broken" THEN broken \cup {Server} ELSE broken
             /\ rejected' = IF Is5xx(r) THEN rejected \cup {Server} ELSE rejected
             /\ reply' = r
             /\ \/ r = "ok" /\ Return("delivered")
                \/ r # "ok" /\ Return("tempfail")
                \/ r # "ok" /\ Return("permfail") /\ Refused
                \/ r # "ok" /\ (r \in Unread => r = "broken" /\ Relayed) /\ NextServer
BY DEF ReadFinalReply, Accepts, Ambiguous, EndSession, Is4xx, Unread, Replies, Refused, Final,
       Transaction

LEMMA CommandOutcome ==
    ASSUME StepInv, DirectExchange \/ RelayExchange
    PROVE  /\ phase = "walking" /\ step \in Commands
           /\ \E r \in Replies : Recorded(r)
           /\ NextServer \/ (Return("permfail") /\ Refused) \/ Advance
BY DirectOutcome, RelayOutcome

\* A walk starts at the first of several different servers that the rules allow.
Allowed == IF policy.route = "relay" THEN Relays ELSE ToSet(MX)
Short(servers) ==
    /\ policy.route = "relay" => Len(servers) <= 1 + MaxFallbacks
    /\ Len(servers) <= Len(Chain) + Len(MX)
WalkStarts ==
    /\ phase' = "walking" /\ at' = 1 /\ UNCHANGED <<step, tls, result>>
    /\ plan' # <<>> /\ plan' \in Seq(Allowed) /\ IsInjective(plan')
    /\ Short(plan')
    /\ policy.route # "blocked"

LEMMA RouteOutcome ==
    ASSUME Route
    PROVE  /\ phase = "routing" /\ UNCHANGED <<policy, historyVars>>
           /\ Return("tempfail") \/ Return("permfail") \/ WalkStarts
<1>1. ASSUME policy.route = "direct", NEW servers \in Subsequences(MX), Walk(servers)
      PROVE  Return("tempfail") \/ WalkStarts
  <2>1. servers \in Seq(ToSet(MX)) /\ IsInjective(servers) /\ Len(servers) <= Len(MX)
    BY SubsequenceOf, ChainAssumption
  <2>2. Len(servers) <= Len(Chain) + Len(MX)
    BY <2>1, ChainAssumption
  <2> QED
    BY <1>1, <2>1, <2>2 DEF Walk, WalkStarts, Allowed, Short
<1>2. ASSUME policy.route = "relay", Chain # <<>>, NEW servers \in RelayPlans, Walk(servers)
      PROVE  WalkStarts
  <2>1. /\ servers # <<>> /\ servers \in Seq(Relays) /\ IsInjective(servers)
        /\ Len(servers) <= 1 + MaxFallbacks /\ Len(servers) <= Len(Chain)
    BY <1>2, RelayPlanOf
  <2>2. Len(servers) <= Len(Chain) + Len(MX)
    BY <2>1, ChainAssumption
  <2> QED
    BY <1>2, <2>1, <2>2 DEF Walk, WalkStarts, Allowed, Short
<1> QED
  BY <1>1, <1>2 DEF Route

----------------------------------------------------------------------------
(* The plan is fixed by the rules before the first server is contacted.    *)

NoHistory ==
    /\ offered = {} /\ inClear = {} /\ accepted = {} /\ unread = {} /\ broken = {}
    /\ rejected = {}

PlanInv ==
    /\ plan # <<>> =>
         /\ ~policy.suppressed /\ policy.route # "blocked"
         /\ plan \in Seq(Allowed) /\ IsInjective(plan) /\ Short(plan)
         /\ at \in 1..Len(plan)
    /\ plan = <<>> => phase # "walking" /\ step = "connect" /\ ~tls /\ NoHistory
    /\ phase \in {"suppression", "routing"} => plan = <<>>
    /\ phase = "routing" => ~policy.suppressed

Types ==
    /\ policy \in Policies
    /\ phase \in {"suppression", "routing", "walking", "done"}
    /\ plan \in Seq(Servers)
    /\ at \in 0..Len(plan)
    /\ step \in Commands \cup {"connect", "body", "final"}
    /\ tls \in BOOLEAN
    /\ result \in {"none", "delivered", "tempfail", "permfail"}

HistoryTypes ==
    /\ offered \subseteq Servers /\ inClear \subseteq Servers /\ accepted \subseteq Servers
    /\ unread \subseteq Servers /\ broken \subseteq Servers /\ rejected \subseteq Servers
    /\ reply \in Replies \cup {"none"}

Inv == Types /\ HistoryTypes /\ StepInv /\ PlanInv

LEMMA Current ==
    ASSUME Inv, phase = "walking"
    PROVE  /\ plan # <<>> /\ at \in 1..Len(plan) /\ plan \in Seq(Allowed)
           /\ Server \in Allowed /\ Server \in Servers
           /\ Relayed <=> policy.route = "relay"
<1>1. plan # <<>> /\ at \in 1..Len(plan) /\ plan \in Seq(Allowed)
  BY DEF Inv, PlanInv
<1>2. Server \in Allowed
  BY <1>1 DEF Server
<1> QED
  BY <1>1, <1>2, ChainAssumption DEF Allowed, Relayed, Servers

LEMMA NextServerIs ==
    ASSUME Inv, phase = "walking", NextServer
    PROVE  \/ /\ at < Len(plan) /\ at' = at + 1 /\ at' \in 1..Len(plan)
              /\ phase' = "walking" /\ step' = "connect" /\ tls' = FALSE
              /\ UNCHANGED <<plan, result>>
           \/ Return("tempfail")
BY Current DEF NextServer

LEMMA InitInv == Init => Inv
<1> SUFFICES ASSUME Init PROVE Inv
  OBVIOUS
<1>1. plan \in Seq(Servers) /\ Len(plan) = 0
  BY DEF Init
<1>2. Types /\ HistoryTypes
  <2>1. at \in 0..Len(plan)
    BY <1>1 DEF Init
  <2>2. Types
    BY <1>1, <2>1 DEF Init, Types
  <2> QED
    BY <2>2 DEF Init, HistoryTypes
<1>3. StepInv /\ PlanInv
  BY DEF Init, StepInv, PlanInv, NoHistory
<1> QED
  BY <1>2, <1>3 DEF Inv

\* A step that ends the attempt.
LEMMA ReturnInv ==
    ASSUME Inv, policy' = policy, HistoryTypes', plan = <<>> => NoHistory',
           NEW r \in {"delivered", "tempfail", "permfail"}, Return(r)
    PROVE  Inv'
<1>1. /\ phase' = "done" /\ result' = r /\ plan' = plan /\ at' = at
      /\ step' = step /\ tls' = tls /\ Allowed' = Allowed
  BY DEF Return, sessionVars, Allowed
<1>2. Types' /\ StepInv'
  BY <1>1 DEF Inv, Types, StepInv
<1>3. PlanInv'
  BY <1>1 DEF Inv, PlanInv, Short
<1> QED
  BY <1>2, <1>3 DEF Inv

\* A step of a session that goes on with the same server or with the next one.
LEMMA WalkInv ==
    ASSUME Inv, policy' = policy, HistoryTypes', phase = "walking", phase' = "walking",
           plan' = plan, at' \in 1..Len(plan), result' = result, tls' \in BOOLEAN,
           step' \in Commands \cup {"connect", "body", "final"}, StepInv'
    PROVE  Inv'
<1>1. Allowed' = Allowed /\ plan # <<>> /\ Len(plan) \in Nat
  BY Current DEF Allowed
<1>2. Types'
  BY <1>1 DEF Inv, Types
<1>3. PlanInv'
  BY <1>1 DEF Inv, PlanInv, Short
<1> QED
  BY <1>2, <1>3 DEF Inv

LEMMA NextServerInv ==
    ASSUME Inv, policy' = policy, HistoryTypes', phase = "walking", NextServer
    PROVE  Inv'
<1>1. CASE Return("tempfail")
  BY <1>1, Current, ReturnInv
<1>2. CASE /\ at' \in 1..Len(plan) /\ phase' = "walking" /\ step' = "connect"
           /\ tls' = FALSE /\ UNCHANGED <<plan, result>>
  BY <1>2, WalkInv DEF StepInv
<1> QED
  BY <1>1, <1>2, NextServerIs

LEMMA NextInv == Inv /\ [Next]_vars => Inv'
<1> SUFFICES ASSUME Inv, [Next]_vars PROVE Inv'
  OBVIOUS
<1>0. HistoryTypes /\ UNCHANGED historyVars => HistoryTypes' /\ (NoHistory => NoHistory')
  BY DEF HistoryTypes, NoHistory, historyVars
<1> USE <1>0
<1>1. CASE CheckSuppression
  <2>1. CASE Return("tempfail") \/ Return("permfail")
    BY <1>1, <2>1, ReturnInv DEF CheckSuppression, Inv, PlanInv
  <2>2. CASE ~policy.suppressed /\ phase' = "routing" /\ UNCHANGED <<sessionVars, result>>
    <3>1. Types' /\ StepInv'
      BY <1>1, <2>2 DEF CheckSuppression, Inv, Types, StepInv, sessionVars
    <3>2. PlanInv'
      BY <1>1, <2>2 DEF CheckSuppression, Inv, PlanInv, sessionVars
    <3> QED
      BY <1>1, <3>1, <3>2 DEF CheckSuppression, Inv
  <2> QED
    BY <1>1, <2>1, <2>2 DEF CheckSuppression
<1>2. CASE RoutingFails
  BY <1>2, ReturnInv DEF RoutingFails, DeferRouting, Inv, PlanInv
<1>3. CASE Route
  <2>1. /\ phase = "routing" /\ policy' = policy /\ HistoryTypes'
        /\ plan = <<>> => NoHistory'
    BY <1>3, RouteOutcome DEF Inv, PlanInv
  <2>2. CASE Return("tempfail") \/ Return("permfail")
    BY <2>1, <2>2, ReturnInv
  <2>3. CASE WalkStarts
    <3>1. /\ plan' \in Seq(Allowed) /\ plan' # <<>> /\ Len(plan') \in Nat
          /\ at' = 1 /\ at' \in 1..Len(plan') /\ Allowed' = Allowed
      BY <2>1, <2>3 DEF WalkStarts, Allowed
    <3>2. ~policy.suppressed /\ step = "connect"
      BY <2>1 DEF Inv, PlanInv
    <3>3. plan' \in Seq(Servers)
      BY <3>1 DEF Allowed, Servers
    <3>4. Types' /\ StepInv'
      BY <2>1, <2>3, <3>1, <3>2, <3>3 DEF WalkStarts, Inv, Types, StepInv
    <3>5. PlanInv'
      BY <2>1, <2>3, <3>1, <3>2 DEF WalkStarts, PlanInv, Short
    <3> QED
      BY <2>1, <3>4, <3>5 DEF Inv
  <2> QED
    BY <1>3, <2>2, <2>3, RouteOutcome
<1>4. CASE Connect
  <2>1. phase = "walking" /\ policy' = policy /\ HistoryTypes'
    BY <1>4 DEF Connect, Inv
  <2>2. CASE /\ step' = "greeting" /\ tls' = (Relayed /\ Security[Server] = "implicit_tls")
             /\ UNCHANGED <<phase, plan, at, result>>
    BY <2>1, <2>2, WalkInv, Current DEF StepInv, Commands
  <2> QED
    BY <1>4, <2>1, <2>2, NextServerInv DEF Connect
<1>5. CASE DirectExchange \/ RelayExchange
  <2>1. /\ phase = "walking" /\ policy' = policy /\ UNCHANGED <<accepted, unread, broken>>
        /\ NextServer \/ (Return("permfail") /\ Refused) \/ Advance
    BY <1>5, CommandOutcome DEF Inv, Recorded
  <2>2. Server \in Servers /\ plan # <<>>
    BY <2>1, Current
  <2>3. HistoryTypes'
    BY <1>5, <2>1, <2>2, CommandOutcome DEF Inv, HistoryTypes, Recorded
  <2>4. CASE Advance
    <3>1. /\ UNCHANGED <<phase, plan, at, result>> /\ tls' \in BOOLEAN
          /\ step' \in Commands \cup {"body"}
      BY <2>4 DEF Advance, GoTo, Inv, Types, Commands
    <3>2. StepInv'
      BY <2>1, <2>4 DEF Advance, GoTo, Inv, StepInv, Relayed, Server
    <3> QED
      BY <2>1, <2>3, <3>1, <3>2, Current, WalkInv
  <2> QED
    BY <2>1, <2>2, <2>3, <2>4, ReturnInv, NextServerInv
<1>6. CASE WriteBody
  <2>1. phase = "walking" /\ UNCHANGED <<policy, offered, inClear, broken, rejected, reply>>
    BY <1>6 DEF WriteBody
  <2>2. Server \in Servers /\ plan # <<>>
    BY <2>1, Current
  <2>3. HistoryTypes'
    BY <1>6, <2>1, <2>2 DEF WriteBody, Inv, HistoryTypes
  <2>4. CASE GoTo("final")
    BY <2>1, <2>3, <2>4, Current, WalkInv DEF GoTo, StepInv, Inv, Types
  <2> QED
    BY <1>6, <2>1, <2>2, <2>3, <2>4, ReturnInv, NextServerInv DEF WriteBody
<1>7. CASE ReadFinalReply
  <2>1. phase = "walking" /\ UNCHANGED <<policy, offered, inClear>>
    BY <1>7 DEF ReadFinalReply
  <2>2. Server \in Servers /\ plan # <<>>
    BY <2>1, Current
  <2>3. HistoryTypes'
    BY <1>7, <2>1, <2>2, FinalOutcome DEF Inv, HistoryTypes
  <2> QED
    BY <1>7, <2>1, <2>2, <2>3, FinalOutcome, ReturnInv, NextServerInv
<1>8. CASE UNCHANGED vars
  BY <1>8 DEF vars, sessionVars, historyVars, Inv, Types, HistoryTypes, StepInv, PlanInv,
              NoHistory, Relayed, Server, Allowed, Short
<1> QED
  BY <1>1, <1>2, <1>3, <1>4, <1>5, <1>6, <1>7, <1>8 DEF Next

LEMMA Invariance == Spec => []Inv
<1> QED
  BY InitInv, NextInv, PTL DEF Spec

\* An attempt follows a plan of known servers, whatever the stores, the network
\* and the servers do.
THEOREM TypeCorrect == Spec => []TypeOK
<1>1. Inv => TypeOK
  BY DEF Inv, Types, HistoryTypes, PlanInv, TypeOK
<1> QED
  BY <1>1, Invariance, PTL

----------------------------------------------------------------------------
(* What the servers have been offered.                                     *)

OfferedInv == offered \subseteq ToSet(plan)

LEMMA ServerPlanned ==
    ASSUME Inv, phase = "walking"
    PROVE  Server \in ToSet(plan)
BY Current DEF Server, ToSet

LEMMA PlanSteps ==
    ASSUME Inv, Next
    PROVE  /\ plan' = plan \/ (plan = <<>> /\ UNCHANGED historyVars)
           /\ offered' \subseteq offered \/ (phase = "walking" /\ offered' \subseteq offered \cup {Server})
           /\ policy' = policy
<1> USE DEF historyVars, sessionVars, Return
<1>1. CASE CheckSuppression \/ RoutingFails
  BY <1>1 DEF CheckSuppression, RoutingFails, DeferRouting
<1>2. CASE Route
  BY <1>2, RouteOutcome DEF Inv, PlanInv
<1>3. CASE Connect
  BY <1>3, NextServerIs DEF Connect
<1>4. CASE DirectExchange \/ RelayExchange
  <2>1. NextServer \/ Return("permfail") \/ Advance => plan' = plan
    BY <1>4, CommandOutcome, NextServerIs DEF Advance, GoTo, Inv
  <2> QED
    BY <1>4, <2>1, CommandOutcome DEF Recorded, Inv
<1>5. CASE WriteBody
  BY <1>5, NextServerIs DEF WriteBody, GoTo
<1>6. CASE ReadFinalReply
  BY <1>6, FinalOutcome, NextServerIs DEF ReadFinalReply
<1> QED
  BY <1>1, <1>2, <1>3, <1>4, <1>5, <1>6 DEF Next

\* No store that fails at whatever point makes the attempt offer the message to
\* a suppressed recipient, to an exchanger when the rules demand a relay, or to
\* anyone when they block the sender.
THEOREM PolicyIsKept == Spec => []PolicyHolds
<1>1. Init => OfferedInv
  BY DEF Init, OfferedInv
<1>2. Inv /\ OfferedInv /\ [Next]_vars => OfferedInv'
  <2> SUFFICES ASSUME Inv, OfferedInv, [Next]_vars PROVE OfferedInv'
    OBVIOUS
  <2>1. CASE Next
    <3>1. CASE plan' = plan
      BY <2>1, <3>1, PlanSteps, ServerPlanned DEF OfferedInv
    <3>2. CASE plan = <<>> /\ UNCHANGED historyVars
      BY <3>2 DEF Inv, PlanInv, NoHistory, OfferedInv, historyVars
    <3> QED
      BY <2>1, <3>1, <3>2, PlanSteps
  <2>2. CASE UNCHANGED vars
    BY <2>2 DEF OfferedInv, vars, sessionVars, historyVars
  <2> QED
    BY <2>1, <2>2
<1>3. Inv /\ OfferedInv => PolicyHolds
  <2> SUFFICES ASSUME Inv, OfferedInv, offered # {} PROVE PolicyHolds
    BY DEF PolicyHolds
  <2>1. plan # <<>>
    BY DEF Inv, PlanInv, NoHistory
  <2>2. plan \in Seq(Allowed)
    BY <2>1 DEF Inv, PlanInv
  <2>3. ToSet(plan) \subseteq Allowed
    BY <2>2 DEF ToSet
  <2> QED
    BY <2>1, <2>3 DEF Inv, PlanInv, OfferedInv, PolicyHolds, Allowed
<1> QED
  BY <1>1, <1>2, <1>3, Invariance, PTL DEF Spec

----------------------------------------------------------------------------
(* What the servers have been sent without TLS.                            *)

MayBeClear == Relayed /\ Security[Server] = "none" /\ ~Credential[Server]

TlsInv ==
    /\ NoCleartext
    /\ phase = "walking" =>
         /\ Relayed /\ Security[Server] = "implicit_tls" /\ step # "connect" => tls
         /\ step = "mail" => tls \/ MayBeClear

LEMMA CommandTls ==
    ASSUME Inv, TlsInv, DirectExchange \/ RelayExchange
    PROVE  NoCleartext'
<1>1. PICK r \in Replies : Recorded(r)
  BY CommandOutcome DEF Inv
<1>2. phase = "walking"
  BY CommandOutcome DEF Inv
<1>3. step = "auth" => tls
  BY <1>2 DEF Inv, StepInv
<1>4. step \in {"mail", "auth"} /\ ~tls => Server \in Relays /\ Security[Server] = "none" /\ ~Credential[Server]
  BY <1>2, <1>3 DEF TlsInv, MayBeClear, Relayed
<1> QED
  BY <1>1, <1>4 DEF Recorded, TlsInv, NoCleartext

\* No exchanger is sent the message in clear, and a relay only if it is configured
\* without TLS and has no credential: neither a server without STARTTLS nor an odd
\* reply makes a session go on in clear.
THEOREM TlsIsKept == Spec => []NoCleartext
<1>1. Init => TlsInv
  BY DEF Init, TlsInv, NoCleartext
<1>2. Inv /\ TlsInv /\ [Next]_vars => TlsInv'
  <2> SUFFICES ASSUME Inv, TlsInv, [Next]_vars PROVE TlsInv'
    OBVIOUS
  <2>0. NoCleartext /\ UNCHANGED inClear => NoCleartext'
    BY DEF NoCleartext
  <2>1. ASSUME NoCleartext', NEW r, Return(r)
        PROVE  TlsInv'
    BY <2>1 DEF Return, TlsInv
  <2>2. ASSUME NoCleartext', phase = "walking", NextServer
        PROVE  TlsInv'
    BY <2>1, <2>2, NextServerIs DEF TlsInv
  <2>3. CASE CheckSuppression \/ RoutingFails
    BY <2>0, <2>3 DEF CheckSuppression, RoutingFails, DeferRouting, Return, historyVars, TlsInv
  <2>4. CASE Route
    <3>1. NoCleartext' /\ phase = "routing"
      BY <2>0, <2>4, RouteOutcome DEF historyVars, TlsInv
    <3>2. step = "connect"
      BY <3>1 DEF Inv, PlanInv
    <3> QED
      BY <2>1, <2>4, <3>1, <3>2, RouteOutcome DEF WalkStarts, TlsInv
  <2>5. CASE Connect
    <3>1. NoCleartext' /\ phase = "walking"
      BY <2>0, <2>5 DEF Connect, historyVars, TlsInv
    <3> QED
      BY <2>2, <2>5, <3>1 DEF Connect, TlsInv, Relayed, Server
  <2>6. CASE DirectExchange \/ RelayExchange
    <3>1. NoCleartext' /\ phase = "walking"
      BY <2>6, CommandTls, CommandOutcome DEF Inv
    <3>2. CASE Advance
      <4>1. /\ UNCHANGED <<phase, plan, at>>
            /\ Server' = Server /\ Relayed' = Relayed
        BY <3>2 DEF Advance, GoTo, Server, Relayed
      <4>2. tls => tls'
        BY <3>2 DEF Advance, GoTo
      <4>3. step # "connect"
        BY <2>6, CommandOutcome DEF Inv, Commands
      <4>4. ASSUME step' = "mail", ~tls
            PROVE  MayBeClear
        <5>1. step \in {"ehlo", "ehlo2", "auth"} /\ step # "ehlo2" /\ step # "auth"
          BY <3>1, <3>2, <4>4 DEF Advance, GoTo, Inv, StepInv
        <5>2. Relayed /\ Security[Server] # "starttls" /\ ~Credential[Server]
          BY <3>2, <4>4, <5>1 DEF Advance, GoTo
        <5>3. Security[Server] \in {"none", "starttls", "implicit_tls"}
          BY <5>2, SecurityAssumption DEF Relayed
        <5> QED
          BY <3>1, <4>3, <4>4, <5>2, <5>3 DEF TlsInv, MayBeClear
      <4>5. MayBeClear' <=> MayBeClear
        BY <4>1 DEF MayBeClear
      <4> QED
        BY <3>1, <4>1, <4>2, <4>3, <4>4, <4>5 DEF TlsInv
    <3> QED
      BY <2>1, <2>2, <2>6, <3>1, <3>2, CommandOutcome DEF Inv
  <2>7. CASE WriteBody
    <3>1. NoCleartext' /\ phase = "walking" /\ step = "body"
      BY <2>0, <2>7 DEF WriteBody, TlsInv
    <3>2. GoTo("final") => TlsInv'
      BY <3>1 DEF GoTo, TlsInv, Relayed, Server
    <3> QED
      BY <2>1, <2>2, <2>7, <3>1, <3>2 DEF WriteBody
  <2>8. CASE ReadFinalReply
    <3>1. NoCleartext' /\ phase = "walking"
      BY <2>0, <2>8 DEF ReadFinalReply, TlsInv
    <3> QED
      BY <2>1, <2>2, <2>8, <3>1, FinalOutcome
  <2>9. CASE UNCHANGED vars
    BY <2>9 DEF vars, sessionVars, historyVars, TlsInv, NoCleartext, MayBeClear, Relayed, Server
  <2> QED
    BY <2>3, <2>4, <2>5, <2>6, <2>7, <2>8, <2>9 DEF Next
<1>3. TlsInv => NoCleartext
  BY DEF TlsInv
<1> QED
  BY <1>1, <1>2, <1>3, Invariance, PTL DEF Spec

----------------------------------------------------------------------------
(* What the servers may have taken.                                        *)

\* While the walk goes on, only relays that broke the connection may have the
\* message, and they are behind.
HistoryInv ==
    /\ phase = "walking" =>
         /\ accepted \subseteq unread /\ unread \subseteq broken
         /\ \A s \in unread : \A i \in at..Len(plan) : plan[i] # s
         /\ unread # {} => policy.route = "relay"
    /\ phase = "done" => NothingAfterAcceptance /\ AcceptanceReported

LEMMA Behind ==
    ASSUME Inv, phase = "walking"
    PROVE  \A i \in at + 1..Len(plan) : plan[i] # Server
<1>1. plan \in Seq(Allowed) /\ IsInjective(plan) /\ at \in 1..Len(plan) /\ Len(plan) \in Nat
  BY Current DEF Inv, PlanInv
<1> QED
  BY <1>1 DEF IsInjective, Server

\* The server in session may have taken the message if it breaks the connection.
LEMMA NextServerHistory ==
    ASSUME Inv, HistoryInv, phase = "walking", policy' = policy, NextServer,
           accepted' \subseteq unread', unread' \subseteq broken',
           \/ unread' = unread
           \/ unread' = unread \cup {Server} /\ Relayed
    PROVE  HistoryInv'
<1>1. unread' # {} => policy.route = "relay"
  BY Current DEF HistoryInv
<1>2. CASE Return("tempfail")
  <2>1. plan' = plan /\ at' = at /\ phase' = "done" /\ result' = "tempfail"
    BY <1>2 DEF Return, sessionVars
  <2>2. unread' # {} => Relayed'
    BY <1>1, <2>1, Current DEF Relayed, Server
  <2> QED
    BY <2>1, <2>2 DEF HistoryInv, NothingAfterAcceptance, AcceptanceReported
<1>3. CASE /\ at' = at + 1 /\ at' \in 1..Len(plan) /\ phase' = "walking" /\ plan' = plan
  <2>1. at \in Nat /\ Len(plan) \in Nat
    BY Current
  <2>2. \A s \in unread : \A i \in at + 1..Len(plan) : plan[i] # s
    BY <2>1 DEF HistoryInv
  <2>3. \A s \in unread' : \A i \in at + 1..Len(plan) : plan[i] # s
    BY <2>2, Behind
  <2> QED
    BY <1>1, <1>3, <2>3 DEF HistoryInv
<1> QED
  BY <1>2, <1>3, NextServerIs

LEMMA HistoryStep == Inv /\ HistoryInv /\ [Next]_vars => HistoryInv'
<1> SUFFICES ASSUME Inv, HistoryInv, [Next]_vars PROVE HistoryInv'
  OBVIOUS
<1> USE DEF historyVars, sessionVars
<1>0. phase = "walking" =>
        /\ accepted \subseteq unread /\ unread \subseteq broken
        /\ Server \notin unread /\ (unread # {} => Relayed)
  BY Current DEF HistoryInv, Server
<1>1. ASSUME NoHistory, UNCHANGED historyVars, NEW r \in {"tempfail", "permfail"}, Return(r)
      PROVE  HistoryInv'
  BY <1>1 DEF Return, HistoryInv, NoHistory, NothingAfterAcceptance, AcceptanceReported
<1>2. CASE CheckSuppression
  <2>1. NoHistory /\ UNCHANGED historyVars
    BY <1>2 DEF CheckSuppression, Inv, PlanInv
  <2> QED
    BY <1>1, <1>2, <2>1 DEF CheckSuppression, HistoryInv
<1>3. CASE RoutingFails
  <2>1. NoHistory /\ UNCHANGED historyVars
    BY <1>3 DEF RoutingFails, Inv, PlanInv
  <2> QED
    BY <1>1, <1>3, <2>1 DEF RoutingFails, DeferRouting
<1>4. CASE Route
  <2>1. NoHistory /\ UNCHANGED historyVars
    BY <1>4, RouteOutcome DEF Inv, PlanInv
  <2>2. WalkStarts => HistoryInv'
    BY <2>1 DEF WalkStarts, HistoryInv, NoHistory
  <2> QED
    BY <1>1, <1>4, <2>1, <2>2, RouteOutcome
<1>5. CASE Connect \/ DirectExchange \/ RelayExchange
  <2>1. phase = "walking" /\ policy' = policy /\ UNCHANGED <<accepted, unread, broken>>
    BY <1>5, CommandOutcome DEF Connect, Recorded, Inv
  <2>2. UNCHANGED <<phase, plan, at>> => HistoryInv'
    BY <2>1 DEF HistoryInv
  <2>3. NextServer => HistoryInv'
    BY <1>0, <2>1, NextServerHistory
  <2>4. Return("permfail") => HistoryInv'
    BY <1>0, <2>1 DEF Return, HistoryInv, NothingAfterAcceptance, AcceptanceReported,
                      Relayed, Server
  <2> QED
    BY <1>5, <2>2, <2>3, <2>4, CommandOutcome DEF Connect, Inv, Advance, GoTo
<1>6. CASE WriteBody
  <2>1. phase = "walking" /\ policy' = policy /\ broken' = broken
    BY <1>6 DEF WriteBody
  <2>2. CASE (GoTo("final") \/ NextServer) /\ UNCHANGED <<accepted, unread>>
    BY <1>0, <2>1, <2>2, NextServerHistory DEF GoTo, HistoryInv
  <2>3. CASE /\ Relayed /\ Return("tempfail")
             /\ unread' = unread \cup {Server}
             /\ accepted' \in {accepted, accepted \cup {Server}}
    <3>1. Relayed' /\ Server' = Server /\ phase' = "done" /\ result' = "tempfail"
      BY <2>3 DEF Return, Relayed, Server
    <3> QED
      BY <1>0, <2>1, <2>3, <3>1
      DEF HistoryInv, NothingAfterAcceptance, AcceptanceReported
  <2> QED
    BY <1>6, <2>2, <2>3 DEF WriteBody
<1>7. CASE ReadFinalReply
  <2>1. PICK r \in Replies, took \in BOOLEAN :
          /\ r \notin Unread => took = (r = "ok")
          /\ accepted' = IF took THEN accepted \cup {Server} ELSE accepted
          /\ unread' = IF r \in Unread THEN unread \cup {Server} ELSE unread
          /\ broken' = IF r = "broken" THEN broken \cup {Server} ELSE broken
          /\ rejected' = IF Is5xx(r) THEN rejected \cup {Server} ELSE rejected
          /\ \/ r = "ok" /\ Return("delivered")
             \/ r # "ok" /\ Return("tempfail")
             \/ r # "ok" /\ Return("permfail")
             \/ r # "ok" /\ (r \in Unread => r = "broken" /\ Relayed) /\ NextServer
    BY <1>7, FinalOutcome
  <2>2. phase = "walking" /\ policy' = policy
    BY <1>7 DEF ReadFinalReply
  <2>3. r = "ok" => r \notin Unread
    BY DEF Unread
  <2>4. accepted' \ unread' # {} <=> r = "ok"
    BY <1>0, <2>1, <2>2, <2>3
  <2>5. ASSUME NEW x \in {"delivered", "tempfail", "permfail"}, Return(x),
               x = "delivered" <=> r = "ok"
        PROVE  HistoryInv'
    <3>1. /\ phase' = "done" /\ result' = x
          /\ Server' = Server /\ Relayed' = Relayed
      BY <2>5 DEF Return, Server, Relayed
    <3>2. \A s \in unread' \cup accepted' : s # Server => s \in unread /\ s \in broken'
      BY <1>0, <2>1, <2>2
    <3> QED
      BY <1>0, <2>2, <2>4, <2>5, <3>1, <3>2
      DEF HistoryInv, NothingAfterAcceptance, AcceptanceReported
  <2>6. CASE r # "ok" /\ (r \in Unread => r = "broken" /\ Relayed) /\ NextServer
    <3>1. accepted' \subseteq unread'
      BY <2>4, <2>6
    <3>2. unread' \subseteq broken'
      BY <1>0, <2>1, <2>2, <2>6
    <3> QED
      BY <2>1, <2>2, <2>6, <3>1, <3>2, NextServerHistory
  <2> QED
    BY <2>1, <2>5, <2>6
<1>8. CASE UNCHANGED vars
  BY <1>8 DEF vars, HistoryInv, NothingAfterAcceptance, AcceptanceReported, Relayed, Server
<1> QED
  BY <1>2, <1>3, <1>4, <1>5, <1>6, <1>7, <1>8 DEF Next

LEMMA HistoryInvariance == Spec => []HistoryInv
<1>1. Init => HistoryInv
  BY DEF Init, HistoryInv
<1> QED
  BY <1>1, HistoryStep, Invariance, PTL DEF Spec

\* The message goes on to another relay only after one whose connection broke, and
\* from an exchanger that may have taken it, it never goes on.
THEOREM NoCopyAfterAcceptance == Spec => []NothingAfterAcceptance
<1>1. Inv /\ HistoryInv => NothingAfterAcceptance
  <2> SUFFICES ASSUME Inv, HistoryInv PROVE NothingAfterAcceptance
    OBVIOUS
  <2>1. CASE phase = "walking"
    BY <2>1, Current DEF HistoryInv, NothingAfterAcceptance
  <2>2. CASE phase \in {"suppression", "routing"}
    BY <2>2 DEF Inv, PlanInv, NoHistory, NothingAfterAcceptance
  <2>3. CASE phase = "done"
    BY <2>3 DEF HistoryInv
  <2> QED
    BY <2>1, <2>2, <2>3 DEF Inv, Types
<1> QED
  BY <1>1, Invariance, HistoryInvariance, PTL

\* "delivered" is returned exactly when a server said that it took the message:
\* none of the exits of a session loses or invents an acceptance.
THEOREM AcceptanceIsReported == Spec => []AcceptanceReported
<1>1. HistoryInv => AcceptanceReported
  BY DEF HistoryInv, AcceptanceReported
<1> QED
  BY <1>1, HistoryInvariance, PTL

----------------------------------------------------------------------------
(* What a message bounces on.                                               *)

LEMMA BounceStep == Inv /\ BounceHasCause /\ [Next]_vars => BounceHasCause'
<1> SUFFICES ASSUME Inv, BounceHasCause, [Next]_vars PROVE BounceHasCause'
  OBVIOUS
<1> USE DEF historyVars, sessionVars
\* A step that ends the attempt leaves the server and the step of the session.
<1>1. ASSUME NEW r \in {"delivered", "tempfail", "permfail"}, Return(r),
             r # "permfail" \/ plan = <<>> \/ Refused
      PROVE  BounceHasCause'
  <2>1. Final' = Final
    BY <1>1 DEF Return, Final, Relayed, Server
  <2> QED
    BY <1>1, <2>1 DEF Return, Refused, BounceHasCause, Relayed, Server, Transaction
<1>2. ASSUME phase' # "done" PROVE BounceHasCause'
  BY <1>2 DEF BounceHasCause
<1>3. ASSUME phase = "walking", NextServer PROVE BounceHasCause'
  BY <1>1, <1>2, <1>3, NextServerIs
<1>4. CASE CheckSuppression
  <2>1. plan = <<>>
    BY <1>4 DEF CheckSuppression, Inv, PlanInv
  <2> QED
    BY <1>1, <1>2, <1>4, <2>1 DEF CheckSuppression
<1>5. CASE RoutingFails
  BY <1>1, <1>5 DEF RoutingFails, DeferRouting
<1>6. CASE Route
  <2>1. plan = <<>>
    BY <1>6 DEF Route, Inv, PlanInv
  <2> QED
    BY <1>1, <1>2, <1>6, <2>1, RouteOutcome DEF WalkStarts
<1>7. CASE Connect
  BY <1>2, <1>3, <1>7 DEF Connect
<1>8. CASE DirectExchange \/ RelayExchange
  <2>1. StepInv
    BY DEF Inv
  <2>2. ASSUME Advance, phase = "walking" PROVE phase' # "done"
    BY <2>2 DEF Advance, GoTo
  <2> QED
    BY <1>1, <1>2, <1>3, <1>8, <2>1, <2>2, CommandOutcome
<1>9. CASE WriteBody
  BY <1>1, <1>2, <1>3, <1>9 DEF WriteBody, GoTo
<1>10. CASE ReadFinalReply
  <2>1. phase = "walking"
    BY <1>10 DEF ReadFinalReply
  <2> QED
    BY <1>1, <1>3, <1>10, <2>1, FinalOutcome
<1>11. CASE UNCHANGED vars
  BY <1>11 DEF vars, BounceHasCause, Final, Transaction, Relayed, Server
<1> QED
  BY <1>4, <1>5, <1>6, <1>7, <1>8, <1>9, <1>10, <1>11 DEF Next

\* With whatever chain, exchangers and replies, a message that was routed bounces on
\* an answer (or the loss of one) that is final at its step, and not on a failure to
\* reach a server, to encrypt or to authenticate.
THEOREM BouncesHaveCause == Spec => []BounceHasCause
<1>1. Init => BounceHasCause
  BY DEF Init, BounceHasCause
<1> QED
  BY <1>1, BounceStep, Invariance, PTL DEF Spec

----------------------------------------------------------------------------
(* The contract with the queue.                                            *)

\* The servers that may have the message are behind the walk, one for each step
\* it has gone; an exchanger that may have it ends the walk.
CountInv ==
    /\ IsFiniteSet(accepted)
    /\ phase = "walking" => Cardinality(accepted) < at
    /\ phase # "done" => result = "none" /\ accepted \subseteq unread

LEMMA AcceptedLength ==
    ASSUME Inv, HistoryInv, CountInv, phase = "walking"
    PROVE  /\ Cardinality(accepted) \in Nat /\ Cardinality(accepted) < 1 + MaxFallbacks
           /\ Server \notin accepted /\ Server \notin unread
<1>1. plan # <<>> /\ at \in 1..Len(plan) /\ Len(plan) \in Nat /\ Cardinality(accepted) \in Nat
  BY Current, FS_CardinalityType DEF CountInv
<1>2. Server \notin accepted /\ Server \notin unread
  BY <1>1 DEF HistoryInv, Server
<1>3. CASE policy.route = "relay"
  <2>1. Len(plan) <= 1 + MaxFallbacks
    BY <1>1, <1>3 DEF Inv, PlanInv, Short
  <2> QED
    BY <1>1, <1>2, <2>1, MaxFallbacksAssumption DEF CountInv
<1>4. CASE policy.route # "relay"
  <2>1. accepted = {}
    BY <1>4 DEF HistoryInv
  <2> QED
    BY <1>1, <1>2, <2>1, FS_EmptySet, MaxFallbacksAssumption
<1> QED
  BY <1>3, <1>4

\* What a step does to what the servers may have taken: nothing, or it adds the
\* server of the session.
Adds == accepted' = accepted \cup {Server}

\* The five ways in which a step changes what the queue gets to know.
Ways ==
    \/ /\ accepted' = accepted /\ result' = result
       /\ phase' # "done" \/ phase = "done"
       /\ phase # "done" => accepted' \subseteq unread'
    \/ /\ phase = "walking" /\ Adds /\ Server \in unread' /\ unread \subseteq unread'
       /\ result' = result /\ phase' = "walking"
    \/ /\ phase # "done" /\ phase' = "done" /\ result' \in {"tempfail", "permfail"}
       /\ accepted' = accepted /\ accepted \subseteq unread'
    \/ /\ phase = "walking" /\ phase' = "done" /\ result' \in {"tempfail", "permfail"}
       /\ Adds /\ Server \in unread' /\ unread \subseteq unread'
    \/ /\ phase = "walking" /\ phase' = "done" /\ result' = "delivered"
       /\ Adds /\ unread' = unread

LEMMA StepWays ==
    ASSUME Inv, HistoryInv, CountInv, [Next]_vars
    PROVE  /\ Ways
           /\ accepted \cap unread \subseteq accepted' \cap unread'
           /\ phase = "done" => UNCHANGED vars
           /\ phase' = "walking" =>
                \/ phase = "walking" /\ (at' = at \/ (at' = at + 1 /\ at \in Nat))
                   /\ (Adds => at' = at + 1 \/ accepted' = accepted)
                \/ phase = "routing" /\ at' = 1 /\ accepted' = accepted /\ accepted = {}
<1> USE DEF historyVars, sessionVars, Ways, Adds
<1>0. phase # "done" => result = "none" /\ accepted \subseteq unread
  BY DEF CountInv
<1>1. ASSUME phase # "done", UNCHANGED <<accepted, unread>>, NEW r \in {"tempfail", "permfail"}, Return(r)
      PROVE  Ways /\ phase' # "walking"
  BY <1>0, <1>1 DEF Return
<1>2. CASE CheckSuppression \/ RoutingFails
  BY <1>0, <1>1, <1>2 DEF CheckSuppression, RoutingFails, DeferRouting
<1>3. CASE Route
  <2>1. phase = "routing" /\ UNCHANGED historyVars /\ accepted = {}
    BY <1>3, RouteOutcome DEF Inv, PlanInv, NoHistory
  <2> QED
    BY <1>0, <1>1, <1>3, <2>1, RouteOutcome DEF WalkStarts
<1>4. ASSUME phase = "walking", NextServer
      PROVE  \/ at' = at + 1 /\ at \in Nat /\ phase' = "walking" /\ result' = result
             \/ Return("tempfail")
  <2>1. at \in Nat
    BY <1>4, Current
  <2>2. CASE at < Len(plan)
    BY <1>4, <2>1, <2>2 DEF NextServer
  <2>3. CASE ~(at < Len(plan))
    BY <1>4, <2>3 DEF NextServer
  <2> QED
    BY <2>2, <2>3
<1>5. CASE Connect \/ DirectExchange \/ RelayExchange
  <2>1. phase = "walking" /\ UNCHANGED <<accepted, unread>>
    BY <1>5, CommandOutcome DEF Connect, Recorded, Inv
  <2>2. \/ NextServer \/ Return("permfail")
        \/ phase' = "walking" /\ at' = at /\ result' = result
    BY <1>5, <2>1, CommandOutcome DEF Connect, Inv, Advance, GoTo
  <2> QED
    BY <1>0, <1>1, <1>4, <2>1, <2>2
<1>6. CASE WriteBody
  <2>1. phase = "walking"
    BY <1>6 DEF WriteBody
  <2>2. CASE (GoTo("final") \/ NextServer) /\ UNCHANGED <<accepted, unread>>
    BY <1>0, <1>1, <1>4, <2>1, <2>2 DEF GoTo
  <2>3. CASE /\ Relayed /\ Return("tempfail") /\ unread' = unread \cup {Server}
             /\ accepted' \in {accepted, accepted \cup {Server}}
    BY <1>0, <2>1, <2>3 DEF Return
  <2> QED
    BY <1>6, <2>2, <2>3 DEF WriteBody
<1>7. CASE ReadFinalReply
  <2>1. PICK r \in Replies, took \in BOOLEAN :
          /\ r \notin Unread => took = (r = "ok")
          /\ accepted' = IF took THEN accepted \cup {Server} ELSE accepted
          /\ unread' = IF r \in Unread THEN unread \cup {Server} ELSE unread
          /\ \/ r = "ok" /\ Return("delivered")
             \/ r # "ok" /\ Return("tempfail")
             \/ r # "ok" /\ Return("permfail")
             \/ r # "ok" /\ (r \in Unread => r = "broken" /\ Relayed) /\ NextServer
    BY <1>7, FinalOutcome
  <2>2. phase = "walking" /\ "ok" \notin Unread
    BY <1>7 DEF ReadFinalReply, Unread
  <2>3. CASE r = "ok"
    BY <1>0, <2>1, <2>2, <2>3 DEF Return
  <2>4. ASSUME r # "ok", NEW x \in {"tempfail", "permfail"}, Return(x)
        PROVE  Ways /\ phase' = "done"
    BY <1>0, <2>1, <2>2, <2>4 DEF Return
  <2>5. ASSUME r # "ok", NextServer
        PROVE  Ways /\ (phase' = "done" \/ (at' = at + 1 /\ at \in Nat))
    <3>1. CASE Return("tempfail")
      BY <2>4, <2>5, <3>1
    <3>2. CASE at' = at + 1 /\ at \in Nat /\ phase' = "walking" /\ result' = result
      BY <1>0, <2>1, <2>2, <2>5, <3>2
    <3> QED
      BY <1>4, <2>2, <2>5, <3>1, <3>2
  <2> QED
    BY <2>1, <2>2, <2>3, <2>4, <2>5 DEF Return
<1>8. CASE UNCHANGED vars
  BY <1>0, <1>8 DEF vars
<1> QED
  BY <1>2, <1>3, <1>5, <1>6, <1>7, <1>8 DEF Next

LEMMA CountStep ==
    ASSUME Inv, HistoryInv, CountInv, [Next]_vars
    PROVE  CountInv'
<1>1. IsFiniteSet(accepted) /\ Cardinality(accepted) \in Nat
  BY FS_CardinalityType DEF CountInv
<1>2. CASE Adds /\ phase = "walking"
  <2>1. IsFiniteSet(accepted') /\ Cardinality(accepted') = Cardinality(accepted) + 1
    BY <1>1, <1>2, AcceptedLength, FS_AddElement DEF Adds
  <2>2. accepted' # accepted
    BY <1>2, AcceptedLength DEF Adds
  <2>3. phase' = "walking" => at' = at + 1 /\ at \in Nat
    <3>1. at \in Nat
      BY <1>2, Current
    <3> QED
      BY <1>2, <2>2, <3>1, StepWays
  <2>4. phase' = "walking" => Cardinality(accepted') < at'
    BY <1>1, <1>2, <2>1, <2>3 DEF CountInv
  <2> QED
    BY <1>2, <2>1, <2>2, <2>4, StepWays DEF CountInv, Ways, Adds
<1>3. CASE accepted' = accepted
  <2>1. phase' = "walking" =>
          \/ phase = "walking" /\ (at' = at \/ (at' = at + 1 /\ at \in Nat))
          \/ at' = 1 /\ accepted = {}
    BY StepWays
  <2>2. at \in Int
    BY DEF Inv, Types
  <2>3. phase' = "walking" => Cardinality(accepted') < at'
    BY <1>1, <1>3, <2>1, <2>2, FS_EmptySet DEF CountInv
  <2> QED
    BY <1>1, <1>3, <2>3, StepWays DEF CountInv, Ways, vars
<1> QED
  BY <1>2, <1>3, StepWays DEF Ways

LEMMA InitCount == Init => CountInv
BY FS_EmptySet DEF Init, CountInv

\* The copies, and those of them whose acceptance was not read.
Copies == Cardinality(accepted)
Unsure == Cardinality(accepted \cap unread)

\* What a step does to the counts.
Counts ==
    \/ Copies' = Copies /\ Unsure' = Unsure /\ result' = result /\ (phase' = "done" <=> phase = "done")
    \/ /\ phase # "done" /\ phase' # "done" /\ result = "none" /\ result' = "none"
       /\ Copies' = Copies + 1 /\ Unsure' = Unsure + 1
    \/ /\ phase # "done" /\ phase' = "done" /\ result = "none" /\ result' \in {"tempfail", "permfail"}
       /\ \/ Copies' = Copies /\ Unsure' = Unsure
          \/ Copies' = Copies + 1 /\ Unsure' = Unsure + 1
    \/ /\ phase # "done" /\ phase' = "done" /\ result = "none" /\ result' = "delivered"
       /\ Copies' = Copies + 1 /\ Unsure' = Unsure

LEMMA StepCounts ==
    ASSUME Inv, HistoryInv, CountInv, [Next]_vars
    PROVE  /\ Counts /\ Copies \in Nat /\ Unsure \in Nat
           /\ Copies' # Copies => Copies < 1 + MaxFallbacks
<1>1. IsFiniteSet(accepted) /\ IsFiniteSet(accepted \cap unread)
  BY FS_Intersection DEF CountInv
<1>2. Copies \in Nat /\ Unsure \in Nat
  BY <1>1, FS_CardinalityType DEF Copies, Unsure
<1>3. phase # "done" => result = "none" /\ accepted \subseteq unread /\ Unsure = Copies
  <2>1. accepted \subseteq unread => accepted \cap unread = accepted
    OBVIOUS
  <2> QED
    BY <2>1 DEF CountInv, Copies, Unsure
<1>4. accepted' \subseteq unread' => Unsure' = Copies'
  <2>1. accepted' \subseteq unread' => accepted' \cap unread' = accepted'
    OBVIOUS
  <2> QED
    BY <2>1 DEF Copies, Unsure
<1>5. ASSUME phase = "walking", Adds
      PROVE  Copies' = Copies + 1 /\ Copies < 1 + MaxFallbacks
    BY <1>1, <1>5, AcceptedLength, FS_AddElement DEF Adds, Copies
<1>6. accepted' = accepted => Copies' = Copies
  BY DEF Copies
<1>7. CASE phase = "done"
  <2>1. UNCHANGED vars
    BY <1>7, StepWays
  <2> QED
    BY <1>2, <2>1 DEF vars, historyVars, Counts, Copies, Unsure
<1>8. CASE phase # "done"
  <2>1. CASE /\ accepted' = accepted /\ result' = result /\ phase' # "done"
             /\ accepted' \subseteq unread'
    BY <1>2, <1>3, <1>4, <1>6, <1>8, <2>1 DEF Counts
  <2>2. CASE /\ phase = "walking" /\ Adds /\ Server \in unread' /\ unread \subseteq unread'
             /\ result' = result /\ phase' = "walking"
    <3>1. accepted' \subseteq unread'
      BY <1>3, <1>8, <2>2 DEF Adds
    <3> QED
      BY <1>2, <1>3, <1>4, <1>5, <1>8, <2>2, <3>1 DEF Counts
  <2>3. CASE /\ phase' = "done" /\ result' \in {"tempfail", "permfail"}
             /\ accepted' = accepted /\ accepted \subseteq unread'
    BY <1>2, <1>3, <1>4, <1>6, <1>8, <2>3 DEF Counts
  <2>4. CASE /\ phase = "walking" /\ phase' = "done" /\ result' \in {"tempfail", "permfail"}
             /\ Adds /\ Server \in unread' /\ unread \subseteq unread'
    <3>1. accepted' \subseteq unread'
      BY <1>3, <1>8, <2>4 DEF Adds
    <3> QED
      BY <1>2, <1>3, <1>4, <1>5, <1>8, <2>4, <3>1 DEF Counts
  <2>5. CASE /\ phase = "walking" /\ phase' = "done" /\ result' = "delivered"
             /\ Adds /\ unread' = unread
    <3>1. accepted' \cap unread' = accepted \cap unread
      BY <2>5, AcceptedLength DEF Adds
    <3>2. Unsure' = Unsure
      BY <3>1 DEF Unsure
    <3> QED
      BY <1>2, <1>3, <1>5, <1>8, <2>5, <3>2 DEF Counts
  <2> QED
    BY <1>8, <2>1, <2>2, <2>3, <2>4, <2>5, StepWays DEF Ways
<1> QED
  BY <1>7, <1>8

\* What an attempt has done when it returns, or when it is cut short.
OwesInv ==
    /\ Copies \in 0..(1 + MaxFallbacks)
    /\ Copies = Unsure + (IF result = "delivered" THEN 1 ELSE 0)
    /\ phase # "done" => result = "none"
    /\ phase = "done" => result \in {"delivered", "tempfail", "permfail"}

ContractInv == Inv /\ HistoryInv /\ CountInv /\ OwesInv

LEMMA InitOwes == Init => OwesInv
<1> SUFFICES ASSUME Init PROVE OwesInv
  OBVIOUS
<1>1. accepted = {} /\ accepted \cap unread = {}
  BY DEF Init
<1>2. Copies = 0 /\ Unsure = 0
  BY <1>1, FS_EmptySet DEF Copies, Unsure
<1> QED
  BY <1>2, MaxFallbacksAssumption DEF Init, OwesInv

LEMMA OwesStep == ContractInv /\ [Next]_vars => OwesInv'
<1> SUFFICES ASSUME ContractInv, [Next]_vars PROVE OwesInv'
  OBVIOUS
<1>1. /\ Counts /\ Copies \in Nat /\ Unsure \in Nat
      /\ Copies' # Copies => Copies < 1 + MaxFallbacks
  BY StepCounts DEF ContractInv
<1>2. Copies' \in 0..(1 + MaxFallbacks)
  BY <1>1, MaxFallbacksAssumption DEF ContractInv, OwesInv, Counts
<1> QED
  BY <1>1, <1>2 DEF ContractInv, OwesInv, Counts

LEMMA AlwaysContract == Spec => []ContractInv
<1>1. Init => ContractInv
  <2>1. Init => HistoryInv
    BY DEF Init, HistoryInv
  <2> QED
    BY <2>1, InitInv, InitCount, InitOwes DEF ContractInv
<1>2. ContractInv /\ [Next]_vars => ContractInv'
  BY NextInv, HistoryStep, CountStep, OwesStep DEF ContractInv
<1> QED
  BY <1>1, <1>2, PTL DEF Spec

\* Whatever servers an attempt meets, and wherever a crash of its process cuts it
\* short, it leaves the queue no copy that AttemptDelivery does not count.
THEOREM AttemptFulfilsTheQueue == Spec => []FulfilsTheQueue
<1>1. ContractInv => FulfilsTheQueue
  BY MaxFallbacksAssumption
  DEF ContractInv, OwesInv, FulfilsTheQueue, Contract!Owes, Copies, Unsure
<1> QED
  BY <1>1, AlwaysContract, PTL

\* The detailed attempt implements the contract: the queue, which is checked and
\* proved against the contract, can rely on any chain, any exchangers, any replies.
THEOREM ImplementsContract == Spec => KeepsContract
<1> USE DEF Contract!contractVars
<1>1. Init => Contract!ContractInit
  BY FS_EmptySet DEF Init, Contract!ContractInit
<1>2. ContractInv /\ [Next]_vars => [Contract!ContractNext]_(Contract!contractVars)
  <2> SUFFICES ASSUME ContractInv, [Next]_vars
               PROVE  [Contract!ContractNext]_(Contract!contractVars)
    OBVIOUS
  <2>1. /\ Counts /\ Copies \in Nat /\ Unsure \in Nat
        /\ Copies' # Copies => Copies < 1 + MaxFallbacks
    BY StepCounts DEF ContractInv
  <2> USE <2>1 DEF Copies, Unsure, Contract!ContractNext, Contract!HandOver,
                   Contract!ReturnWith, Contract!Take, Contract!TakeUnread, Contract!Deliver,
                   Contract!Outcomes
  <2>2. CASE Copies' = Copies /\ Unsure' = Unsure /\ result' = result
    BY <2>2
  <2>3. CASE /\ result = "none" /\ result' = "none"
             /\ Copies' = Copies + 1 /\ Unsure' = Unsure + 1
    <3>1. Contract!HandOver
      BY <2>3
    <3> QED
      BY <3>1
  <2>4. CASE /\ result = "none" /\ result' \in {"tempfail", "permfail"}
             /\ \/ Copies' = Copies /\ Unsure' = Unsure
                \/ Copies' = Copies + 1 /\ Unsure' = Unsure + 1
    <3>1. Contract!ReturnWith(result')
      BY <2>4
    <3> QED
      BY <2>4, <3>1
  <2>5. CASE /\ result = "none" /\ result' = "delivered"
             /\ Copies' = Copies + 1 /\ Unsure' = Unsure
    <3>1. Contract!ReturnWith(result')
      BY <2>5
    <3> QED
      BY <2>5, <3>1
  <2> QED
    BY <2>2, <2>3, <2>4, <2>5 DEF Counts
<1> QED
  BY <1>1, <1>2, AlwaysContract, PTL DEF Spec, KeepsContract, Contract!ContractSpec

----------------------------------------------------------------------------
(* An attempt ends.                                                        *)

LEMMA Remaining ==
    /\ \A s \in Commands \cup {"connect", "body", "final"} : StepsAfter[s] \in 2..12
    /\ StepsAfter["connect"] = 12 /\ StepsAfter["greeting"] = 11
    /\ StepsAfter["ehlo"] = 10 /\ StepsAfter["helo"] = 9 /\ StepsAfter["starttls"] = 9
    /\ StepsAfter["ehlo2"] = 8 /\ StepsAfter["auth"] = 7 /\ StepsAfter["mail"] = 6
    /\ StepsAfter["rcpt"] = 5 /\ StepsAfter["data"] = 4
    /\ StepsAfter["body"] = 3 /\ StepsAfter["final"] = 2
BY DEF StepsAfter, Commands

\* A step of a walk stays in its session, further on, or ends it.
LEMMA WalkOutcome ==
    ASSUME Inv, Next, phase = "walking"
    PROVE  \/ NextServer
           \/ \E r \in {"delivered", "tempfail", "permfail"} : Return(r)
           \/ /\ UNCHANGED <<phase, plan, at>> /\ StepsAfter[step'] < StepsAfter[step]
              /\ step' \in Commands \cup {"connect", "body", "final"}
<1>1. CASE Connect \/ WriteBody
  BY <1>1, Remaining DEF Connect, WriteBody, GoTo, Commands
<1>2. CASE DirectExchange \/ RelayExchange
  <2>1. CASE Advance
    BY <2>1, Remaining DEF Advance, GoTo, Commands
  <2> QED
    BY <1>2, <2>1, CommandOutcome DEF Inv
<1>3. CASE ReadFinalReply
  BY <1>3, FinalOutcome
<1> QED
  BY <1>1, <1>2, <1>3 DEF Next, CheckSuppression, RoutingFails, Route

LEMMA Weighed ==
    ASSUME NEW n \in Int, NEW k \in Int, k <= n, NEW m \in 2..12
    PROVE  /\ 12 * (n - k) + m \in Nat \ {0}
           /\ \A l \in Int : l < m => 12 * (n - k) + l < 12 * (n - k) + m
           /\ 12 * (n - (k + 1)) + 12 < 12 * (n - k) + m
OBVIOUS

LEMMA LeftIs ==
    ASSUME Inv
    PROVE  /\ phase = "done" => Left = 0
           /\ phase = "routing" => Left = 12 * (Len(Chain) + Len(MX)) + 1
           /\ phase = "suppression" => Left = 12 * (Len(Chain) + Len(MX)) + 2
           /\ phase = "walking" =>
                /\ Left = 12 * (Len(plan) - at) + StepsAfter[step]
                /\ at \in 1..Len(plan) /\ Len(plan) \in Nat
                /\ StepsAfter[step] \in 2..12
           /\ phase # "done" => Left \in Nat \ {0}
<1>1. Len(Chain) \in Nat /\ Len(MX) \in Nat
  BY ChainAssumption
<1>2. phase = "walking" =>
        /\ at \in 1..Len(plan) /\ Len(plan) \in Nat /\ StepsAfter[step] \in 2..12
  BY Current, Remaining DEF Inv, Types
<1>3. /\ phase = "done" => Left = 0
      /\ phase = "routing" => Left = 12 * (Len(Chain) + Len(MX)) + 1
      /\ phase = "suppression" => Left = 12 * (Len(Chain) + Len(MX)) + 2
      /\ phase = "walking" => Left = 12 * (Len(plan) - at) + StepsAfter[step]
  BY DEF Left
<1>4. ASSUME phase = "walking"
      PROVE  Left \in Nat \ {0}
  <2>1. at \in Int /\ Len(plan) \in Int /\ at <= Len(plan)
    BY <1>2, <1>4
  <2> QED
    BY <1>2, <1>3, <1>4, <2>1, Weighed
<1>5. phase \in {"suppression", "routing"} => Left \in Nat \ {0}
  BY <1>1, <1>3
<1>6. phase # "done" => Left \in Nat \ {0}
  BY <1>4, <1>5 DEF Inv, Types
<1> QED
  BY <1>2, <1>3, <1>6

LEMMA LeftStep == Inv /\ Inv' /\ Next => Left' < Left
<1> SUFFICES ASSUME Inv, Inv', Next PROVE Left' < Left
  OBVIOUS
<1>1. /\ phase' = "done" => Left' = 0
      /\ phase' = "routing" => Left' = 12 * (Len(Chain) + Len(MX)) + 1
      /\ phase' = "walking" => Left' = 12 * (Len(plan') - at') + StepsAfter[step']
  BY DEF Inv, Types, Left
<1>2. Len(Chain) \in Nat /\ Len(MX) \in Nat
  BY ChainAssumption
<1>3. CASE phase # "done" /\ phase' = "done"
  BY <1>1, <1>3, LeftIs
<1>4. CASE phase = "suppression" /\ phase' = "routing"
  BY <1>1, <1>2, <1>4, LeftIs
<1>5. CASE WalkStarts /\ phase = "routing"
  <2>1. step' = "connect" /\ at' = 1 /\ phase' = "walking"
    BY <1>5 DEF WalkStarts, Inv, PlanInv
  <2>2. Len(plan') \in Nat /\ Len(plan') <= Len(Chain) + Len(MX)
    BY <1>5 DEF WalkStarts, Short
  <2>3. Left' = 12 * (Len(plan') - 1) + 12
    BY <1>1, <2>1, Remaining
  <2> QED
    BY <1>2, <1>5, <2>2, <2>3, LeftIs
<1>6. CASE /\ phase = "walking" /\ UNCHANGED <<phase, plan, at>>
           /\ StepsAfter[step'] < StepsAfter[step]
           /\ step' \in Commands \cup {"connect", "body", "final"}
  <2>1. Left' = 12 * (Len(plan) - at) + StepsAfter[step']
    BY <1>1, <1>6
  <2>2. StepsAfter[step'] \in Int /\ StepsAfter[step] \in 2..12
    BY <1>6, Remaining, LeftIs
  <2>3. at \in Int /\ Len(plan) \in Int /\ at <= Len(plan)
    BY <1>6, LeftIs
  <2>4. Left = 12 * (Len(plan) - at) + StepsAfter[step]
    BY <1>6, LeftIs
  <2> QED
    BY <1>6, <2>1, <2>2, <2>3, <2>4, Weighed
<1>7. CASE phase = "walking" /\ NextServer
  <2>1. CASE /\ at' = at + 1 /\ phase' = "walking" /\ step' = "connect" /\ plan' = plan
    <3>1. Left' = 12 * (Len(plan) - (at + 1)) + 12
      BY <1>1, <2>1, Remaining
    <3>2. /\ at \in Int /\ Len(plan) \in Int /\ at <= Len(plan)
          /\ StepsAfter[step] \in 2..12
      BY <1>7, LeftIs
    <3>3. Left = 12 * (Len(plan) - at) + StepsAfter[step]
      BY <1>7, LeftIs
    <3> QED
      BY <3>1, <3>2, <3>3, Weighed
  <2>2. CASE Return("tempfail")
    BY <1>3, <1>7, <2>2 DEF Return
  <2> QED
    BY <1>7, <2>1, <2>2, NextServerIs
<1>8. CASE phase = "walking"
  BY <1>3, <1>6, <1>7, <1>8, WalkOutcome DEF Return
<1>9. CASE CheckSuppression \/ RoutingFails \/ Route
  BY <1>3, <1>4, <1>5, <1>9, RouteOutcome
  DEF CheckSuppression, RoutingFails, DeferRouting, Return
<1> QED
  BY <1>8, <1>9
  DEF Next, Connect, DirectExchange, RelayExchange, WriteBody, ReadFinalReply

\* Whatever the servers answer, an attempt returns after at most two steps and
\* twelve for each server that the routing may name: Left is a natural number, and
\* no step leaves it as it was.
THEOREM AttemptsEnd == Spec => EveryStepCounts /\ [](Left \in Nat)
<1>1. Inv /\ Inv' /\ [Next]_vars => [Left' < Left]_vars
  BY LeftStep
<1>2. Inv => Left \in Nat
  BY LeftIs DEF Inv, Types
<1> QED
  BY <1>1, <1>2, Invariance, PTL DEF Spec, EveryStepCounts
=============================================================================
