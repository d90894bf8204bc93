------------------------ MODULE DeviceSessionProofs ------------------------
(***************************************************************************)
(* Proofs about DeviceSession, for any number of accounts, tokens,         *)
(* requests and mint goroutines and any timings TimingAssumption allows,   *)
(* and, at the end, that it implements MintThrottle.                       *)
(***************************************************************************)
EXTENDS DeviceSessionThrottle, TLAPS

(***************************************************************************)
(* Types.  The session a step writes is one of Sessions, and the steps     *)
(* under session.mu keep the types of sessions and mints.                  *)
(***************************************************************************)

LEMMA AccountKeyType == \A tok \in Tokens : accountKey(tok) \in Accounts
BY DEF Accounts

LEMMA KickType ==
    ASSUME TypeOK, NEW a \in Accounts, NEW s \in Sessions, NEW tok \in Tokens,
           Kick(a, s, tok)
    PROVE  /\ session' \in [Accounts -> Sessions]
           /\ mint' \in [Mints -> Minting]
           /\ \A m \in Mints : mint'[m].phase # "idle" => mint'[m].token \in Tokens
<1>1. CASE KickDue(s, tok)
    <2>1. [s EXCEPT !.minting = TRUE, !.nextAttempt = MintCooldown] \in Sessions
        BY TimingAssumption DEF Sessions
    <2>2. session' \in [Accounts -> Sessions]
        BY <1>1, <2>1 DEF Kick, TypeOK
    <2>3. PICK m \in Mints :
            mint' = [mint EXCEPT ![m] = [phase |-> "asking", token |-> tok]]
        BY <1>1 DEF Kick, StartMint
    <2> QED
        BY <2>2, <2>3 DEF TypeOK, Minting
<1>2. CASE ~KickDue(s, tok)
    BY <1>2 DEF Kick, TypeOK
<1> QED
    BY <1>1, <1>2

LEMMA DroppedType == \A s \in Sessions : Dropped(s) \in Sessions
BY DEF Dropped, Sessions

LEMMA ChargedType ==
    ASSUME NEW s \in Sessions
    PROVE  /\ Charged(s) \in Sessions
           /\ Charged(s).ticket = NoTicket
           /\ Charged(s).refusals = s.refusals + 1
           /\ Charged(s).minting = s.minting
           /\ Charged(s).standDownUntil = s.standDownUntil
           /\ Charged(s).nextAttempt = 0
           /\ Charged(s).refusedNotBefore = RefusedFloor
<1>1. /\ Dropped(s) \in Sessions
      /\ Dropped(s).ticket = NoTicket
      /\ Dropped(s).refusals = s.refusals
      /\ Dropped(s).minting = s.minting
      /\ Dropped(s).standDownUntil = s.standDownUntil
    BY DEF Dropped, Sessions
<1> DEFINE t == [Dropped(s) EXCEPT !.refusedNotBefore = RefusedFloor, !.nextAttempt = 0]
<1>2. /\ t \in Sessions
      /\ t.ticket = NoTicket /\ t.refusals = s.refusals
      /\ t.minting = s.minting /\ t.standDownUntil = s.standDownUntil
      /\ t.nextAttempt = 0 /\ t.refusedNotBefore = RefusedFloor
    BY <1>1, TimingAssumption DEF Sessions
<1>3. Charged(s) = [t EXCEPT !.refusals = t.refusals + 1]
    BY DEF Charged
<1> HIDE DEF t
<1> QED
    BY <1>2, <1>3 DEF Sessions

LEMMA UseCredentialType ==
    ASSUME TypeOK, NEW tok \in Tokens, UseCredential(tok)
    PROVE  /\ session' \in [Accounts -> Sessions]
           /\ mint' \in [Mints -> Minting]
           /\ \A m \in Mints : mint'[m].phase # "idle" => mint'[m].token \in Tokens
<1> DEFINE a == accountKey(tok)
           s == IF session[a].ticket # NoTicket /\ session[a].expiresAt = 0
                THEN Dropped(session[a]) ELSE session[a]
<1>1. a \in Accounts /\ session[a] \in Sessions
    BY AccountKeyType DEF TypeOK
<1>2. s \in Sessions
    BY <1>1, DroppedType
<1>3. CASE session[a].standDownUntil > 0
    BY <1>3 DEF UseCredential, TypeOK
<1>4. CASE ~(session[a].standDownUntil > 0)
    <2>1. Kick(a, s, tok)
        BY <1>4 DEF UseCredential
    <2> QED
        BY <1>1, <1>2, <2>1, KickType
<1> QED
    BY <1>3, <1>4

LEMMA RefusedType ==
    ASSUME TypeOK, NEW tok \in Tokens, Refused(tok)
    PROVE  /\ session' \in [Accounts -> Sessions]
           /\ mint' \in [Mints -> Minting]
           /\ \A m \in Mints : mint'[m].phase # "idle" => mint'[m].token \in Tokens
<1> DEFINE a == accountKey(tok)
           down == [Charged(session[a]) EXCEPT !.refusals = 0,
                                               !.standDownUntil = UnsupportedBackoff]
<1>1. a \in Accounts /\ session[a] \in Sessions
    BY AccountKeyType DEF TypeOK
<1>2. Charged(session[a]) \in Sessions /\ down \in Sessions
    <2>1. \A s \in Sessions :
            [s EXCEPT !.refusals = 0, !.standDownUntil = UnsupportedBackoff] \in Sessions
        BY TimingAssumption DEF Sessions
    <2> QED
        BY <1>1, <2>1, ChargedType
<1>3. CASE UNCHANGED <<session, mint>>
    BY <1>3 DEF TypeOK
<1>4. CASE session' = [session EXCEPT ![a] = down] /\ UNCHANGED mint
    BY <1>1, <1>2, <1>4 DEF TypeOK
<1>5. CASE Kick(a, Charged(session[a]), tok)
    BY <1>1, <1>2, <1>5, KickType
<1> QED
    BY <1>3, <1>4, <1>5 DEF Refused

\* Who is told "sent", and what it carries, is well typed.
LEMMA CredentialType ==
    ASSUME TypeOK, NEW tok \in Tokens
    PROVE  Credential(session[accountKey(tok)]) \in Ticket \cup {NoTicket}
BY AccountKeyType DEF TypeOK, Credential, Sessions

LEMMA TypeInit == Init => TypeOK
BY NullAssumption DEF Init, TypeOK, NewSession, IdleRequest, IdleMint, Sessions,
    Requesting, Minting

\* What TypeOK says of the requests alone.
RequestsOK ==
    /\ request \in [Requests -> Requesting]
    /\ \A r \in Requests :
        /\ request[r].phase # "idle" => request[r].token \in Tokens
        /\ request[r].phase # "sent" => request[r].ticket = NoTicket

LEMMA SentType ==
    ASSUME TypeOK, NEW r \in Requests, NEW tok \in Tokens,
           NEW tkt \in Ticket \cup {NoTicket}, Sent(r, tok, tkt)
    PROVE  RequestsOK'
BY DEF Sent, TypeOK, RequestsOK, Requesting

LEMMA RequestTypeStep ==
    ASSUME TypeOK, NEW r \in Requests, RequestStep(r)
    PROVE  TypeOK'
<1>1. ASSUME NEW tok \in Tokens, SendPlain(r, tok) PROVE TypeOK'
    <2>1. RequestsOK'
        BY <1>1, SentType DEF SendPlain
    <2> QED
        BY <1>1, <2>1 DEF SendPlain, TypeOK, RequestsOK
<1>2. ASSUME NEW tok \in Tokens, SignNow(r, tok) PROVE TypeOK'
    <2>1. RequestsOK'
        BY <1>2, SentType, CredentialType DEF SignNow
    <2> QED
        BY <1>2, <2>1, UseCredentialType DEF SignNow, TypeOK, RequestsOK
<1>3. ASSUME NEW tok \in Tokens, BeginWait(r, tok) PROVE TypeOK'
    <2>1. RequestsOK'
        BY <1>3, TimingAssumption DEF BeginWait, TypeOK, RequestsOK, Requesting
    <2> QED
        BY <1>3, <2>1, UseCredentialType DEF BeginWait, TypeOK, RequestsOK
<1>4. ASSUME AwaitCheck(r) PROVE TypeOK'
    <2>1. request[r].token \in Tokens
        BY <1>4 DEF AwaitCheck, TypeOK
    <2>2. CASE Sent(r, request[r].token, NoTicket)
        <3>1. RequestsOK'
            BY <2>1, <2>2, SentType
        <3> QED
            BY <1>4, <3>1 DEF AwaitCheck, TypeOK, RequestsOK
    <2>3. CASE request' = [request EXCEPT ![r].phase = "sleeping"]
        BY <1>4, <2>3 DEF AwaitCheck, TypeOK, Requesting
    <2> QED
        BY <1>4, <2>2, <2>3 DEF AwaitCheck
<1>5. ASSUME AwaitPoll(r) PROVE TypeOK'
    <2> DEFINE tok == request[r].token
    <2>1. tok \in Tokens
        BY <1>5 DEF AwaitPoll, TypeOK
    <2>2. RequestsOK'
        <3>1. CASE request' = [request EXCEPT ![r].phase = "checking"]
            BY <1>5, <3>1 DEF AwaitPoll, TypeOK, RequestsOK, Requesting
        <3>2. ASSUME NEW tkt \in Ticket \cup {NoTicket}, Sent(r, tok, tkt)
              PROVE  RequestsOK'
            BY <2>1, <3>2, SentType
        <3> QED
            BY <1>5, <2>1, <3>1, <3>2, CredentialType DEF AwaitPoll
    <2> QED
        BY <1>5, <2>1, <2>2, UseCredentialType DEF AwaitPoll, TypeOK, RequestsOK
<1>6. ASSUME Answered(r) PROVE TypeOK'
    BY <1>6, NullAssumption DEF Answered, TypeOK, IdleRequest, Requesting
<1>7. ASSUME Answered401(r) PROVE TypeOK'
    <2>1. RequestsOK'
        BY <1>7, NullAssumption DEF Answered401, TypeOK, RequestsOK, IdleRequest, Requesting
    <2>2. request[r].token \in Tokens
        BY <1>7 DEF Answered401, TypeOK
    <2> QED
        BY <1>7, <2>1, <2>2, RefusedType DEF Answered401, TypeOK, RequestsOK
<1> QED
    BY <1>1, <1>2, <1>3, <1>4, <1>5, <1>6, <1>7 DEF RequestStep

LEMMA MintTypeStep ==
    ASSUME TypeOK, NEW m \in Mints, MintStep(m)
    PROVE  TypeOK'
<1> DEFINE tok == mint[m].token
           a == accountKey(tok)
<1>1. mint[m].phase # "idle"
    BY DEF MintStep, MintSucceeds, MintUnsupported, MintFails, MintReturns, Settle
<1>2. tok \in Tokens /\ a \in Accounts /\ session[a] \in Sessions
    BY <1>1, AccountKeyType DEF TypeOK
<1>3. ASSUME Settle(m), session' \in [Accounts -> Sessions] PROVE TypeOK'
    BY <1>3 DEF Settle, TypeOK, Minting
<1>4. ASSUME MintSucceeds(m) PROVE TypeOK'
    <2>1. PICK id \in TicketIds, lifetime \in Lifetimes :
            session' = [session EXCEPT ![a] =
                Granted(session[a], [token |-> tok, id |-> id], lifetime)]
        BY <1>2, <1>4 DEF MintSucceeds, TypeOK
    <2>2. [token |-> tok, id |-> id] \in Ticket
        BY <1>2 DEF Ticket
    <2>3. ASSUME NEW s \in Sessions, NEW tkt \in Ticket, tkt.token \in Tokens
          PROVE  Granted(s, tkt, lifetime) \in Sessions
        <3>1. [s EXCEPT !.ticket = tkt, !.expiresAt = lifetime,
                        !.mintedFor = tkt.token] \in Sessions
            BY <2>3, TimingAssumption DEF Sessions
        <3>2. \A t \in Sessions :
                [t EXCEPT !.refusals = 0, !.standDownUntil = 0] \in Sessions
            BY DEF Sessions
        <3> QED
            BY <3>1, <3>2 DEF Granted
    <2>4. Granted(session[a], [token |-> tok, id |-> id], lifetime) \in Sessions
        BY <1>2, <2>2, <2>3
    <2> QED
        BY <1>2, <1>3, <1>4, <2>1, <2>4 DEF MintSucceeds, TypeOK
<1>5. ASSUME MintUnsupported(m) PROVE TypeOK'
    <2>1. \A s \in Sessions :
            [s EXCEPT !.standDownUntil = UnsupportedBackoff] \in Sessions
        BY TimingAssumption DEF Sessions
    <2> QED
        BY <1>2, <1>3, <1>5, <2>1 DEF MintUnsupported, TypeOK
<1>6. ASSUME MintFails(m) PROVE TypeOK'
    BY <1>3, <1>6 DEF MintFails, TypeOK
<1>7. ASSUME MintReturns(m) PROVE TypeOK'
    <2>1. \A s \in Sessions : [s EXCEPT !.minting = FALSE] \in Sessions
        BY DEF Sessions
    <2>2. IdleMint \in Minting
        BY DEF IdleMint, Minting
    <2> QED
        BY <1>2, <1>7, <2>1, <2>2 DEF MintReturns, TypeOK, IdleMint
<1> QED
    BY <1>4, <1>5, <1>6, <1>7 DEF MintStep

LEMMA TickTypeStep ==
    ASSUME TypeOK, Tick
    PROVE  TypeOK'
<1>1. \A n \in Nat : Sooner(n) \in Nat
    BY DEF Sooner
<1>2. session' \in [Accounts -> Sessions]
    <2>1. ASSUME NEW s \in Sessions
          PROVE  [s EXCEPT !.expiresAt = Sooner(s.expiresAt),
                           !.nextAttempt = Sooner(s.nextAttempt),
                           !.refusedNotBefore = Sooner(s.refusedNotBefore),
                           !.standDownUntil = Sooner(s.standDownUntil)] \in Sessions
        <3>1. /\ Sooner(s.expiresAt) \in Nat /\ Sooner(s.nextAttempt) \in Nat
              /\ Sooner(s.refusedNotBefore) \in Nat /\ Sooner(s.standDownUntil) \in Nat
            BY <1>1 DEF Sessions
        <3> QED
            BY <3>1 DEF Sessions
    <2>2. session \in [Accounts -> Sessions]
        BY DEF TypeOK
    <2> QED
        BY <2>1, <2>2 DEF Tick
<1>3. RequestsOK'
    <2> SUFFICES ASSUME NEW r \in Requests
                 PROVE  /\ request'[r] \in Requesting
                        /\ request'[r].phase # "idle" => request'[r].token \in Tokens
                        /\ request'[r].phase # "sent" => request'[r].ticket = NoTicket
        BY DEF Tick, RequestsOK
    <2>1. /\ request[r] \in Requesting
          /\ request[r].phase # "idle" => request[r].token \in Tokens
          /\ request[r].phase # "sent" => request[r].ticket = NoTicket
        BY DEF TypeOK
    <2>2. CASE request[r].phase \in {"checking", "sleeping"} /\ request[r].left >= 0
        <3>1. request'[r] = [request[r] EXCEPT !.left = request[r].left - 1]
            BY <2>2 DEF Tick
        <3>2. request[r].left - 1 \in Nat \cup {-1}
            BY <2>1, <2>2 DEF Requesting
        <3> QED
            BY <2>1, <3>1, <3>2 DEF Requesting
    <2>3. CASE ~(request[r].phase \in {"checking", "sleeping"} /\ request[r].left >= 0)
        <3>1. request'[r] = request[r]
            BY <2>3 DEF Tick
        <3> QED
            BY <2>1, <3>1
    <2> QED
        BY <2>2, <2>3
<1> QED
    BY <1>2, <1>3 DEF Tick, TypeOK, RequestsOK

\* Every state has its types, for any instance.
THEOREM TypeCorrect == Spec => []TypeOK
<1>1. TypeOK /\ [Next]_vars => TypeOK'
    BY RequestTypeStep, MintTypeStep, TickTypeStep DEF Next, vars, TypeOK
<1> QED
    BY TypeInit, <1>1, PTL DEF Spec

(***************************************************************************)
(* What the steps under session.mu do to a session, whatever its state.    *)
(***************************************************************************)

SameFields(s, t) ==
    /\ t.ticket = s.ticket /\ t.mintedFor = s.mintedFor
    /\ t.expiresAt = s.expiresAt /\ t.refusals = s.refusals
    /\ t.refusedNotBefore = s.refusedNotBefore
    /\ t.standDownUntil = s.standDownUntil

\* kick touches only the minting flag and nextAttempt.
LEMMA KickEffect ==
    ASSUME TypeOK, NEW a \in Accounts, NEW s \in Sessions, NEW tok \in Tokens,
           Kick(a, s, tok)
    PROVE  /\ SameFields(s, session'[a])
           /\ \A b \in Accounts \ {a} : session'[b] = session[b]
BY DEF Kick, TypeOK, Sessions, SameFields

\* credential counts no refusal, starts no stand-down, and changes the ticket
\* only by dropping it once it has expired.
LEMMA UseCredentialEffect ==
    ASSUME TypeOK, NEW tok \in Tokens, UseCredential(tok), NEW b \in Accounts
    PROVE  /\ session'[b].refusals = session[b].refusals
           /\ session'[b].standDownUntil = session[b].standDownUntil
           /\ session'[b].refusedNotBefore = session[b].refusedNotBefore
           /\ \/ /\ session'[b].ticket = session[b].ticket
                 /\ session'[b].mintedFor = session[b].mintedFor
              \/ session'[b].ticket = NoTicket /\ session[b].expiresAt = 0
<1> DEFINE a == accountKey(tok)
           s == IF session[a].ticket # NoTicket /\ session[a].expiresAt = 0
                THEN Dropped(session[a]) ELSE session[a]
<1>1. a \in Accounts /\ session[a] \in Sessions /\ session[b] \in Sessions
    BY AccountKeyType DEF TypeOK
<1>2. s \in Sessions
    BY <1>1, DroppedType
<1>3. CASE session[a].standDownUntil > 0
    BY <1>3 DEF UseCredential
<1>4. CASE ~(session[a].standDownUntil > 0)
    <2>1. Kick(a, s, tok)
        BY <1>4 DEF UseCredential
    <2>2. SameFields(s, session'[a]) /\ \A c \in Accounts \ {a} : session'[c] = session[c]
        BY <1>1, <1>2, <2>1, KickEffect
    <2>3. /\ s.refusals = session[a].refusals
          /\ s.standDownUntil = session[a].standDownUntil
          /\ s.refusedNotBefore = session[a].refusedNotBefore
          /\ \/ s = session[a]
             \/ s.ticket = NoTicket /\ session[a].expiresAt = 0
        BY <1>1 DEF Dropped, Sessions
    <2> QED
        BY <2>2, <2>3 DEF SameFields
<1> QED
    BY <1>3, <1>4

\* Refused with the count it starts from: the first refusal is never enough
\* for a stand-down.
LEMMA RefusedEffect ==
    ASSUME TypeOK, RefusalsNeverAddUp, NEW tok \in Tokens, Refused(tok),
           NEW a \in Accounts, a = accountKey(tok)
    PROVE  \/ UNCHANGED <<session, mint>>
           \/ \E s \in Sessions :
                /\ session[a].ticket # NoTicket
                /\ session[a].refusedNotBefore = 0
                /\ s.ticket = NoTicket
                /\ s.refusals = 1
                /\ s.minting = session[a].minting
                /\ s.standDownUntil = session[a].standDownUntil
                /\ s.nextAttempt = 0
                /\ s.refusedNotBefore = RefusedFloor
                /\ Kick(a, s, tok)
<1>1. session[a] \in Sessions
    BY DEF TypeOK
<1> SUFFICES ASSUME ~UNCHANGED <<session, mint>>
             PROVE  /\ session[a].ticket # NoTicket
                    /\ session[a].refusedNotBefore = 0
                    /\ session[a].refusals = 0
                    /\ Kick(a, Charged(session[a]), tok)
    BY <1>1, ChargedType
<1>2. session[a].ticket # NoTicket /\ session[a].refusedNotBefore = 0
    BY <1>1 DEF Refused, Sessions
<1>3. session[a].refusals = 0
    BY <1>2 DEF RefusalsNeverAddUp
<1>4. ~(Charged(session[a]).refusals >= RefusalsBeforeStandDown)
    BY <1>1, <1>3, ChargedType, TimingAssumption
<1> QED
    BY <1>2, <1>3, <1>4 DEF Refused

(***************************************************************************)
(* The safety invariants.  They lean on each other: a stand-down is quiet  *)
(* because a refusal never starts one (RefusalsNeverAddUp) and because the *)
(* mint that reports an unsupported relay is the only one.                 *)
(***************************************************************************)

Safe ==
    /\ TypeOK
    /\ OneMintPerAccount
    /\ RefusalsNeverAddUp
    /\ StandDownIsQuiet
    /\ TicketsStayWithTheirAccount

LEMMA SafeInit == Init => Safe
BY TypeInit DEF Init, Safe, OneMintPerAccount, RefusalsNeverAddUp, StandDownIsQuiet,
    TicketsStayWithTheirAccount, NewSession, IdleRequest, IdleMint, MintOf

\* A kick on a session whose minting flag is up to date keeps the flag so.
LEMMA KickKeepsOneMint ==
    ASSUME TypeOK, OneMintPerAccount,
           NEW a \in Accounts, NEW s \in Sessions, NEW tok \in Tokens,
           accountKey(tok) = a, s.minting = session[a].minting, Kick(a, s, tok)
    PROVE  OneMintPerAccount'
<1>1. CASE KickDue(s, tok)
    <2>1. PICK m \in Mints :
            /\ mint[m].phase = "idle"
            /\ mint' = [mint EXCEPT ![m] = [phase |-> "asking", token |-> tok]]
        BY <1>1 DEF Kick, StartMint
    <2>2. session'[a].minting /\ \A b \in Accounts \ {a} : session'[b] = session[b]
        BY <1>1 DEF Kick, TypeOK, Sessions
    <2>3. \A n \in Mints : ~MintOf(n, a)
        BY <1>1 DEF KickDue, OneMintPerAccount
    <2>4. mint'[m].phase = "asking" /\ mint'[m].token = tok
        BY <2>1 DEF TypeOK
    <2>5. \A n \in Mints \ {m} : mint'[n] = mint[n]
        BY <2>1 DEF TypeOK
    <2>6. \A n \in Mints : MintOf(n, a)' <=> n = m
        BY <2>3, <2>4, <2>5 DEF MintOf, accountKey
    <2>7. \A b \in Accounts \ {a}, n \in Mints : MintOf(n, b)' <=> MintOf(n, b)
        BY <2>1, <2>4, <2>5 DEF MintOf, accountKey
    <2>8. \A b \in Accounts \ {a} :
            /\ session'[b].minting <=> \E n \in Mints : MintOf(n, b)'
            /\ \A n, k \in Mints : MintOf(n, b)' /\ MintOf(k, b)' => n = k
        BY <2>2, <2>7 DEF OneMintPerAccount
    <2> QED
        BY <2>2, <2>6, <2>8 DEF OneMintPerAccount
<1>2. CASE ~KickDue(s, tok)
    <2>1. UNCHANGED mint /\ \A b \in Accounts : session'[b].minting = session[b].minting
        BY <1>2 DEF Kick, TypeOK
    <2> QED
        BY <2>1 DEF OneMintPerAccount, MintOf, accountKey
<1> QED
    BY <1>1, <1>2

\* A kick in an account that stands down starts nothing.
LEMMA KickKeepsQuiet ==
    ASSUME TypeOK, StandDownIsQuiet,
           NEW a \in Accounts, NEW s \in Sessions, NEW tok \in Tokens,
           accountKey(tok) = a, s.standDownUntil = session[a].standDownUntil,
           Kick(a, s, tok)
    PROVE  StandDownIsQuiet'
<1>1. \A b \in Accounts : session'[b].standDownUntil = session[b].standDownUntil
    BY KickEffect DEF SameFields
<1>2. \A n \in Mints : mint[n].phase = "asking" => accountKey(mint[n].token) \in Accounts
    BY AccountKeyType DEF TypeOK
<1>3. CASE KickDue(s, tok)
    <2>1. PICK m \in Mints :
            mint' = [mint EXCEPT ![m] = [phase |-> "asking", token |-> tok]]
        BY <1>3 DEF Kick, StartMint
    <2>2. session[a].standDownUntil = 0
        BY <1>3 DEF KickDue
    <2>3. /\ mint'[m].token = tok
          /\ \A n \in Mints \ {m} : mint'[n] = mint[n]
        BY <2>1 DEF TypeOK
    <2> QED
        BY <1>1, <1>2, <2>2, <2>3 DEF StandDownIsQuiet, accountKey
<1>4. CASE ~KickDue(s, tok)
    BY <1>1, <1>2, <1>4 DEF Kick, StandDownIsQuiet, accountKey
<1> QED
    BY <1>3, <1>4

LEMMA UseCredentialKeeps ==
    ASSUME Safe, NEW tok \in Tokens, UseCredential(tok)
    PROVE  OneMintPerAccount' /\ StandDownIsQuiet'
<1> DEFINE a == accountKey(tok)
           s == IF session[a].ticket # NoTicket /\ session[a].expiresAt = 0
                THEN Dropped(session[a]) ELSE session[a]
<1>1. a \in Accounts /\ session[a] \in Sessions
    BY AccountKeyType DEF Safe, TypeOK
<1>2. s \in Sessions
    BY <1>1, DroppedType
<1>3. s.minting = session[a].minting /\ s.standDownUntil = session[a].standDownUntil
    BY <1>1 DEF Dropped, Sessions
<1>4. CASE session[a].standDownUntil > 0
    BY <1>4 DEF UseCredential, Safe, OneMintPerAccount, StandDownIsQuiet, MintOf, accountKey
<1>5. CASE ~(session[a].standDownUntil > 0)
    <2>1. Kick(a, s, tok)
        BY <1>5 DEF UseCredential
    <2> HIDE DEF a, s
    <2>2. accountKey(tok) = a
        BY DEF a
    <2> QED
        BY <1>1, <1>2, <1>3, <2>1, <2>2, KickKeepsOneMint, KickKeepsQuiet DEF Safe
<1> QED
    BY <1>4, <1>5

LEMMA RefusedKeeps ==
    ASSUME Safe, NEW tok \in Tokens, Refused(tok)
    PROVE  OneMintPerAccount' /\ StandDownIsQuiet'
<1> DEFINE a == accountKey(tok)
<1>1. a \in Accounts
    BY AccountKeyType
<1>2. CASE UNCHANGED <<session, mint>>
    BY <1>2 DEF Safe, OneMintPerAccount, StandDownIsQuiet, MintOf, accountKey
<1>3. CASE ~UNCHANGED <<session, mint>>
    <2>1. PICK s \in Sessions :
            /\ s.minting = session[a].minting
            /\ s.standDownUntil = session[a].standDownUntil
            /\ Kick(a, s, tok)
        BY <1>1, <1>3, RefusedEffect DEF Safe
    <2> QED
        BY <1>1, <2>1, KickKeepsOneMint, KickKeepsQuiet DEF Safe
<1> QED
    BY <1>2, <1>3

\* The parts of the last two invariants that speak of the sessions.
SessionsSafe ==
    \A a \in Accounts :
        /\ session[a].refusals <= 1
        /\ session[a].ticket # NoTicket =>
            /\ session[a].refusals = 0
            /\ accountKey(session[a].ticket.token) = a
            /\ session[a].mintedFor = session[a].ticket.token

RequestsSafe ==
    \A r \in Requests : request[r].ticket # NoTicket =>
        SameAccount(request[r].ticket.token, request[r].token)

LEMMA SafeParts ==
    Safe <=> /\ TypeOK /\ OneMintPerAccount /\ StandDownIsQuiet
             /\ SessionsSafe /\ RequestsSafe
BY DEF Safe, SessionsSafe, RequestsSafe, RefusalsNeverAddUp, TicketsStayWithTheirAccount

LEMMA OneSessionChanged ==
    ASSUME SessionsSafe, NEW a \in Accounts,
           \A b \in Accounts \ {a} : session'[b] = session[b],
           session'[a].refusals <= 1,
           session'[a].ticket # NoTicket =>
                /\ session'[a].refusals = 0
                /\ accountKey(session'[a].ticket.token) = a
                /\ session'[a].mintedFor = session'[a].ticket.token
    PROVE  SessionsSafe'
<1>1. ASSUME NEW b \in Accounts
      PROVE  /\ session'[b].refusals <= 1
             /\ session'[b].ticket # NoTicket =>
                /\ session'[b].refusals = 0
                /\ accountKey(session'[b].ticket.token) = b
                /\ session'[b].mintedFor = session'[b].ticket.token
    BY DEF SessionsSafe
<1> QED
    BY <1>1 DEF SessionsSafe, accountKey, Accounts

LEMMA UseCredentialKeepsSessions ==
    ASSUME Safe, NEW tok \in Tokens, UseCredential(tok)
    PROVE  SessionsSafe'
<1> SUFFICES ASSUME NEW b \in Accounts
             PROVE  /\ session'[b].refusals <= 1
                    /\ session'[b].ticket # NoTicket =>
                        /\ session'[b].refusals = 0
                        /\ accountKey(session'[b].ticket.token) = b
                        /\ session'[b].mintedFor = session'[b].ticket.token
    BY DEF SessionsSafe, accountKey, Accounts
<1> QED
    BY SafeParts, UseCredentialEffect DEF Safe, SessionsSafe

LEMMA RefusedKeepsSessions ==
    ASSUME Safe, NEW tok \in Tokens, Refused(tok)
    PROVE  SessionsSafe'
<1> DEFINE a == accountKey(tok)
<1>1. a \in Accounts
    BY AccountKeyType
<1>2. CASE UNCHANGED <<session, mint>>
    BY <1>2, SafeParts DEF SessionsSafe, accountKey, Accounts
<1>3. CASE ~UNCHANGED <<session, mint>>
    <2>1. PICK s \in Sessions : s.ticket = NoTicket /\ s.refusals = 1 /\ Kick(a, s, tok)
        BY <1>1, <1>3, RefusedEffect DEF Safe
    <2>2. /\ session'[a].ticket = NoTicket /\ session'[a].refusals = 1
          /\ \A b \in Accounts \ {a} : session'[b] = session[b]
        BY <1>1, <2>1, KickEffect DEF Safe, SameFields
    <2> QED
        BY <1>1, <2>2, SafeParts DEF SessionsSafe, accountKey, Accounts
<1> QED
    BY <1>2, <1>3

\* A request that is sent with what credential returns, or plain, carries no
\* other account's ticket.
LEMMA SentKeepsRequests ==
    ASSUME Safe, NEW r \in Requests, NEW tok \in Tokens,
           NEW tkt \in {Credential(session[accountKey(tok)]), NoTicket},
           Sent(r, tok, tkt)
    PROVE  RequestsSafe'
<1> DEFINE a == accountKey(tok)
<1>1. a \in Accounts /\ session[a] \in Sessions
    BY AccountKeyType DEF Safe, TypeOK
<1>2. tkt # NoTicket => SameAccount(tkt.token, tok)
    <2> SUFFICES ASSUME tkt # NoTicket PROVE SameAccount(tkt.token, tok)
        OBVIOUS
    <2>1. tkt = session[a].ticket
        BY DEF Credential
    <2>2. accountKey(tkt.token) = accountKey(tok)
        BY <1>1, <2>1, SafeParts DEF SessionsSafe
    <2>3. tkt.token \in Tokens
        BY <1>1, <2>1 DEF Sessions, Ticket
    <2> QED
        BY <2>2, <2>3, SubjectAssumption DEF accountKey, SameAccount
<1>3. request'[r].ticket = tkt /\ request'[r].token = tok
    BY DEF Sent, Safe, TypeOK
<1>4. \A q \in Requests \ {r} : request'[q] = request[q]
    BY DEF Sent, Safe, TypeOK
<1> QED
    BY <1>2, <1>3, <1>4, SafeParts DEF RequestsSafe, SameAccount

LEMMA RequestSafeStep ==
    ASSUME Safe, NEW r \in Requests, RequestStep(r)
    PROVE  Safe'
<1>1. TypeOK'
    BY RequestTypeStep DEF Safe
<1> DEFINE Others == OneMintPerAccount' /\ StandDownIsQuiet' /\ SessionsSafe'
<1>2. ASSUME UNCHANGED <<session, mint>> PROVE Others
    BY <1>2, SafeParts DEF OneMintPerAccount, StandDownIsQuiet, SessionsSafe, MintOf,
        accountKey, Accounts
<1>3. ASSUME NEW tok \in Tokens, UseCredential(tok) PROVE Others
    BY <1>3, UseCredentialKeeps, UseCredentialKeepsSessions
<1>4. ASSUME NEW tok \in Tokens, Refused(tok) PROVE Others
    BY <1>4, RefusedKeeps, RefusedKeepsSessions
<1>5. ASSUME NEW phase, request' = [request EXCEPT ![r].phase = phase]
      PROVE  RequestsSafe'
    BY <1>5, SafeParts DEF RequestsSafe, SameAccount, Safe, TypeOK, Requesting
<1>6. ASSUME request' = [request EXCEPT ![r] = IdleRequest] PROVE RequestsSafe'
    BY <1>6, SafeParts DEF RequestsSafe, SameAccount, IdleRequest, Safe, TypeOK
<1> HIDE DEF Others
<1>7. ASSUME NEW tok \in Tokens, SendPlain(r, tok) PROVE Others /\ RequestsSafe'
    BY <1>2, <1>7, SentKeepsRequests DEF SendPlain
<1>8. ASSUME NEW tok \in Tokens, SignNow(r, tok) PROVE Others /\ RequestsSafe'
    BY <1>3, <1>8, SentKeepsRequests DEF SignNow
<1>9. ASSUME NEW tok \in Tokens, BeginWait(r, tok) PROVE Others /\ RequestsSafe'
    <2>1. /\ request'[r].ticket = NoTicket
          /\ \A q \in Requests \ {r} : request'[q] = request[q]
        BY <1>9 DEF BeginWait, Safe, TypeOK
    <2> QED
        BY <1>3, <1>9, <2>1, SafeParts DEF BeginWait, RequestsSafe, SameAccount
<1>10. ASSUME request[r].phase # "idle" PROVE request[r].token \in Tokens
    BY <1>10 DEF Safe, TypeOK
<1>11. ASSUME AwaitCheck(r) PROVE Others /\ RequestsSafe'
    <2>1. request[r].token \in Tokens
        BY <1>10, <1>11 DEF AwaitCheck
    <2> QED
        BY <1>2, <1>5, <1>11, <2>1, SentKeepsRequests DEF AwaitCheck
<1>12. ASSUME AwaitPoll(r) PROVE Others /\ RequestsSafe'
    <2>1. request[r].token \in Tokens
        BY <1>10, <1>12 DEF AwaitPoll
    <2> QED
        BY <1>3, <1>5, <1>12, <2>1, SentKeepsRequests DEF AwaitPoll
<1>13. ASSUME Answered(r) PROVE Others /\ RequestsSafe'
    BY <1>2, <1>6, <1>13 DEF Answered
<1>14. ASSUME Answered401(r) PROVE Others /\ RequestsSafe'
    <2>1. request[r].token \in Tokens
        BY <1>10, <1>14 DEF Answered401
    <2> QED
        BY <1>4, <1>6, <1>14, <2>1 DEF Answered401
<1>15. Others /\ RequestsSafe'
    BY <1>7, <1>8, <1>9, <1>11, <1>12, <1>13, <1>14 DEF RequestStep
<1>16. OneMintPerAccount' /\ StandDownIsQuiet' /\ SessionsSafe'
    BY <1>15 DEF Others
<1> QED
    BY <1>1, <1>15, <1>16, SafeParts, PTL

LEMMA MintSafeStep ==
    ASSUME Safe, NEW m \in Mints, MintStep(m)
    PROVE  Safe'
<1> DEFINE tok == mint[m].token
           a == accountKey(tok)
<1>1. TypeOK'
    BY MintTypeStep DEF Safe
<1>2. mint[m].phase # "idle"
    BY DEF MintStep, MintSucceeds, MintUnsupported, MintFails, MintReturns, Settle
<1>3. tok \in Tokens /\ a \in Accounts /\ session[a] \in Sessions
    BY <1>2, AccountKeyType DEF Safe, TypeOK
<1>4. \A n \in Mints \ {m} : ~MintOf(n, a)
    BY <1>2, <1>3 DEF Safe, OneMintPerAccount, MintOf
<1>5. \A n \in Mints \ {m} : mint'[n] = mint[n]
    BY DEF MintStep, MintSucceeds, MintUnsupported, MintFails, MintReturns, Settle, Safe, TypeOK
<1>6. RequestsSafe'
    <2>1. UNCHANGED request
        BY DEF MintStep, MintSucceeds, MintUnsupported, MintFails, MintReturns, Settle
    <2> QED
        BY <2>1, SafeParts DEF RequestsSafe, SameAccount
<1>7. ASSUME Settle(m), \A b \in Accounts : session'[b].minting = session[b].minting
      PROVE  OneMintPerAccount'
    <2>1. \A b \in Accounts, n \in Mints : MintOf(n, b)' <=> MintOf(n, b)
        BY <1>7 DEF Settle, MintOf, accountKey, Safe, TypeOK, Minting
    <2> QED
        BY <1>7, <2>1 DEF Safe, OneMintPerAccount
<1>8. ASSUME Settle(m), \A b \in Accounts \ {a} : session'[b] = session[b]
      PROVE  StandDownIsQuiet'
    <2>1. mint'[m].phase = "settled"
        BY <1>8 DEF Settle, Safe, TypeOK
    <2>2. ASSUME NEW n \in Mints, mint'[n].phase = "asking"
          PROVE  session'[accountKey(mint'[n].token)].standDownUntil = 0
        <3>1. n # m /\ mint'[n] = mint[n]
            BY <1>5, <2>1, <2>2
        <3>2. mint[n].token \in Tokens /\ accountKey(mint[n].token) # a
            BY <1>4, <2>2, <3>1 DEF MintOf, Safe, TypeOK
        <3>3. session'[accountKey(mint[n].token)] = session[accountKey(mint[n].token)]
            BY <1>8, <3>2, AccountKeyType
        <3> QED
            BY <2>2, <3>1, <3>3 DEF Safe, StandDownIsQuiet
    <2> QED
        BY <2>2 DEF StandDownIsQuiet, accountKey
<1>9. CASE MintSucceeds(m)
    <2>1. PICK id \in TicketIds, lifetime \in Lifetimes :
            session' = [session EXCEPT ![a] =
                Granted(session[a], [token |-> tok, id |-> id], lifetime)]
        BY <1>3, <1>9 DEF MintSucceeds, Safe, TypeOK
    <2>2. /\ session'[a] = Granted(session[a], [token |-> tok, id |-> id], lifetime)
          /\ \A b \in Accounts \ {a} : session'[b] = session[b]
        BY <1>3, <2>1 DEF Safe, TypeOK
    <2>3. /\ session'[a].ticket = [token |-> tok, id |-> id]
          /\ session'[a].mintedFor = tok
          /\ session'[a].refusals = 0
          /\ session'[a].minting = session[a].minting
        BY <1>3, <2>2 DEF Granted, Sessions
    <2>4. SessionsSafe'
        BY <1>3, <2>2, <2>3, SafeParts, OneSessionChanged
    <2>5. OneMintPerAccount' /\ StandDownIsQuiet'
        BY <1>7, <1>8, <1>9, <2>2, <2>3 DEF MintSucceeds
    <2> QED
        BY <1>1, <1>6, <2>4, <2>5, SafeParts, PTL
<1>10. CASE MintUnsupported(m)
    <2>1. /\ \A b \in Accounts \ {a} : session'[b] = session[b]
          /\ session'[a].ticket = session[a].ticket
          /\ session'[a].mintedFor = session[a].mintedFor
          /\ session'[a].refusals = session[a].refusals
          /\ session'[a].minting = session[a].minting
        BY <1>3, <1>10 DEF MintUnsupported, Sessions, Safe, TypeOK
    <2>2. /\ session[a].refusals <= 1
          /\ session[a].ticket # NoTicket =>
                /\ session[a].refusals = 0
                /\ accountKey(session[a].ticket.token) = a
                /\ session[a].mintedFor = session[a].ticket.token
        BY <1>3, SafeParts DEF SessionsSafe
    <2>3. SessionsSafe'
        BY <1>3, <2>1, <2>2, SafeParts, OneSessionChanged
    <2>4. OneMintPerAccount' /\ StandDownIsQuiet'
        BY <1>7, <1>8, <1>10, <2>1 DEF MintUnsupported
    <2> QED
        BY <1>1, <1>6, <2>3, <2>4, SafeParts, PTL
<1>11. CASE MintFails(m)
    <2>1. OneMintPerAccount' /\ StandDownIsQuiet'
        BY <1>7, <1>8, <1>11 DEF MintFails
    <2>2. SessionsSafe'
        BY <1>11, SafeParts DEF MintFails, SessionsSafe, accountKey, Accounts
    <2> QED
        BY <1>1, <1>6, <2>1, <2>2, SafeParts, PTL
<1>12. CASE MintReturns(m)
    <2>1. /\ \A b \in Accounts \ {a} : session'[b] = session[b]
          /\ SameFields(session[a], session'[a])
          /\ ~session'[a].minting
        BY <1>3, <1>12 DEF MintReturns, Sessions, Safe, TypeOK, SameFields
    <2>2. mint'[m].phase = "idle"
        BY <1>12 DEF MintReturns, IdleMint, Safe, TypeOK
    <2>3. \A b \in Accounts, n \in Mints : b = a => ~MintOf(n, b)'
        BY <1>4, <1>5, <2>2 DEF MintOf, accountKey
    <2>4. \A b \in Accounts \ {a}, n \in Mints : MintOf(n, b)' <=> MintOf(n, b)
        BY <1>5, <2>2 DEF MintOf, accountKey
    <2>5. OneMintPerAccount'
        BY <2>1, <2>3, <2>4 DEF Safe, OneMintPerAccount
    <2>6. StandDownIsQuiet'
        <3>1. \A b \in Accounts : session'[b].standDownUntil = session[b].standDownUntil
            BY <2>1 DEF SameFields
        <3>2. \A n \in Mints : mint'[n].phase = "asking" =>
                mint'[n] = mint[n] /\ accountKey(mint[n].token) \in Accounts
            BY <1>5, <2>2, AccountKeyType DEF Safe, TypeOK
        <3> QED
            BY <3>1, <3>2 DEF Safe, StandDownIsQuiet, accountKey
    <2>7. /\ session'[a].refusals <= 1
          /\ session'[a].ticket # NoTicket =>
                /\ session'[a].refusals = 0
                /\ accountKey(session'[a].ticket.token) = a
                /\ session'[a].mintedFor = session'[a].ticket.token
        BY <1>3, <2>1, SafeParts DEF SessionsSafe, SameFields
    <2>8. SessionsSafe'
        BY <1>3, <2>1, <2>7, SafeParts, OneSessionChanged
    <2> QED
        BY <1>1, <1>6, <2>5, <2>6, <2>8, SafeParts, PTL
<1> QED
    BY <1>9, <1>10, <1>11, <1>12 DEF MintStep

LEMMA TickSafeStep ==
    ASSUME Safe, Tick
    PROVE  Safe'
<1>1. TypeOK'
    BY TickTypeStep DEF Safe
<1>2. \A a \in Accounts :
        /\ session[a].standDownUntil = 0 => session'[a].standDownUntil = 0
        /\ session'[a].ticket = session[a].ticket
        /\ session'[a].mintedFor = session[a].mintedFor
        /\ session'[a].refusals = session[a].refusals
        /\ session'[a].minting = session[a].minting
    <2> TAKE a \in Accounts
    <2>1. session'[a] = [session[a] EXCEPT !.expiresAt = Sooner(@),
                                           !.nextAttempt = Sooner(@),
                                           !.refusedNotBefore = Sooner(@),
                                           !.standDownUntil = Sooner(@)]
        BY DEF Tick
    <2>2. session[a] \in Sessions
        BY DEF Safe, TypeOK
    <2>3. Sooner(0) = 0
        BY DEF Sooner
    <2> QED
        BY <2>1, <2>2, <2>3 DEF Sessions
<1>3. \A r \in Requests :
        request'[r].ticket = request[r].ticket /\ request'[r].token = request[r].token
    BY DEF Tick, Safe, TypeOK, Requesting
<1>4. \A m \in Mints : mint[m].phase = "asking" => accountKey(mint[m].token) \in Accounts
    BY AccountKeyType DEF Safe, TypeOK
<1>5. UNCHANGED mint
    BY DEF Tick
<1>6. OneMintPerAccount' /\ StandDownIsQuiet'
    BY <1>2, <1>4, <1>5 DEF Safe, OneMintPerAccount, StandDownIsQuiet, MintOf, accountKey
<1>7. SessionsSafe' /\ RequestsSafe'
    BY <1>2, <1>3, SafeParts DEF SessionsSafe, RequestsSafe, SameAccount, accountKey, Accounts
<1> QED
    BY <1>1, <1>6, <1>7, SafeParts, PTL

LEMMA SafeStep == Safe /\ [Next]_vars => Safe'
<1> SUFFICES ASSUME Safe, [Next]_vars PROVE Safe'
    OBVIOUS
<1>1. CASE UNCHANGED vars
    <2>1. TypeOK'
        BY <1>1 DEF vars, Safe, TypeOK
    <2>2. OneMintPerAccount' /\ StandDownIsQuiet'
        BY <1>1 DEF vars, Safe, OneMintPerAccount, StandDownIsQuiet, MintOf, accountKey
    <2>3. SessionsSafe' /\ RequestsSafe'
        BY <1>1, SafeParts DEF vars, SessionsSafe, RequestsSafe, SameAccount, accountKey,
            Accounts
    <2> QED
        BY <2>1, <2>2, <2>3, SafeParts, PTL
<1> QED
    BY <1>1, RequestSafeStep, MintSafeStep, TickSafeStep DEF Next

LEMMA AlwaysSafe == Spec => []Safe
BY SafeInit, SafeStep, PTL DEF Spec

\* One mint goroutine at a time for every account, and the flag shows it.
THEOREM OneMint == Spec => []OneMintPerAccount
BY AlwaysSafe, PTL DEF Safe

\* A refusal never starts a stand-down, whatever refusalsBeforeStandDown above
\* one: the count that Refused keeps never passes one.
THEOREM NoStandDownByRefusal == Spec => []RefusalsNeverAddUp
BY AlwaysSafe, PTL DEF Safe

\* No handshake is under way in an account that stands down.
THEOREM QuietStandDown == Spec => []StandDownIsQuiet
BY AlwaysSafe, PTL DEF Safe

\* Tickets are never used for, or kept by, an account they were not minted for.
THEOREM OwnTickets == Spec => []TicketsStayWithTheirAccount
BY AlwaysSafe, PTL DEF Safe

(***************************************************************************)
(* Action properties                                                       *)
(***************************************************************************)

\* A waiting request goes out plain during a mint only when its wait is over:
\* the minting flag tells it of the mint, and a stand-down would have none.
THEOREM PlainOnlyAfterTheWait == Spec => PlainDuringMintOnlyAfterTheWait
<1> DEFINE Step ==
        \A r \in Requests, m \in Mints :
            (/\ request[r].phase = "checking"
             /\ request'[r].phase = "sent"
             /\ mint[m].phase = "asking"
             /\ MintOf(m, accountKey(request[r].token)))
            => request[r].left < 0
<1>1. Safe /\ [Next]_vars => [Step]_vars
    <2> SUFFICES ASSUME Safe, Next,
                        NEW r \in Requests, NEW m \in Mints,
                        request[r].phase = "checking", request'[r].phase = "sent",
                        mint[m].phase = "asking",
                        MintOf(m, accountKey(request[r].token))
                 PROVE  request[r].left < 0
        OBVIOUS
    <2> DEFINE a == accountKey(request[r].token)
    <2>1. a \in Accounts
        BY AccountKeyType DEF Safe, TypeOK
    <2>2. session[a].minting
        BY <2>1 DEF Safe, OneMintPerAccount
    <2>3. session[a].standDownUntil = 0
        BY DEF Safe, StandDownIsQuiet, MintOf
    <2>4. AwaitCheck(r)
        <3>1. CASE \E q \in Requests : RequestStep(q)
            <4>1. PICK q \in Requests : RequestStep(q)
                BY <3>1
            <4>2. \A k \in Requests \ {q} : request'[k] = request[k]
                BY <4>1 DEF RequestStep, SendPlain, SignNow, BeginWait, AwaitCheck,
                    AwaitPoll, Answered, Answered401, Sent, Safe, TypeOK
            <4>3. q = r
                BY <4>2
            <4> QED
                BY <4>1, <4>3 DEF RequestStep, SendPlain, SignNow, BeginWait,
                    AwaitPoll, Answered, Answered401
        <3>2. CASE \E n \in Mints : MintStep(n)
            BY <3>2 DEF MintStep, MintSucceeds, MintUnsupported, MintFails,
                MintReturns, Settle
        <3>3. CASE Tick
            BY <3>3 DEF Tick, Safe, TypeOK, Requesting
        <3> QED
            BY <3>1, <3>2, <3>3 DEF Next
    <2>5. request'[r].phase # "sleeping"
        OBVIOUS
    <2>6. Sent(r, request[r].token, NoTicket)
        <3>1. CASE request' = [request EXCEPT ![r].phase = "sleeping"]
            BY <2>5, <3>1 DEF Safe, TypeOK, Requesting
        <3> QED
            BY <2>4, <3>1 DEF AwaitCheck
    <2>7. \/ MintFailed(session[a]) \/ session[a].standDownUntil > 0
          \/ request[r].left < 0
        <3>1. request' # [request EXCEPT ![r].phase = "sleeping"]
            BY <2>5 DEF Safe, TypeOK, Requesting
        <3> QED
            BY <2>4, <3>1 DEF AwaitCheck
    <2> QED
        BY <2>2, <2>3, <2>7 DEF MintFailed
<1> QED
    BY <1>1, AlwaysSafe, PTL DEF Spec, PlainDuringMintOnlyAfterTheWait

\* A session keeps its ticket through renewal, rotation, failed mints and a
\* stand-down: only expiry and a refusal take it away.
THEOREM TicketOutlivesRenewal == Spec => RenewalKeepsTheTicket
<1> DEFINE Loses(a) == session[a].ticket # NoTicket /\ session'[a].ticket = NoTicket
           Excused(a) == session[a].expiresAt = 0 \/ \E r \in Requests : RefusalOf(r, a)
           Step == \A a \in Accounts : Loses(a) => Excused(a)
<1>1. ASSUME Safe, NEW a \in Accounts, Loses(a), NEW r \in Requests, RequestStep(r)
      PROVE  Excused(a)
    <2>1. UNCHANGED session => FALSE
        BY <1>1
    <2>2. \A tok \in Tokens : UseCredential(tok) => Excused(a)
        BY <1>1, UseCredentialEffect DEF Safe
    <2>3. request[r].phase # "idle" => request[r].token \in Tokens
        BY <1>1 DEF Safe, TypeOK
    <2>4. CASE Answered401(r)
        <3> DEFINE b == accountKey(request[r].token)
        <3>1. request[r].token \in Tokens /\ b \in Accounts /\ Refused(request[r].token)
            BY <2>3, <2>4, AccountKeyType DEF Answered401
        <3>2. PICK s \in Sessions : Kick(b, s, request[r].token)
            BY <1>1, <2>1, <3>1, RefusedEffect DEF Safe
        <3>3. b = a
            BY <1>1, <3>1, <3>2, KickEffect DEF Safe
        <3>4. request'[r].phase = "idle"
            BY <1>1, <2>4 DEF Answered401, IdleRequest, Safe, TypeOK
        <3> QED
            BY <2>4, <3>3, <3>4 DEF Answered401, RefusalOf
    <2>5. CASE \/ AwaitCheck(r) \/ Answered(r)
               \/ \E tok \in Tokens : SendPlain(r, tok)
        BY <2>1, <2>5 DEF AwaitCheck, Answered, SendPlain
    <2>6. CASE \/ AwaitPoll(r)
               \/ \E tok \in Tokens : SignNow(r, tok) \/ BeginWait(r, tok)
        BY <2>2, <2>3, <2>6 DEF AwaitPoll, SignNow, BeginWait
    <2> QED
        BY <1>1, <2>4, <2>5, <2>6 DEF RequestStep
<1>2. ASSUME Safe, NEW a \in Accounts, Loses(a), NEW m \in Mints, MintStep(m)
      PROVE  FALSE
    <2>1. session \in [Accounts -> Sessions] /\ session[a] \in Sessions
        BY <1>1, <1>2 DEF Safe, TypeOK
    <2>2. mint[m].phase # "idle" => mint[m].token \in Tokens
        BY <1>2 DEF Safe, TypeOK
    <2>3. CASE MintSucceeds(m)
        <3>1. mint[m].token \in Tokens
            BY <2>2, <2>3 DEF MintSucceeds, Settle
        <3>2. PICK id \in TicketIds, lifetime \in Lifetimes :
                session' = [session EXCEPT ![accountKey(mint[m].token)] =
                    Granted(@, [token |-> mint[m].token, id |-> id], lifetime)]
            BY <2>3 DEF MintSucceeds
        <3>3. [token |-> mint[m].token, id |-> id] # NoTicket
            BY <3>1, NullAssumption
        <3>4. \/ session'[a].ticket = session[a].ticket
              \/ session'[a].ticket = [token |-> mint[m].token, id |-> id]
            BY <2>1, <3>2 DEF Granted, Sessions
        <3> QED
            BY <1>2, <3>3, <3>4
    <2>4. CASE MintUnsupported(m) \/ MintFails(m) \/ MintReturns(m)
        BY <1>2, <2>1, <2>4 DEF MintUnsupported, MintFails, MintReturns, Sessions
    <2> QED
        BY <1>2, <2>3, <2>4 DEF MintStep
<1>3. ASSUME Safe, NEW a \in Accounts, Loses(a), Tick PROVE FALSE
    <2>1. session[a] \in Sessions /\ session'[a].ticket = session[a].ticket
        <3>1. session'[a] = [session[a] EXCEPT !.expiresAt = Sooner(@),
                                               !.nextAttempt = Sooner(@),
                                               !.refusedNotBefore = Sooner(@),
                                               !.standDownUntil = Sooner(@)]
            BY <1>3 DEF Tick
        <3>2. session[a] \in Sessions
            BY <1>3 DEF Safe, TypeOK
        <3>3. session'[a].ticket = session[a].ticket
            <4> HIDE DEF Loses
            <4> QED
                BY <3>1, <3>2 DEF Sessions
        <3> QED
            BY <3>2, <3>3
    <2> QED
        BY <1>3, <2>1
<1>4. Safe /\ [Next]_vars => [Step]_vars
    BY <1>1, <1>2, <1>3 DEF Next
<1> QED
    BY <1>4, AlwaysSafe, PTL DEF Spec, RenewalKeepsTheTicket

(***************************************************************************)
(* DeviceSession implements MintThrottle.  The inductive invariant is      *)
(* EarlyMintIsPaidFor with the safety invariants of DeviceSession; the     *)
(* step lemma says what any step does to the three things it relates: mint *)
(* starts, nextAttempt, refusedNotBefore.                                  *)
(***************************************************************************)

\* Nothing that matters to the throttle happens to account b.
Quiet(b) ==
    /\ ~StartsMint(b)
    /\ session'[b].nextAttempt = session[b].nextAttempt
    /\ session'[b].refusedNotBefore = session[b].refusedNotBefore

\* A refusal of account b is acted on.
Pays(b) ==
    /\ session[b].refusedNotBefore = 0
    /\ session'[b].refusedNotBefore = RefusedFloor

\* A mint of account b starts: on schedule, or early and paid for.
Starts(b) ==
    /\ StartsMint(b)
    /\ session'[b].nextAttempt = MintCooldown
    /\ \/ /\ session[b].nextAttempt = 0
          /\ session'[b].refusedNotBefore = session[b].refusedNotBefore
       \/ Pays(b)

\* What a step that is not a Tick does to every account's throttle: at most one
\* account is touched, and a mint only starts where none is alive.
ThrottleStep(a) ==
    /\ \A b \in Accounts \ {a} : Quiet(b) /\ (MintAlive(b)' <=> MintAlive(b))
    /\ \/ Starts(a) /\ ~MintAlive(a) /\ MintAlive(a)'
       \/ Quiet(a) /\ (MintAlive(a)' => MintAlive(a))
       \/ ~StartsMint(a) /\ Pays(a) /\ (MintAlive(a)' <=> MintAlive(a))

LEMMA KickThrottle ==
    ASSUME Safe, NEW a \in Accounts, NEW s \in Sessions, NEW tok \in Tokens,
           accountKey(tok) = a, s.minting = session[a].minting, Kick(a, s, tok)
    PROVE  /\ \A b \in Accounts \ {a} : Quiet(b) /\ (MintAlive(b)' <=> MintAlive(b))
           /\ session'[a].refusedNotBefore = s.refusedNotBefore
           /\ \/ /\ StartsMint(a) /\ ~MintAlive(a) /\ MintAlive(a)'
                 /\ s.nextAttempt = 0
                 /\ session'[a].nextAttempt = MintCooldown
              \/ /\ ~StartsMint(a) /\ (MintAlive(a)' <=> MintAlive(a))
                 /\ session'[a].nextAttempt = s.nextAttempt
<1>1. /\ session'[a].refusedNotBefore = s.refusedNotBefore
      /\ \A b \in Accounts \ {a} : session'[b] = session[b]
    BY KickEffect DEF Safe, SameFields
<1>2. CASE KickDue(s, tok)
    <2>1. PICK m \in Mints :
            /\ mint[m].phase = "idle"
            /\ mint' = [mint EXCEPT ![m] = [phase |-> "asking", token |-> tok]]
        BY <1>2 DEF Kick, StartMint
    <2>2. /\ mint'[m].phase = "asking" /\ mint'[m].token = tok
          /\ \A n \in Mints \ {m} : mint'[n] = mint[n]
        BY <2>1 DEF Safe, TypeOK
    <2>3. session'[a].nextAttempt = MintCooldown /\ s.nextAttempt = 0
        BY <1>2 DEF Kick, KickDue, Safe, TypeOK, Sessions
    <2>4. ~MintAlive(a)
        BY <1>2 DEF KickDue, MintAlive, Safe, OneMintPerAccount
    <2>5. StartsMint(a) /\ MintAlive(a)'
        BY <2>1, <2>2 DEF StartsMint, MintAlive, MintOf, accountKey
    <2>6. \A b \in Accounts \ {a} : ~StartsMint(b) /\ (MintAlive(b)' <=> MintAlive(b))
        BY <2>1, <2>2 DEF StartsMint, MintAlive, MintOf, accountKey
    <2> QED
        BY <1>1, <2>3, <2>4, <2>5, <2>6 DEF Quiet
<1>3. CASE ~KickDue(s, tok)
    <2>1. UNCHANGED mint /\ session'[a].nextAttempt = s.nextAttempt
        BY <1>3 DEF Kick, Safe, TypeOK
    <2>2. \A b \in Accounts : ~StartsMint(b) /\ (MintAlive(b)' <=> MintAlive(b))
        BY <2>1 DEF StartsMint, MintAlive, MintOf, accountKey
    <2> QED
        BY <1>1, <2>1, <2>2 DEF Quiet
<1> QED
    BY <1>2, <1>3

LEMMA IdleThrottle ==
    ASSUME UNCHANGED <<session, mint>>, NEW a \in Accounts
    PROVE  ThrottleStep(a)
BY DEF ThrottleStep, Quiet, StartsMint, MintAlive, MintOf, accountKey

LEMMA UseCredentialThrottle ==
    ASSUME Safe, NEW tok \in Tokens, UseCredential(tok)
    PROVE  \E a \in Accounts : ThrottleStep(a)
<1>1. PICK a \in Accounts : a = accountKey(tok)
    BY AccountKeyType
<1> DEFINE s == IF session[a].ticket # NoTicket /\ session[a].expiresAt = 0
                THEN Dropped(session[a]) ELSE session[a]
<1>2. session[a] \in Sessions
    BY DEF Safe, TypeOK
<1>3. /\ s \in Sessions
      /\ s.minting = session[a].minting
      /\ s.nextAttempt = session[a].nextAttempt
      /\ s.refusedNotBefore = session[a].refusedNotBefore
    BY <1>2, DroppedType DEF Dropped, Sessions
<1>4. CASE session[a].standDownUntil > 0
    BY <1>1, <1>4, IdleThrottle DEF UseCredential
<1>5. CASE ~(session[a].standDownUntil > 0)
    <2>1. Kick(a, s, tok)
        BY <1>1, <1>5 DEF UseCredential
    <2> HIDE DEF s
    <2>2. /\ \A b \in Accounts \ {a} : Quiet(b) /\ (MintAlive(b)' <=> MintAlive(b))
          /\ session'[a].refusedNotBefore = session[a].refusedNotBefore
          /\ \/ /\ StartsMint(a) /\ ~MintAlive(a) /\ MintAlive(a)'
                /\ session[a].nextAttempt = 0
                /\ session'[a].nextAttempt = MintCooldown
             \/ /\ ~StartsMint(a) /\ (MintAlive(a)' <=> MintAlive(a))
                /\ session'[a].nextAttempt = session[a].nextAttempt
        BY <1>1, <1>3, <2>1, KickThrottle
    <2>3. ThrottleStep(a)
        BY <2>2 DEF ThrottleStep, Starts, Quiet
    <2> QED
        BY <2>3
<1> QED
    BY <1>4, <1>5

LEMMA RefusedThrottle ==
    ASSUME Safe, NEW tok \in Tokens, Refused(tok)
    PROVE  \E a \in Accounts : ThrottleStep(a)
<1>1. PICK a \in Accounts : a = accountKey(tok)
    BY AccountKeyType
<1>2. CASE UNCHANGED <<session, mint>>
    BY <1>2, IdleThrottle
<1>3. CASE ~UNCHANGED <<session, mint>>
    <2>1. PICK s \in Sessions :
            /\ session[a].refusedNotBefore = 0
            /\ s.minting = session[a].minting
            /\ s.refusedNotBefore = RefusedFloor
            /\ Kick(a, s, tok)
        BY <1>1, <1>3, RefusedEffect DEF Safe
    <2>2. /\ \A b \in Accounts \ {a} : Quiet(b) /\ (MintAlive(b)' <=> MintAlive(b))
          /\ session'[a].refusedNotBefore = RefusedFloor
          /\ \/ /\ StartsMint(a) /\ ~MintAlive(a) /\ MintAlive(a)'
                /\ session'[a].nextAttempt = MintCooldown
             \/ ~StartsMint(a) /\ (MintAlive(a)' <=> MintAlive(a))
        BY <1>1, <2>1, KickThrottle
    <2>3. ThrottleStep(a)
        BY <2>1, <2>2 DEF ThrottleStep, Starts, Pays
    <2> QED
        BY <2>3
<1> QED
    BY <1>2, <1>3

LEMMA RequestThrottle ==
    ASSUME Safe, NEW r \in Requests, RequestStep(r)
    PROVE  UNCHANGED <<session, mint>> \/ \E a \in Accounts : ThrottleStep(a)
<1>1. request[r].phase # "idle" => request[r].token \in Tokens
    BY DEF Safe, TypeOK
<1>2. CASE \E tok \in Tokens : UseCredential(tok)
    BY <1>2, UseCredentialThrottle
<1>3. CASE \E tok \in Tokens : Refused(tok)
    BY <1>3, RefusedThrottle
<1> QED
    BY <1>1, <1>2, <1>3 DEF RequestStep, SendPlain, SignNow, BeginWait, AwaitCheck,
        AwaitPoll, Answered, Answered401

LEMMA MintThrottled ==
    ASSUME Safe, NEW m \in Mints, MintStep(m)
    PROVE  \E a \in Accounts : ThrottleStep(a)
<1>1. mint[m].phase # "idle"
    BY DEF MintStep, MintSucceeds, MintUnsupported, MintFails, MintReturns, Settle
<1>2. mint[m].token \in Tokens
    BY <1>1 DEF Safe, TypeOK
<1>3. PICK a \in Accounts : a = accountKey(mint[m].token)
    BY <1>2, AccountKeyType
<1>4. \A n \in Mints \ {m} : mint'[n] = mint[n]
    BY DEF MintStep, MintSucceeds, MintUnsupported, MintFails, MintReturns, Settle, Safe, TypeOK
<1>5. \A b \in Accounts : ~StartsMint(b)
    BY <1>1, <1>4 DEF StartsMint
<1>6. mint'[m].phase # "idle" => mint'[m].token = mint[m].token
    BY DEF MintStep, MintSucceeds, MintUnsupported, MintFails, MintReturns, Settle,
        IdleMint, Safe, TypeOK, Minting
<1>7. MintAlive(a)' => MintAlive(a)
    BY <1>1, <1>3, <1>4, <1>6 DEF MintAlive, MintOf, accountKey
<1>8. \A b \in Accounts \ {a} : MintAlive(b)' <=> MintAlive(b)
    BY <1>3, <1>4, <1>6 DEF MintAlive, MintOf, accountKey
<1>9. \A b \in Accounts :
        /\ session'[b].nextAttempt = session[b].nextAttempt
        /\ session'[b].refusedNotBefore = session[b].refusedNotBefore
    <2>1. session[a] \in Sessions
        BY DEF Safe, TypeOK
    <2>2. CASE MintSucceeds(m)
        <3>1. PICK tkt \in Ticket, lifetime \in Lifetimes :
                session' = [session EXCEPT ![a] = Granted(session[a], tkt, lifetime)]
            BY <1>2, <1>3, <2>2 DEF MintSucceeds, Ticket, Safe, TypeOK
        <3>2. /\ Granted(session[a], tkt, lifetime).nextAttempt = session[a].nextAttempt
              /\ Granted(session[a], tkt, lifetime).refusedNotBefore
                    = session[a].refusedNotBefore
            BY <2>1 DEF Granted, Sessions
        <3> QED
            BY <3>1, <3>2 DEF Safe, TypeOK
    <2>3. CASE MintUnsupported(m)
        BY <1>3, <2>1, <2>3 DEF MintUnsupported, Safe, TypeOK, Sessions
    <2>4. CASE MintFails(m)
        BY <2>4 DEF MintFails
    <2>5. CASE MintReturns(m)
        BY <1>3, <2>1, <2>5 DEF MintReturns, Safe, TypeOK, Sessions
    <2> QED
        BY <2>2, <2>3, <2>4, <2>5 DEF MintStep
<1>10. ThrottleStep(a)
    BY <1>5, <1>7, <1>8, <1>9 DEF ThrottleStep, Quiet
<1> QED
    BY <1>10

(***************************************************************************)
(* The inductive invariant                                                 *)
(***************************************************************************)

ThrottleInv ==
    /\ lastMint \in [Accounts -> Nat]
    /\ prevMint \in [Accounts -> Nat]
    /\ \A a \in Accounts : lastMint[a] <= MintCooldown
    /\ EarlyMintIsPaidFor

LEMMA ThrottleInvInit == ObservedInit => Safe /\ ThrottleInv
BY SafeInit, TimingAssumption DEF ObservedInit, Init, NewSession, ThrottleInv,
    EarlyMintIsPaidFor

\* The invariant for one account whose timers are na and rnb.
PaidFor(last, prev, na, rnb) ==
    /\ last <= MintCooldown
    /\ prev <= last
    /\ prev > 0 => rnb >= prev /\ na >= last
    /\ na < last => rnb >= last

LEMMA PaidForParts ==
    ThrottleInv <=>
        /\ lastMint \in [Accounts -> Nat]
        /\ prevMint \in [Accounts -> Nat]
        /\ \A a \in Accounts : PaidFor(lastMint[a], prevMint[a],
                session[a].nextAttempt, session[a].refusedNotBefore)
BY DEF ThrottleInv, EarlyMintIsPaidFor, PaidFor

LEMMA ObservedStepKeeps ==
    ASSUME Safe, Safe', ThrottleInv, ObservedStep
    PROVE  /\ ThrottleInv'
           /\ \A a \in Accounts : StartsMint(a) => prevMint[a] = 0
<1>1. \A a \in Accounts :
        Quiet(a) \/ Starts(a) \/ (~StartsMint(a) /\ Pays(a))
    <2>1. CASE UNCHANGED <<session, mint>>
        BY <2>1 DEF Quiet, StartsMint
    <2>2. CASE \E a \in Accounts : ThrottleStep(a)
        BY <2>2 DEF ThrottleStep
    <2> QED
        BY <2>1, <2>2, RequestThrottle, MintThrottled DEF ObservedStep
<1>2. /\ lastMint' \in [Accounts -> Nat]
      /\ prevMint' \in [Accounts -> Nat]
    BY TimingAssumption DEF ObservedStep, ThrottleInv
<1>3. ASSUME NEW a \in Accounts
      PROVE  /\ PaidFor(lastMint'[a], prevMint'[a],
                    session'[a].nextAttempt, session'[a].refusedNotBefore)
             /\ StartsMint(a) => prevMint[a] = 0
    <2> DEFINE na == session[a].nextAttempt
               rnb == session[a].refusedNotBefore
    <2>1. /\ lastMint[a] \in Nat /\ prevMint[a] \in Nat
          /\ na \in Nat /\ rnb \in Nat
          /\ PaidFor(lastMint[a], prevMint[a], na, rnb)
        BY PaidForParts DEF Safe, TypeOK, Sessions
    <2>2. CASE Quiet(a)
        <3>1. lastMint'[a] = lastMint[a] /\ prevMint'[a] = prevMint[a]
            BY <2>2 DEF Quiet, ObservedStep
        <3> QED
            BY <2>1, <2>2, <3>1 DEF Quiet
    <2>3. CASE Starts(a)
        <3>1. lastMint'[a] = MintCooldown /\ prevMint'[a] = lastMint[a]
            BY <2>3 DEF Starts, ObservedStep
        <3>2. prevMint[a] = 0
            BY <2>1, <2>3 DEF Starts, Pays, PaidFor
        <3>3. session'[a].refusedNotBefore >= lastMint[a] \/ lastMint[a] = 0
            BY <2>1, <2>3, TimingAssumption DEF Starts, Pays, PaidFor
        <3>4. session'[a].nextAttempt = MintCooldown
            BY <2>3 DEF Starts
        <3> QED
            BY <2>1, <3>1, <3>2, <3>3, <3>4, TimingAssumption DEF PaidFor
    <2>4. CASE ~StartsMint(a) /\ Pays(a)
        <3>1. lastMint'[a] = lastMint[a] /\ prevMint'[a] = prevMint[a]
            BY <2>4 DEF ObservedStep
        <3>2. prevMint[a] = 0
            BY <2>1, <2>4 DEF Pays, PaidFor
        <3>3. session'[a].refusedNotBefore >= lastMint[a]
            BY <2>1, <2>4, TimingAssumption DEF Pays, PaidFor
        <3> QED
            BY <2>1, <2>4, <3>1, <3>2, <3>3 DEF PaidFor
    <2> QED
        BY <1>1, <2>2, <2>3, <2>4
<1> QED
    BY <1>2, <1>3 DEF ThrottleInv, EarlyMintIsPaidFor, PaidFor, accountKey, Accounts

LEMMA ObservedTickKeeps ==
    ASSUME Safe, ThrottleInv, ObservedTick
    PROVE  ThrottleInv'
<1>1. \A n \in Nat : Sooner(n) = IF n > 0 THEN n - 1 ELSE 0
    BY DEF Sooner
<1>2. /\ lastMint' \in [Accounts -> Nat]
      /\ prevMint' \in [Accounts -> Nat]
    BY <1>1 DEF ObservedTick, ThrottleInv
<1>3. ASSUME NEW a \in Accounts
      PROVE  PaidFor(lastMint'[a], prevMint'[a],
                session'[a].nextAttempt, session'[a].refusedNotBefore)
    <2> DEFINE na == session[a].nextAttempt
               rnb == session[a].refusedNotBefore
    <2>1. /\ lastMint[a] \in Nat /\ prevMint[a] \in Nat
          /\ na \in Nat /\ rnb \in Nat
          /\ PaidFor(lastMint[a], prevMint[a], na, rnb)
        BY PaidForParts DEF Safe, TypeOK, Sessions
    <2>2. session'[a] = [session[a] EXCEPT !.expiresAt = Sooner(@),
                                           !.nextAttempt = Sooner(@),
                                           !.refusedNotBefore = Sooner(@),
                                           !.standDownUntil = Sooner(@)]
        BY DEF ObservedTick, Tick
    <2>3. session[a] \in Sessions
        BY DEF Safe, TypeOK
    <2>4. /\ session'[a].nextAttempt = Sooner(na)
          /\ session'[a].refusedNotBefore = Sooner(rnb)
        BY <2>2, <2>3 DEF Sessions
    <2>5. lastMint'[a] = Sooner(lastMint[a]) /\ prevMint'[a] = Sooner(prevMint[a])
        BY DEF ObservedTick
    <2> QED
        BY <1>1, <2>1, <2>4, <2>5, TimingAssumption DEF PaidFor
<1> QED
    BY <1>2, <1>3 DEF ThrottleInv, EarlyMintIsPaidFor, PaidFor, accountKey, Accounts

LEMMA ObservedSafe == Safe /\ [ObservedNext]_observed => Safe'
<1>1. ObservedNext => Next
    BY DEF ObservedNext, ObservedStep, ObservedTick, Next
<1>2. UNCHANGED observed => UNCHANGED vars
    BY DEF observed, vars
<1> QED
    BY <1>1, <1>2, SafeStep

LEMMA AlwaysThrottled == ObservedSpec => [](Safe /\ ThrottleInv)
<1>1. Safe /\ ThrottleInv /\ [ObservedNext]_observed => ThrottleInv'
    <2> SUFFICES ASSUME Safe, ThrottleInv, [ObservedNext]_observed PROVE ThrottleInv'
        OBVIOUS
    <2>1. Safe'
        BY ObservedSafe
    <2>2. CASE UNCHANGED observed
        BY <2>2 DEF observed, ThrottleInv, EarlyMintIsPaidFor, accountKey, Accounts
    <2> QED
        BY <2>1, <2>2, ObservedStepKeeps, ObservedTickKeeps DEF ObservedNext
<1> QED
    BY <1>1, ThrottleInvInit, ObservedSafe, PTL DEF ObservedSpec

\* The throttle's invariant: who has started two mints within the cooldown
\* cannot start a third, for nextAttempt and refusedNotBefore both wait.
THEOREM PaidForAlways == ObservedSpec => []EarlyMintIsPaidFor
BY AlwaysThrottled, PTL DEF ThrottleInv

(***************************************************************************)
(* Refinement                                                              *)
(***************************************************************************)

LEMMA ThrottleInit == ObservedInit => Throttle!Init
BY DEF ObservedInit, Init, IdleMint, Throttle!Init, MintAlive, MintOf

\* Every step maps to Start of the account that started a mint, to Finish of
\* the one whose last mint returned, to Tick, or to no step.
LEMMA ThrottleNext ==
    ASSUME Safe, Safe', ThrottleInv, ObservedNext
    PROVE  [Throttle!Next]_Throttle!vars
<1> DEFINE busy == [a \in Accounts |-> MintAlive(a)]
<1>1. busy' = [a \in Accounts |-> MintAlive(a)']
    BY DEF Accounts, accountKey
<1>2. lastMint \in [Accounts -> Nat] /\ prevMint \in [Accounts -> Nat]
    BY DEF ThrottleInv
<1>3. \A a \in Accounts :
        /\ MintAlive(a) \in BOOLEAN /\ MintAlive(a)' \in BOOLEAN
        /\ (MintAlive(a)' <=> MintAlive(a)) => MintAlive(a)' = MintAlive(a)
    BY DEF MintAlive
<1> HIDE DEF busy
<1>4. busy = [a \in Accounts |-> MintAlive(a)]
    BY DEF busy
<1>5. CASE ObservedTick
    <2>1. \A a \in Accounts : MintAlive(a)' <=> MintAlive(a)
        BY <1>5 DEF ObservedTick, Tick, MintAlive, MintOf, accountKey
    <2>2. busy' = busy
        BY <1>1, <1>3, <1>4, <2>1
    <2> QED
        BY <1>5, <2>2 DEF busy, ObservedTick, Sooner, Throttle!Next, Throttle!Tick
<1>6. CASE ObservedStep
    <2>1. /\ lastMint' = [b \in Accounts |->
                IF StartsMint(b) THEN MintCooldown ELSE lastMint[b]]
          /\ prevMint' = [b \in Accounts |->
                IF StartsMint(b) THEN lastMint[b] ELSE prevMint[b]]
        BY <1>6 DEF ObservedStep
    <2>2. CASE UNCHANGED <<session, mint>>
        <3>1. \A a \in Accounts : ~StartsMint(a) /\ (MintAlive(a)' <=> MintAlive(a))
            BY <2>2 DEF StartsMint, MintAlive, MintOf, accountKey
        <3>2. busy' = busy
            BY <1>1, <1>3, <1>4, <3>1
        <3>3. lastMint' = lastMint /\ prevMint' = prevMint
            BY <1>2, <2>1, <3>1
        <3> QED
            BY <3>2, <3>3 DEF busy, Throttle!vars
    <2>3. ASSUME NEW a \in Accounts, ThrottleStep(a)
          PROVE  [Throttle!Next]_Throttle!vars
        <3>1. \A b \in Accounts \ {a} :
                ~StartsMint(b) /\ (MintAlive(b)' <=> MintAlive(b))
            BY <2>3 DEF ThrottleStep, Quiet
        <3>2. CASE StartsMint(a)
            <4>1. ~MintAlive(a) /\ MintAlive(a)'
                BY <2>3, <3>2 DEF ThrottleStep, Quiet
            <4>2. prevMint[a] = 0
                BY <1>6, <3>2, ObservedStepKeeps
            <4>3. busy' = [busy EXCEPT ![a] = TRUE]
                BY <1>1, <1>3, <1>4, <3>1, <4>1
            <4>4. /\ lastMint' = [lastMint EXCEPT ![a] = MintCooldown]
                  /\ prevMint' = [prevMint EXCEPT ![a] = lastMint[a]]
                BY <1>2, <2>1, <3>1, <3>2
            <4>5. Throttle!Start(a)
                BY <4>1, <4>2, <4>3, <4>4 DEF busy, Throttle!Start
            <4> QED
                BY <4>5 DEF Throttle!Next
        <3>3. CASE ~StartsMint(a)
            <4>1. lastMint' = lastMint /\ prevMint' = prevMint
                BY <1>2, <2>1, <3>1, <3>3
            <4>2. MintAlive(a)' => MintAlive(a)
                BY <2>3, <3>3 DEF ThrottleStep, Starts
            <4>3. CASE MintAlive(a)' <=> MintAlive(a)
                <5>1. busy' = busy
                    BY <1>1, <1>3, <1>4, <3>1, <4>3
                <5> QED
                    BY <4>1, <5>1 DEF busy, Throttle!vars
            <4>4. CASE MintAlive(a) /\ ~MintAlive(a)'
                <5>1. busy' = [busy EXCEPT ![a] = FALSE]
                    BY <1>1, <1>3, <1>4, <3>1, <4>4
                <5>2. Throttle!Finish(a)
                    BY <4>1, <4>4, <5>1 DEF busy, Throttle!Finish
                <5> QED
                    BY <5>2 DEF Throttle!Next
            <4> QED
                BY <4>2, <4>3, <4>4
        <3> QED
            BY <3>2, <3>3
    <2> QED
        BY <1>6, <2>2, <2>3, RequestThrottle, MintThrottled DEF ObservedStep
<1> QED
    BY <1>5, <1>6 DEF ObservedNext

\* For any instance, an account has one handshake at a time under way and
\* starts no more than two within a mintCooldown.
THEOREM ThrottleImplemented == ObservedSpec => ImplementsThrottle
<1>1. Safe /\ ThrottleInv /\ Safe' /\ [ObservedNext]_observed
        => [Throttle!Next]_Throttle!vars
    <2>1. UNCHANGED observed => UNCHANGED Throttle!vars
        BY DEF observed, Throttle!vars, MintAlive, MintOf, accountKey, Accounts
    <2> QED
        BY <2>1, ThrottleNext
<1> QED
    BY <1>1, ThrottleInit, ObservedSafe, AlwaysThrottled, PTL
        DEF ObservedSpec, ImplementsThrottle, Throttle!Spec

=============================================================================
