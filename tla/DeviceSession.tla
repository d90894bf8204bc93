--------------------------- MODULE DeviceSession ---------------------------
(***************************************************************************)
(* The device-session state machine of internal/relaysig/ticket.go: one    *)
(* ticket per account, minted in the background by a detached goroutine,   *)
(* used by every relay request of the account, renewed ahead of expiry,    *)
(* dropped when the relay answers 401.  A request (Sign, then the HTTP     *)
(* call, then Refused on a 401) runs concurrently with the others and with *)
(* the mint.                                                               *)
(*                                                                         *)
(* A time.Time of the session is kept as the time left until it, 0 once it *)
(* is not in the future; Tick lets one unit pass for everyone.  So the     *)
(* model follows an unbounded run with finitely many states.               *)
(***************************************************************************)
EXTENDS Integers

CONSTANTS
    Tokens,         \* account JWTs; an account has several over its life
    Subjects, Subject, NoSubject,   \* the sub claim of each token, if it has one
    TicketIds,      \* what tells two tickets of one token apart
    Requests,       \* callers of Sign
    Mints,          \* mint goroutines
    NoToken, NoTicket,
    RenewLead, MintCooldown, RefusedFloor, UnsupportedBackoff,
    FirstTicketWait, RefusalsBeforeStandDown,
    Lifetimes       \* what a mint answer may give a ticket to live

\* A subject is never taken for the hash of a token.
ASSUME SubjectAssumption ==
    /\ Subject \in [Tokens -> Subjects \cup {NoSubject}]
    /\ NoSubject \notin Subjects
    /\ Subjects \cap Tokens = {}

ASSUME NullAssumption ==
    /\ NoToken \notin Tokens
    /\ NoTicket \notin [token : Tokens, id : TicketIds]

\* Of the timings only their kind matters, and that a second 401-triggered
\* re-mint is not allowed sooner than a second scheduled one.
ASSUME TimingAssumption ==
    /\ RenewLead \in Nat \ {0} /\ MintCooldown \in Nat \ {0}
    /\ RefusedFloor \in Nat \ {0} /\ UnsupportedBackoff \in Nat \ {0}
    /\ FirstTicketWait \in Nat
    /\ Lifetimes \subseteq Nat
    /\ RefusedFloor >= MintCooldown
    /\ RefusalsBeforeStandDown \in Nat \ {0, 1}

VARIABLES
    session,    \* sessions: the session of every account
    request,    \* where each caller of Sign is, and the ticket it carries
    mint        \* the mint goroutines, phase "idle" when not running

vars == <<session, request, mint>>

\* The subject survives a token rotation; a token without one is a key of its
\* own (its hash).
accountKey(tok) == IF Subject[tok] = NoSubject THEN tok ELSE Subject[tok]

Accounts == {accountKey(tok) : tok \in Tokens}   \* keys of the sessions map

Ticket == [token : Tokens, id : TicketIds]

Sessions ==
    [ticket : Ticket \cup {NoTicket}, mintedFor : Tokens \cup {NoToken},
     expiresAt : Nat, nextAttempt : Nat, refusedNotBefore : Nat,
     standDownUntil : Nat, refusals : Nat, minting : BOOLEAN]

NewSession ==
    [ticket |-> NoTicket, mintedFor |-> NoToken, expiresAt |-> 0,
     nextAttempt |-> 0, refusedNotBefore |-> 0, standDownUntil |-> 0,
     refusals |-> 0, minting |-> FALSE]

\* A request is "checking" at the head of awaitTicket's loop, "sleeping" in
\* it, and "sent" from the moment Sign returns until the relay answers.
\* left is what is left of firstTicketWait, -1 when the deadline is past.
IdleRequest ==
    [phase |-> "idle", token |-> NoToken, left |-> 0, ticket |-> NoTicket]

IdleMint == [phase |-> "idle", token |-> NoToken]

Init ==
    /\ session = [a \in Accounts |-> NewSession]
    /\ request = [r \in Requests |-> IdleRequest]
    /\ mint = [m \in Mints |-> IdleMint]

-----------------------------------------------------------------------------
(* Steps under session.mu *)

StartMint(tok) ==
    \E m \in Mints :
        /\ mint[m].phase = "idle"
        /\ mint' = [mint EXCEPT ![m] = [phase |-> "asking", token |-> tok]]

RenewalDue(s, tok) ==
    \/ s.ticket = NoTicket
    \/ s.mintedFor # tok
    \/ s.expiresAt <= RenewLead

\* Mutants: a kick that forgets the mint under way, or the stand-down.
KickWhileMinting(s, tok) ==
    s.nextAttempt = 0 /\ s.standDownUntil = 0 /\ RenewalDue(s, tok)
KickInStandDown(s, tok) ==
    ~s.minting /\ s.nextAttempt = 0 /\ RenewalDue(s, tok)

KickDue(s, tok) ==
    /\ ~s.minting
    /\ s.nextAttempt = 0
    /\ s.standDownUntil = 0
    /\ RenewalDue(s, tok)

\* Mutant: a kick that leaves nextAttempt alone.
KickUncooled(a, s, tok) ==
    IF KickDue(s, tok)
    THEN session' = [session EXCEPT ![a] = [s EXCEPT !.minting = TRUE]] /\ StartMint(tok)
    ELSE session' = [session EXCEPT ![a] = s] /\ UNCHANGED mint

\* kick, called with the session in state s.
Kick(a, s, tok) ==
    IF KickDue(s, tok)
    THEN /\ session' = [session EXCEPT ![a] =
                [s EXCEPT !.minting = TRUE, !.nextAttempt = MintCooldown]]
         /\ StartMint(tok)
    ELSE /\ session' = [session EXCEPT ![a] = s]
         /\ UNCHANGED mint

Dropped(s) == [s EXCEPT !.ticket = NoTicket, !.mintedFor = NoToken]

Usable(s) ==
    /\ s.standDownUntil = 0
    /\ s.ticket # NoTicket
    /\ s.expiresAt > 0

\* What credential returns.
Credential(s) == IF Usable(s) THEN s.ticket ELSE NoTicket

\* Mutant: the old ticket is given up when its renewal starts.
UseCredentialEagerly(tok) ==
    LET a == accountKey(tok)
        s == session[a]
    IN  IF s.standDownUntil > 0
        THEN UNCHANGED <<session, mint>>
        ELSE Kick(a, IF RenewalDue(s, tok) THEN Dropped(s) ELSE s, tok)

\* What credential does to the session.  The renewal test of its last branch
\* is the one kick repeats, so kick is always asked.
UseCredential(tok) ==
    LET a == accountKey(tok)
        s == session[a]
    IN  IF s.standDownUntil > 0
        THEN UNCHANGED <<session, mint>>
        ELSE Kick(a, IF s.ticket # NoTicket /\ s.expiresAt = 0
                     THEN Dropped(s) ELSE s, tok)

\* The session whose ticket a 401 has dropped.
Charged(s) ==
    [Dropped(s) EXCEPT !.refusedNotBefore = RefusedFloor,
                       !.nextAttempt = 0,
                       !.refusals = @ + 1]

\* Mutant: every 401 drops the ticket, without a floor between two.
RefusedWithoutFloor(tok) ==
    LET a == accountKey(tok)
    IN  IF session[a].ticket = NoTicket
        THEN UNCHANGED <<session, mint>>
        ELSE Kick(a, Charged(session[a]), tok)

\* Refused on a 401.  It is told the account's token, not the refused ticket.
Refused(tok) ==
    LET a == accountKey(tok)
        s == session[a]
    IN  IF s.ticket = NoTicket \/ s.refusedNotBefore > 0
        THEN UNCHANGED <<session, mint>>
        ELSE IF Charged(s).refusals >= RefusalsBeforeStandDown
        THEN /\ session' = [session EXCEPT ![a] =
                    [Charged(s) EXCEPT !.refusals = 0,
                                       !.standDownUntil = UnsupportedBackoff]]
             /\ UNCHANGED mint
        ELSE Kick(a, Charged(s), tok)

-----------------------------------------------------------------------------
(* A request: Sign, the relay call, its status *)

Sent(r, tok, tkt) ==
    request' = [request EXCEPT ![r] =
        [phase |-> "sent", token |-> tok, left |-> 0, ticket |-> tkt]]

\* Sign with device signing switched off leaves the headers alone.
SendPlain(r, tok) ==
    /\ request[r].phase = "idle"
    /\ Sent(r, tok, NoTicket)
    /\ UNCHANGED <<session, mint>>

\* Sign with a ticket in hand; without a usable device key it still goes plain.
SignNow(r, tok) ==
    LET tkt == Credential(session[accountKey(tok)])
    IN  /\ request[r].phase = "idle"
        /\ tkt # NoTicket
        /\ Sent(r, tok, tkt) \/ Sent(r, tok, NoTicket)
        /\ UseCredential(tok)

\* Sign without one enters awaitTicket.
BeginWait(r, tok) ==
    /\ request[r].phase = "idle"
    /\ Credential(session[accountKey(tok)]) = NoTicket
    /\ request' = [request EXCEPT ![r] =
            [phase |-> "checking", token |-> tok, left |-> FirstTicketWait,
             ticket |-> NoTicket]]
    /\ UseCredential(tok)

\* Mutant: a mint under way is taken for a failed one.
MintFailedOrNot(s) == s.ticket = NoTicket /\ s.nextAttempt > 0

\* A mint that ended without a ticket and may not be retried yet has failed.
MintFailed(s) == ~s.minting /\ s.ticket = NoTicket /\ s.nextAttempt > 0

\* Mutant: the wait has no deadline.
AwaitCheckForever(r) ==
    LET s == session[accountKey(request[r].token)]
    IN  /\ request[r].phase = "checking"
        /\ IF MintFailed(s) \/ s.standDownUntil > 0
           THEN Sent(r, request[r].token, NoTicket)
           ELSE request' = [request EXCEPT ![r].phase = "sleeping"]
        /\ UNCHANGED <<session, mint>>

AwaitCheck(r) ==
    LET s == session[accountKey(request[r].token)]
    IN  /\ request[r].phase = "checking"
        /\ IF MintFailed(s) \/ s.standDownUntil > 0 \/ request[r].left < 0
           THEN Sent(r, request[r].token, NoTicket)
           ELSE request' = [request EXCEPT ![r].phase = "sleeping"]
        /\ UNCHANGED <<session, mint>>

AwaitPoll(r) ==
    LET tok == request[r].token
        tkt == Credential(session[accountKey(tok)])
    IN  /\ request[r].phase = "sleeping"
        /\ IF tkt = NoTicket
           THEN request' = [request EXCEPT ![r].phase = "checking"]
           ELSE Sent(r, tok, tkt) \/ Sent(r, tok, NoTicket)
        /\ UseCredential(tok)

\* Any answer but a 401 to a signed request, a transport error included.
Answered(r) ==
    /\ request[r].phase = "sent"
    /\ request' = [request EXCEPT ![r] = IdleRequest]
    /\ UNCHANGED <<session, mint>>

Answered401(r) ==
    /\ request[r].phase = "sent"
    /\ request[r].ticket # NoTicket
    /\ request' = [request EXCEPT ![r] = IdleRequest]
    /\ Refused(request[r].token)

-----------------------------------------------------------------------------
(* The mint goroutine: one answer, then the deferred clearing of minting *)

Settle(m) ==
    /\ mint[m].phase = "asking"
    /\ mint' = [mint EXCEPT ![m].phase = "settled"]
    /\ UNCHANGED request

Fresh(tkt) ==
    /\ \A a \in Accounts : session[a].ticket # tkt
    /\ \A r \in Requests : request[r].ticket # tkt

\* Mutant: the refusals before the ticket left as they were.
GrantedUnforgiven(s, tkt, lifetime) ==
    [s EXCEPT !.ticket = tkt, !.expiresAt = lifetime, !.mintedFor = tkt.token,
              !.standDownUntil = 0]

\* The session once a mint has brought it a ticket.
Granted(s, tkt, lifetime) ==
    [s EXCEPT !.ticket = tkt, !.expiresAt = lifetime, !.mintedFor = tkt.token,
              !.refusals = 0, !.standDownUntil = 0]

MintSucceeds(m) ==
    LET tok == mint[m].token
    IN  /\ Settle(m)
        /\ \E id \in TicketIds, lifetime \in Lifetimes :
            LET tkt == [token |-> tok, id |-> id]
            IN  /\ Fresh(tkt)
                /\ session' = [session EXCEPT ![accountKey(tok)] =
                        Granted(@, tkt, lifetime)]

\* 404 or 501: the relay does not speak the protocol.
MintUnsupported(m) ==
    /\ Settle(m)
    /\ session' = [session EXCEPT ![accountKey(mint[m].token)].standDownUntil =
                        UnsupportedBackoff]

\* Mutant: a failed mint returns without clearing the minting flag.
MintFailsMinting(m) ==
    /\ mint[m].phase = "asking"
    /\ mint' = [mint EXCEPT ![m] = IdleMint]
    /\ UNCHANGED <<session, request>>

\* No device key, a transport error, another status, or an answer without a
\* ticket: the goroutine returns with the session as it was.
MintFails(m) ==
    /\ Settle(m)
    /\ UNCHANGED session

MintReturns(m) ==
    /\ mint[m].phase = "settled"
    /\ mint' = [mint EXCEPT ![m] = IdleMint]
    /\ session' = [session EXCEPT ![accountKey(mint[m].token)].minting = FALSE]
    /\ UNCHANGED request

-----------------------------------------------------------------------------

Sooner(n) == IF n > 0 THEN n - 1 ELSE 0

\* One unit of time passes.
Tick ==
    /\ session' = [a \in Accounts |->
            [session[a] EXCEPT !.expiresAt = Sooner(@),
                               !.nextAttempt = Sooner(@),
                               !.refusedNotBefore = Sooner(@),
                               !.standDownUntil = Sooner(@)]]
    /\ request' = [r \in Requests |->
            IF request[r].phase \in {"checking", "sleeping"} /\ request[r].left >= 0
            THEN [request[r] EXCEPT !.left = @ - 1]
            ELSE request[r]]
    /\ UNCHANGED mint

RequestStep(r) ==
    \/ \E tok \in Tokens : SendPlain(r, tok) \/ SignNow(r, tok) \/ BeginWait(r, tok)
    \/ AwaitCheck(r)
    \/ AwaitPoll(r)
    \/ Answered(r)
    \/ Answered401(r)

MintStep(m) ==
    \/ MintSucceeds(m)
    \/ MintUnsupported(m)
    \/ MintFails(m)
    \/ MintReturns(m)

Next ==
    \/ \E r \in Requests : RequestStep(r)
    \/ \E m \in Mints : MintStep(m)
    \/ Tick

Spec == Init /\ [][Next]_vars

-----------------------------------------------------------------------------
(* Safety *)

Requesting ==
    [phase : {"idle", "checking", "sleeping", "sent"},
     token : Tokens \cup {NoToken}, left : Nat \cup {-1},
     ticket : Ticket \cup {NoTicket}]

Minting == [phase : {"idle", "asking", "settled"}, token : Tokens \cup {NoToken}]

\* The state has its types; who is not idle has a token, and only a request
\* that was sent carries a ticket.
TypeOK ==
    /\ session \in [Accounts -> Sessions]
    /\ request \in [Requests -> Requesting]
    /\ mint \in [Mints -> Minting]
    /\ \A r \in Requests :
        /\ request[r].phase # "idle" => request[r].token \in Tokens
        /\ request[r].phase # "sent" => request[r].ticket = NoTicket
    /\ \A m \in Mints : mint[m].phase # "idle" => mint[m].token \in Tokens

MintOf(m, a) == mint[m].phase # "idle" /\ accountKey(mint[m].token) = a

\* The minting flag is up exactly while a mint goroutine of the account is
\* alive, and there is never a second one (kick, mint's deferred function).
OneMintPerAccount ==
    \A a \in Accounts :
        /\ session[a].minting <=> \E m \in Mints : MintOf(m, a)
        /\ \A m, n \in Mints : MintOf(m, a) /\ MintOf(n, a) => m = n

\* An account that stands down has no handshake with the relay under way:
\* neither a caller nor a late 401 starts one (kick's stand-down guard).
StandDownIsQuiet ==
    \A m \in Mints :
        mint[m].phase = "asking" => session[accountKey(mint[m].token)].standDownUntil = 0

SameAccount(t, u) == t = u \/ (Subject[t] = Subject[u] /\ Subject[t] # NoSubject)

\* A session remembers which token its ticket was minted for, and a request
\* never carries a ticket minted for another account's token (accountKey).
TicketsStayWithTheirAccount ==
    /\ \A a \in Accounts : session[a].ticket # NoTicket =>
        /\ accountKey(session[a].ticket.token) = a
        /\ session[a].mintedFor = session[a].ticket.token
    /\ \A r \in Requests : request[r].ticket # NoTicket =>
        SameAccount(request[r].ticket.token, request[r].token)

\* Refusals never add up: a refusal is counted only against a ticket, and the
\* mint that brings a ticket forgets the refusals before it.  So the count
\* that Refused compares with refusalsBeforeStandDown is always 1.
RefusalsNeverAddUp ==
    \A a \in Accounts :
        /\ session[a].refusals <= 1
        /\ session[a].ticket # NoTicket => session[a].refusals = 0

-----------------------------------------------------------------------------
(* What a step may never do *)

\* The relay refuses the signed request r of account a in this step.
RefusalOf(r, a) ==
    /\ request[r].phase = "sent"
    /\ request[r].ticket # NoTicket
    /\ request'[r].phase = "idle"
    /\ accountKey(request[r].token) = a

\* A session loses its ticket to expiry or to a refusal only: renewal, a token
\* rotation, a failed mint and stand-down all leave the ticket in hand.
RenewalKeepsTheTicket ==
    [][\A a \in Accounts :
        session[a].ticket # NoTicket /\ session'[a].ticket = NoTicket
            => session[a].expiresAt = 0 \/ \E r \in Requests : RefusalOf(r, a)]_vars

\* An unsigned request is a sure 401 while the first mint is in flight, so a
\* waiting request goes out plain during one only when its wait is over.
PlainDuringMintOnlyAfterTheWait ==
    [][\A r \in Requests, m \in Mints :
        (/\ request[r].phase = "checking"
         /\ request'[r].phase = "sent"
         /\ mint[m].phase = "asking"
         /\ MintOf(m, accountKey(request[r].token)))
        => request[r].left < 0]_vars

=============================================================================
