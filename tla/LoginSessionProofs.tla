------------------------- MODULE LoginSessionProofs ------------------------
(***************************************************************************)
(* Proofs about LoginSession, for any number of logins, handlers and       *)
(* polls at once.                                                          *)
(***************************************************************************)
EXTENDS LoginSession, FiniteSetTheorems, TLAPS

LEMMA PrunedType ==
    ASSUME TypeOK
    PROVE  /\ Pruned \in [States -> Sessions]
           /\ \A s \in States :
                /\ Pruned[s].started = login[s].started
                /\ Pruned[s].listed => login[s].listed
                /\ Pruned[s].email = login[s].email
                /\ Pruned[s].codeSent = login[s].codeSent
                /\ Pruned[s].attempts = login[s].attempts
                /\ Pruned[s].tokens = login[s].tokens
                /\ Pruned[s].failed = login[s].failed
<1>1. ASSUME NEW s \in States
      PROVE  /\ [login[s] EXCEPT !.listed = Live(s)] \in Sessions
             /\ Pruned[s] = [login[s] EXCEPT !.listed = Live(s)]
             /\ login[s] \in Sessions
             /\ Live(s) => login[s].listed
    <2>1. login[s] \in Sessions /\ Live(s) \in BOOLEAN
        BY DEF TypeOK, Live
    <2> QED
        BY <2>1 DEF Pruned, Live, Sessions
<1>2. Pruned \in [States -> Sessions]
    BY <1>1 DEF Pruned
<1>3. \A s \in States :
        /\ Pruned[s].started = login[s].started
        /\ Pruned[s].listed => login[s].listed
        /\ Pruned[s].email = login[s].email
        /\ Pruned[s].codeSent = login[s].codeSent
        /\ Pruned[s].attempts = login[s].attempts
        /\ Pruned[s].tokens = login[s].tokens
        /\ Pruned[s].failed = login[s].failed
    <2> TAKE s \in States
    <2>1. /\ login[s] \in Sessions
          /\ Pruned[s] = [login[s] EXCEPT !.listed = Live(s)]
          /\ Live(s) => login[s].listed
        BY <1>1
    <2> QED
        BY <2>1 DEF Sessions
<1> QED
    BY <1>2, <1>3

LEMMA TypeInit == Init => TypeOK
BY NullAssumption DEF Init, TypeOK, NewSession, IdleHandler, IdlePoller, Sessions

\* What a step does to the logins: none of them is forgotten to have started,
\* and a code is never sent without an email.
LoginsOK ==
    /\ login \in [States -> Sessions]
    /\ \A s \in States :
        /\ login[s].listed => login[s].started
        /\ login[s].codeSent => login[s].email \in Emails

StartedStay == \A s \in States : login[s].started => login'[s].started

HandlersOK ==
    /\ handler \in [Handlers ->
            [phase : {"idle", "asking", "sent", "booking", "failing", "verifying",
                      "accepted", "refused"},
             state : States \cup {NoState}, email : Emails \cup {NoEmail}]]
    /\ \A h \in Handlers :
        /\ handler[h].phase # "idle" =>
            handler[h].state \in States /\ login[handler[h].state].started
        /\ handler[h].phase \in {"asking", "sent", "verifying", "accepted", "refused"} =>
            handler[h].email \in Emails

PollersOK ==
    /\ poller \in [Pollers -> [phase : {"idle", "found"}, state : States \cup {NoState}]]
    /\ \A p \in Pollers :
        poller[p].phase # "idle" =>
            poller[p].state \in States /\ login[poller[p].state].started

LEMMA TypeParts ==
    TypeOK <=> /\ LoginsOK /\ HandlersOK /\ PollersOK
               /\ guesses \in [States -> [Emails -> Nat]] /\ handed \in [States -> Nat]
BY DEF TypeOK, LoginsOK, HandlersOK, PollersOK

LEMMA TypeAssembled ==
    ASSUME LoginsOK', HandlersOK', PollersOK',
           guesses' \in [States -> [Emails -> Nat]], handed' \in [States -> Nat]
    PROVE  TypeOK'
BY DEF TypeOK, LoginsOK, HandlersOK, PollersOK

LEMMA CountsType ==
    ASSUME TypeOK
    PROVE  guesses \in [States -> [Emails -> Nat]] /\ handed \in [States -> Nat]
BY DEF TypeOK

LEMMA LoginsPruned ==
    ASSUME TypeOK, login' = Pruned
    PROVE  LoginsOK' /\ StartedStay
BY PrunedType DEF TypeOK, LoginsOK, StartedStay

\* A step that writes one login.
LEMMA LoginWritten ==
    ASSUME TypeOK, NEW s \in States, NEW t \in Sessions,
           t.started = login[s].started, t.listed => login[s].listed,
           t.codeSent => t.email \in Emails,
           login' = [login EXCEPT ![s] = t]
    PROVE  LoginsOK' /\ StartedStay
BY DEF TypeOK, LoginsOK, StartedStay

\* A step that writes every login.
LEMMA LoginsKept ==
    ASSUME TypeOK, NEW f \in [States -> Sessions], login' = f,
           \A s \in States :
                /\ f[s].listed => login[s].listed
                /\ f[s].started = login[s].started
                /\ f[s].codeSent = login[s].codeSent
                /\ f[s].email = login[s].email
    PROVE  LoginsOK' /\ StartedStay
BY DEF TypeOK, LoginsOK, StartedStay

\* A handler or a poll that does not move stays well typed.
LEMMA HandlersStay ==
    ASSUME TypeOK, StartedStay, UNCHANGED handler
    PROVE  HandlersOK'
BY DEF TypeOK, HandlersOK, StartedStay

LEMMA PollersStay ==
    ASSUME TypeOK, StartedStay, UNCHANGED poller
    PROVE  PollersOK'
BY DEF TypeOK, PollersOK, StartedStay

LEMMA HandlerLeaves ==
    ASSUME TypeOK, StartedStay, NEW h \in Handlers, Leave(h)
    PROVE  HandlersOK'
BY DEF TypeOK, HandlersOK, StartedStay, Leave, IdleHandler

\* So does one that works on, on the login it has.
LEMMA HandlerMoves ==
    ASSUME TypeOK, StartedStay, NEW h \in Handlers, handler[h].phase # "idle",
           NEW phase \in {"sent", "failing", "accepted", "refused"},
           phase # "failing" => handler[h].email \in Emails,
           handler' = [handler EXCEPT ![h].phase = phase]
    PROVE  HandlersOK'
<1>1. /\ handler'[h].phase = phase
      /\ handler'[h].state = handler[h].state
      /\ handler'[h].email = handler[h].email
    BY DEF TypeOK
<1>2. \A g \in Handlers \ {h} : handler'[g] = handler[g]
    BY DEF TypeOK
<1>3. handler' \in [Handlers ->
            [phase : {"idle", "asking", "sent", "booking", "failing", "verifying",
                      "accepted", "refused"},
             state : States \cup {NoState}, email : Emails \cup {NoEmail}]]
    BY DEF TypeOK
<1>4. handler[h].state \in States /\ login'[handler[h].state].started
    BY DEF TypeOK, StartedStay
<1>5. ASSUME NEW g \in Handlers
      PROVE  /\ handler'[g].phase # "idle" =>
                handler'[g].state \in States /\ login'[handler'[g].state].started
             /\ handler'[g].phase \in {"asking", "sent", "verifying", "accepted", "refused"} =>
                handler'[g].email \in Emails
    <2>1. CASE g = h
        BY <1>1, <1>4, <2>1
    <2>2. CASE g # h
        BY <1>2, <2>2 DEF TypeOK, StartedStay
    <2> QED
        BY <2>1, <2>2
<1> QED
    BY <1>3, <1>5 DEF HandlersOK

LEMMA HandlerTypeStep ==
    ASSUME TypeOK, NEW h \in Handlers, HandlerStep(h)
    PROVE  TypeOK'
<1>1. UNCHANGED <<poller, handed>>
    BY DEF HandlerStep, AskVerify, AskCode, Enter, CodeGoesOut, MarkCodeSent, CodeNotSent,
        NextAttempt, Fail, CodeJudged, Complete, VerifyRefused
<1>2. handler[h].phase # "idle" =>
        handler[h].state \in States /\ login[handler[h].state] \in Sessions
            /\ login[handler[h].state].started
    BY DEF TypeOK
<1>3. ASSUME NEW s \in States, NEW phase \in {"asking", "booking"},
             NEW e \in Emails \cup {NoEmail}, phase = "asking" => e \in Emails,
             Enter(h, s, phase, e)
      PROVE  TypeOK'
    <2>1. LoginsOK' /\ StartedStay
        BY <1>3, LoginsPruned DEF Enter
    <2>2. login[s].started
        BY <1>3 DEF Enter, Live, TypeOK
    <2>3. HandlersOK'
        BY <1>3, <2>1, <2>2 DEF Enter, TypeOK, HandlersOK, StartedStay
    <2> QED
        BY <1>1, <1>3, <2>1, <2>3, PollersStay, CountsType, TypeAssembled DEF Enter
<1>4. ASSUME MarkCodeSent(h) PROVE TypeOK'
    <2>1. handler[h].email \in Emails
        BY <1>4 DEF MarkCodeSent, TypeOK
    <2>2. LoginsOK' /\ StartedStay
        <3> DEFINE s == handler[h].state
                   t == [login[s] EXCEPT !.email = handler[h].email, !.codeSent = TRUE,
                                         !.attempts = 0]
        <3>1. s \in States /\ login[s] \in Sessions
            BY <1>2, <1>4 DEF MarkCodeSent
        <3>2. /\ t \in Sessions /\ t.started = login[s].started
              /\ t.listed = login[s].listed /\ t.email \in Emails
            BY <2>1, <3>1 DEF Sessions
        <3>3. login' = [login EXCEPT ![s] = t]
            BY <1>4 DEF MarkCodeSent
        <3> HIDE DEF t, s
        <3> QED
            BY <3>1, <3>2, <3>3, LoginWritten
    <2> QED
        BY <1>1, <1>4, <2>2, HandlerLeaves, PollersStay, CountsType,
            TypeAssembled DEF MarkCodeSent
<1>5. ASSUME CodeNotSent(h) \/ VerifyRefused(h) PROVE TypeOK'
    <2>1. LoginsOK' /\ StartedStay /\ UNCHANGED guesses
        BY <1>5 DEF CodeNotSent, VerifyRefused, TypeOK, LoginsOK, StartedStay
    <2> QED
        BY <1>1, <1>5, <2>1, HandlerLeaves, PollersStay, CountsType,
            TypeAssembled DEF CodeNotSent, VerifyRefused
<1>6. ASSUME NextAttempt(h) PROVE TypeOK'
    <2> DEFINE s == handler[h].state
    <2>1. s \in States /\ login[s] \in Sessions /\ login[s].started
        BY <1>2, <1>6 DEF NextAttempt
    <2>2. \E n \in Nat : login' = [login EXCEPT ![s].attempts = n]
        <3>1. login[s].attempts \in Nat
            BY <2>1 DEF Sessions
        <3>2. login[s].attempts + 1 \in Nat
            BY <3>1
        <3> HIDE DEF s
        <3> QED
            BY <1>6, <3>1, <3>2 DEF NextAttempt, s
    <2>3. LoginsOK' /\ StartedStay
        <3>1. PICK n \in Nat : login' = [login EXCEPT ![s].attempts = n]
            BY <2>2
        <3> DEFINE t == [login[s] EXCEPT !.attempts = n]
        <3>2. /\ t \in Sessions /\ t.started = login[s].started
              /\ t.listed = login[s].listed /\ t.codeSent = login[s].codeSent
              /\ t.email = login[s].email
            BY <2>1 DEF Sessions
        <3>3. login' = [login EXCEPT ![s] = t]
            BY <3>1
        <3>4. login[s].codeSent => login[s].email \in Emails
            BY <2>1 DEF TypeOK
        <3> HIDE DEF t, s
        <3> QED
            BY <2>1, <3>2, <3>3, <3>4, LoginWritten
    <2>5. HandlersOK'
        <3>1. CASE Leave(h)
            BY <2>3, <3>1, HandlerLeaves
        <3>2. CASE handler' = [handler EXCEPT ![h].phase = "failing"]
            <4>1. handler[h].phase # "idle"
                BY <1>6 DEF NextAttempt
            <4> QED
                BY <2>3, <3>2, <4>1, HandlerMoves
        <3>3. CASE /\ CodeWasSent(s)
                   /\ handler' = [handler EXCEPT ![h] =
                        [phase |-> "verifying", state |-> s, email |-> login[s].email]]
            <4>1. login[s].email \in Emails
                BY <2>1, <3>3 DEF CodeWasSent, TypeOK
            <4> QED
                BY <2>1, <2>3, <3>3, <4>1 DEF TypeOK, HandlersOK, StartedStay
        <3> QED
            BY <1>6, <3>1, <3>2, <3>3 DEF NextAttempt
    <2> QED
        BY <1>1, <1>6, <2>3, <2>5, PollersStay, CountsType, TypeAssembled DEF NextAttempt
<1>7. ASSUME Fail(h) \/ Complete(h) PROVE TypeOK'
    <2>1. LoginsOK' /\ StartedStay /\ UNCHANGED guesses
        <3> DEFINE s == handler[h].state
        <3>1. s \in States /\ login[s] \in Sessions
            BY <1>2, <1>7 DEF Fail, Complete
        <3>2. login[s].codeSent => login[s].email \in Emails
            BY <3>1 DEF TypeOK
        <3>3. CASE Fail(h)
            <4> DEFINE t == [login[s] EXCEPT !.failed = TRUE]
            <4>1. /\ t \in Sessions /\ t.started = login[s].started
                  /\ t.listed = login[s].listed /\ t.codeSent = login[s].codeSent
                  /\ t.email = login[s].email
                BY <3>1 DEF Sessions
            <4>2. login' = [login EXCEPT ![s] = t] /\ UNCHANGED guesses
                BY <3>3 DEF Fail
            <4> HIDE DEF t, s
            <4> QED
                BY <3>1, <3>2, <4>1, <4>2, LoginWritten
        <3>4. CASE Complete(h)
            <4> DEFINE t == [login[s] EXCEPT !.tokens = TRUE]
            <4>3. /\ t \in Sessions /\ t.started = login[s].started
                  /\ t.listed = login[s].listed /\ t.codeSent = login[s].codeSent
                  /\ t.email = login[s].email
                BY <3>1 DEF Sessions
            <4>4. login' = [login EXCEPT ![s] = t] /\ UNCHANGED guesses
                BY <3>4 DEF Complete
            <4> HIDE DEF t, s
            <4> QED
                BY <3>1, <3>2, <4>3, <4>4, LoginWritten
        <3> QED
            BY <1>7, <3>3, <3>4
    <2> QED
        BY <1>1, <1>7, <2>1, HandlerLeaves, PollersStay, CountsType,
            TypeAssembled DEF Fail, Complete
<1>8. ASSUME CodeGoesOut(h) \/ CodeJudged(h) PROVE TypeOK'
    <2> DEFINE s == handler[h].state
               e == handler[h].email
    <2>1. s \in States /\ e \in Emails /\ login[s].started /\ guesses[s][e] \in Nat
        BY <1>8 DEF CodeGoesOut, CodeJudged, TypeOK
    <2>2. PICK n \in Nat : guesses' = [guesses EXCEPT ![s][e] = n]
        <3>1. guesses[s][e] + 1 \in Nat
            BY <2>1
        <3>2. \/ guesses' = [guesses EXCEPT ![s][e] = 0]
              \/ guesses' = [guesses EXCEPT ![s][e] = guesses[s][e] + 1]
            BY <1>8 DEF CodeGoesOut, CodeJudged
        <3> QED
            BY <3>1, <3>2
    <2>3. guesses' \in [States -> [Emails -> Nat]]
        BY <2>1, <2>2 DEF TypeOK
    <2>4. LoginsOK' /\ StartedStay
        BY <1>8 DEF CodeGoesOut, CodeJudged, TypeOK, LoginsOK, StartedStay
    <2>5. PICK phase \in {"sent", "accepted", "refused"} :
            handler' = [handler EXCEPT ![h].phase = phase]
        BY <1>8 DEF CodeGoesOut, CodeJudged
    <2>6. HandlersOK'
        <3>1. handler[h].phase # "idle"
            BY <1>8 DEF CodeGoesOut, CodeJudged
        <3> QED
            BY <2>1, <2>4, <2>5, <3>1, HandlerMoves
    <2> QED
        BY <1>1, <2>3, <2>4, <2>6, PollersStay, CountsType, TypeAssembled
<1> QED
    BY <1>3, <1>4, <1>5, <1>6, <1>7, <1>8 DEF HandlerStep, AskVerify, AskCode

LEMMA PollTypeStep ==
    ASSUME TypeOK, NEW p \in Pollers, PollStep(p)
    PROVE  TypeOK'
<1>1. UNCHANGED <<handler, guesses>>
    BY DEF PollStep, PollLookup, PollEmpty, PollTokens
<1>2. ASSUME NEW s \in States, PollLookup(p, s) PROVE TypeOK'
    <2>1. LoginsOK' /\ StartedStay
        BY <1>2, LoginsPruned DEF PollLookup
    <2>2. login[s].started
        BY <1>2 DEF PollLookup, Live, TypeOK
    <2>3. PollersOK'
        BY <1>2, <2>1, <2>2 DEF PollLookup, IdlePoller, TypeOK, PollersOK, StartedStay
    <2> QED
        BY <1>1, <1>2, <2>1, <2>3, HandlersStay, CountsType, TypeAssembled DEF PollLookup
<1>3. ASSUME PollEmpty(p) PROVE TypeOK'
    <2>1. LoginsOK' /\ StartedStay /\ UNCHANGED handed
        BY <1>3 DEF PollEmpty, TypeOK, LoginsOK, StartedStay
    <2>2. PollersOK'
        BY <1>3, <2>1 DEF PollEmpty, IdlePoller, TypeOK, PollersOK, StartedStay
    <2> QED
        BY <1>1, <2>1, <2>2, HandlersStay, CountsType, TypeAssembled
<1>4. ASSUME PollTokens(p) PROVE TypeOK'
    <2> DEFINE s == poller[p].state
    <2>1. s \in States /\ login[s] \in Sessions /\ login[s].started
        BY <1>4 DEF PollTokens, TypeOK
    <2>2. LoginsOK' /\ StartedStay
        <3> DEFINE t == [login[s] EXCEPT !.listed = FALSE]
        <3>1. /\ t \in Sessions /\ t.started = login[s].started
              /\ ~t.listed /\ t.codeSent = login[s].codeSent
              /\ t.email = login[s].email
            BY <2>1 DEF Sessions
        <3>2. login' = [login EXCEPT ![s] = t]
            BY <1>4 DEF PollTokens, Consumed
        <3>3. login[s].codeSent => login[s].email \in Emails
            BY <2>1 DEF TypeOK
        <3> HIDE DEF t, s
        <3> QED
            BY <2>1, <3>1, <3>2, <3>3, LoginWritten
    <2>5. PollersOK'
        BY <1>4, <2>1, <2>2 DEF PollTokens, IdlePoller, TypeOK, PollersOK, StartedStay
    <2>6. handed' \in [States -> Nat]
        BY <1>4, <2>1 DEF PollTokens, TypeOK
    <2> QED
        BY <1>1, <2>2, <2>5, <2>6, HandlersStay, CountsType, TypeAssembled
<1> QED
    BY <1>2, <1>3, <1>4 DEF PollStep

LEMMA OtherTypeStep ==
    ASSUME TypeOK, (\E s \in States : LoginStart(s)) \/ LookupMiss \/ Shutdown \/ Tick
    PROVE  TypeOK'
<1>1. UNCHANGED <<handler, poller, guesses, handed>>
    BY DEF LoginStart, LookupMiss, Shutdown, Tick
<1>2. ASSUME LoginsOK', StartedStay PROVE TypeOK'
    BY <1>1, <1>2, HandlersStay, PollersStay, CountsType, TypeAssembled
<1>3. CASE LookupMiss
    BY <1>2, <1>3, LoginsPruned DEF LookupMiss
<1>4. ASSUME NEW s \in States, LoginStart(s) PROVE TypeOK'
    <2> DEFINE t == [NewSession EXCEPT !.started = TRUE, !.listed = TRUE, !.left = SessionTTL]
    <2>1. t \in Sessions /\ t.started /\ ~t.codeSent
        BY LimitAssumption DEF NewSession, Sessions
    <2>2. login' = [Pruned EXCEPT ![s] = t]
        BY <1>4 DEF LoginStart
    <2> HIDE DEF t
    <2>3. LoginsOK' /\ StartedStay
        BY <2>1, <2>2, PrunedType DEF TypeOK, LoginsOK, StartedStay
    <2> QED
        BY <1>2, <2>3
<1>5. CASE Shutdown
    <2> DEFINE shut == [s \in States |-> [login[s] EXCEPT !.listed = FALSE]]
    <2>1. ASSUME NEW s \in States
          PROVE  /\ shut[s] \in Sessions /\ ~shut[s].listed
                 /\ shut[s].started = login[s].started
                 /\ shut[s].codeSent = login[s].codeSent
                 /\ shut[s].email = login[s].email
        <3>1. login[s] \in Sessions
            BY DEF TypeOK
        <3> QED
            BY <3>1 DEF Sessions
    <2>2. shut \in [States -> Sessions]
        BY <2>1
    <2>3. login' = shut
        BY <1>5 DEF Shutdown
    <2> HIDE DEF shut
    <2> QED
        BY <1>2, <2>1, <2>2, <2>3, LoginsKept
<1>6. CASE Tick
    <2> DEFINE less(s) == IF login[s].left > 0 THEN login[s].left - 1 ELSE 0
               aged == [s \in States |-> [login[s] EXCEPT !.left = less(s)]]
    <2>1. ASSUME NEW s \in States
          PROVE  /\ aged[s] \in Sessions /\ aged[s].listed = login[s].listed
                 /\ aged[s].started = login[s].started
                 /\ aged[s].codeSent = login[s].codeSent
                 /\ aged[s].email = login[s].email
        <3>1. login[s] \in Sessions
            BY DEF TypeOK
        <3>2. login[s].left \in Nat
            BY <3>1 DEF Sessions
        <3>3. less(s) \in Nat
            BY <3>2
        <3> HIDE DEF less
        <3> QED
            BY <3>1, <3>3 DEF Sessions
    <2>2. aged \in [States -> Sessions]
        BY <2>1
    <2>3. login' = aged
        BY <1>6 DEF Tick
    <2> HIDE DEF aged
    <2> QED
        BY <1>2, <2>1, <2>2, <2>3, LoginsKept
<1> QED
    BY <1>3, <1>4, <1>5, <1>6

LEMMA TypeStep == TypeOK /\ [Next]_vars => TypeOK'
<1> SUFFICES ASSUME TypeOK, [Next]_vars PROVE TypeOK'
    OBVIOUS
<1>1. CASE UNCHANGED vars
    BY <1>1 DEF vars, TypeOK
<1> QED
    BY <1>1, HandlerTypeStep, PollTypeStep, OtherTypeStep DEF Next

\* Every state has its types, for any instance.
THEOREM TypeCorrect == Spec => []TypeOK
BY TypeInit, TypeStep, PTL DEF Spec

(***************************************************************************)
(* What any step does to one login                                         *)
(***************************************************************************)

LoginStep(s) ==
    /\ login[s].started => login'[s].started
    /\ login'[s].listed => login[s].listed \/ ~login[s].started
    /\ \/ handed'[s] = handed[s]
       \/ handed'[s] = handed[s] + 1 /\ login'[s].started /\ ~login'[s].listed

LEMMA PrunedStep ==
    ASSUME TypeOK, login' = Pruned, UNCHANGED handed
    PROVE  \A s \in States : LoginStep(s)
BY PrunedType DEF LoginStep

LEMMA SameStep ==
    ASSUME UNCHANGED <<login, handed>>
    PROVE  \A s \in States : LoginStep(s)
BY DEF LoginStep

LEMMA HandlerEffect ==
    ASSUME TypeOK, NEW h \in Handlers, HandlerStep(h)
    PROVE  \A s \in States : LoginStep(s)
<1> DEFINE u == handler[h].state
<1>1. handler[h].phase # "idle" =>
        u \in States /\ login[u] \in Sessions /\ login[u].started
    BY DEF TypeOK
<1>2. CASE (\E s \in States : AskVerify(h, s) \/ \E e \in Emails : AskCode(h, s, e))
    BY <1>2, PrunedStep DEF AskVerify, AskCode, Enter
<1>3. CASE CodeGoesOut(h) \/ CodeNotSent(h) \/ CodeJudged(h) \/ VerifyRefused(h)
    BY <1>3, SameStep DEF CodeGoesOut, CodeNotSent, CodeJudged, VerifyRefused
<1>4. ASSUME MarkCodeSent(h) \/ NextAttempt(h) \/ Fail(h) \/ Complete(h)
      PROVE  \A s \in States : LoginStep(s)
    <2>1. /\ u \in States /\ login[u] \in Sessions /\ login[u].started
          /\ UNCHANGED handed
        BY <1>1, <1>4 DEF MarkCodeSent, NextAttempt, Fail, Complete
    <2>2. /\ login'[u].started = login[u].started
          /\ login'[u].listed = login[u].listed
          /\ \A s \in States \ {u} : login'[s] = login[s]
        <3>1. CASE MarkCodeSent(h)
            BY <2>1, <3>1 DEF MarkCodeSent, TypeOK, Sessions
        <3>2. CASE NextAttempt(h)
            <4>1. PICK n : login' = [login EXCEPT ![u].attempts = n]
                BY <3>2 DEF NextAttempt
            <4> QED
                BY <2>1, <4>1 DEF TypeOK, Sessions
        <3>3. CASE Fail(h)
            BY <2>1, <3>3 DEF Fail, TypeOK, Sessions
        <3>4. CASE Complete(h)
            BY <2>1, <3>4 DEF Complete, TypeOK, Sessions
        <3> QED
            BY <1>4, <3>1, <3>2, <3>3, <3>4
    <2> QED
        BY <2>1, <2>2 DEF LoginStep
<1> QED
    BY <1>2, <1>3, <1>4 DEF HandlerStep

LEMMA PollEffect ==
    ASSUME TypeOK, NEW p \in Pollers, PollStep(p)
    PROVE  \A s \in States : LoginStep(s)
<1>1. CASE \E s \in States : PollLookup(p, s)
    BY <1>1, PrunedStep DEF PollLookup
<1>2. CASE PollEmpty(p)
    BY <1>2, SameStep DEF PollEmpty
<1>3. CASE PollTokens(p)
    <2> DEFINE u == poller[p].state
    <2>1. u \in States /\ login[u] \in Sessions /\ login[u].started
        BY <1>3 DEF PollTokens, TypeOK
    <2>2. /\ login'[u].started /\ ~login'[u].listed
          /\ \A s \in States \ {u} : login'[s] = login[s]
        BY <1>3, <2>1 DEF PollTokens, Consumed, TypeOK, Sessions
    <2>3. /\ handed'[u] = handed[u] + 1
          /\ \A s \in States \ {u} : handed'[s] = handed[s]
        BY <1>3, <2>1 DEF PollTokens, TypeOK
    <2> QED
        BY <2>2, <2>3 DEF LoginStep
<1> QED
    BY <1>1, <1>2, <1>3 DEF PollStep

LEMMA OtherEffect ==
    ASSUME TypeOK, (\E s \in States : LoginStart(s)) \/ LookupMiss \/ Shutdown \/ Tick
    PROVE  \A s \in States : LoginStep(s)
<1>1. CASE LookupMiss
    BY <1>1, PrunedStep DEF LookupMiss
<1>2. ASSUME NEW u \in States, LoginStart(u) PROVE \A s \in States : LoginStep(s)
    <2>1. /\ login'[u].started
          /\ \A s \in States \ {u} : login'[s] = Pruned[s]
        BY <1>2, PrunedType DEF LoginStart, NewSession
    <2>2. ~login[u].started /\ UNCHANGED handed
        BY <1>2 DEF LoginStart
    <2> QED
        BY <2>1, <2>2, PrunedType DEF LoginStep
<1>3. CASE Shutdown
    <2>1. \A s \in States :
            login'[s].started = login[s].started /\ ~login'[s].listed
        BY <1>3 DEF Shutdown, TypeOK, Sessions
    <2> QED
        BY <1>3, <2>1 DEF Shutdown, LoginStep
<1>4. CASE Tick
    <2>1. \A s \in States :
            login'[s].started = login[s].started /\ login'[s].listed = login[s].listed
        BY <1>4 DEF Tick, TypeOK, Sessions
    <2> QED
        BY <1>4, <2>1 DEF Tick, LoginStep
<1> QED
    BY <1>1, <1>2, <1>3, <1>4

LEMMA StepEffect ==
    ASSUME TypeOK, [Next]_vars
    PROVE  \A s \in States : LoginStep(s)
<1>1. CASE UNCHANGED vars
    BY <1>1, SameStep DEF vars
<1> QED
    BY <1>1, HandlerEffect, PollEffect, OtherEffect DEF Next

(***************************************************************************)
(* The invariants                                                          *)
(***************************************************************************)

LoginInv ==
    \A s \in States :
        /\ ~login[s].started => handed[s] = 0
        /\ handed[s] > 0 => ~login[s].listed

LEMMA LoginInvStep == TypeOK /\ TypeOK' /\ LoginInv /\ [Next]_vars => LoginInv'
<1> SUFFICES ASSUME TypeOK, TypeOK', LoginInv, [Next]_vars, NEW s \in States
             PROVE  /\ ~login'[s].started => handed'[s] = 0
                    /\ handed'[s] > 0 => ~login'[s].listed
    BY DEF LoginInv
<1>1. LoginStep(s)
    BY StepEffect
<1>2. handed[s] \in Nat /\ handed'[s] \in Nat
    BY DEF TypeOK
<1>3. (~login[s].started => handed[s] = 0) /\ (handed[s] > 0 => ~login[s].listed)
    BY DEF LoginInv
<1> QED
    BY <1>1, <1>2, <1>3 DEF LoginStep

LEMMA AlwaysLogin == Spec => [](TypeOK /\ LoginInv)
<1>1. Init => LoginInv
    <2> SUFFICES ASSUME Init, NEW s \in States
                 PROVE  /\ ~login[s].started => handed[s] = 0
                        /\ handed[s] > 0 => ~login[s].listed
        BY DEF LoginInv
    <2>1. handed[s] = 0 /\ ~(0 > 0)
        BY DEF Init
    <2> QED
        BY <2>1
<1> QED
    BY <1>1, TypeInit, TypeStep, LoginInvStep, PTL DEF Spec

(***************************************************************************)
(* The budget of guesses                                                   *)
(***************************************************************************)

\* The handlers that are busy with a login and an email.
BusyIn(f, phase, s, e) ==
    {h \in Handlers : f[h].phase = phase /\ f[h].state = s /\ f[h].email = e}
Busy(phase, s, e) == BusyIn(handler, phase, s, e)

\* Codes gone out whose record is still to come, guesses on their way to the
\* backend, and what the login's counter still allows.
Sends(s, e) == Cardinality(Busy("sent", s, e))
OnTheirWay(s, e) == Cardinality(Busy("verifying", s, e))
LeftIn(session, e) ==
    IF /\ session.codeSent
       /\ session.email = e
       /\ session.attempts < MaxVerifyAttempts
    THEN MaxVerifyAttempts - session.attempts
    ELSE 0
Left(s, e) == LeftIn(login[s], e)

\* What may still be judged for the code that went out last never exceeds the
\* bound: every record to come is worth a full budget.  If every handler has one
\* to write, nobody is there to use what the counter allows now.
BudgetInv ==
    \A s \in States, e \in Emails :
        guesses[s][e] + OnTheirWay(s, e) + MaxVerifyAttempts * Sends(s, e)
                + (IF Sends(s, e) = Cardinality(Handlers) THEN 0 ELSE Left(s, e))
            <= MaxVerifyAttempts * Cardinality(Handlers)
                + (IF Cardinality(Handlers) > 1 THEN 1 ELSE 0)

LEMMA ProductOfNats == ASSUME NEW a \in Nat, NEW b \in Nat PROVE a * b \in Nat
OBVIOUS

\* A code goes out while no guess has been judged for it: V guesses are on their
\* way, and the n handlers have U2 records to write.
LEMMA CodeOutArithmetic ==
    ASSUME NEW M \in Nat \ {0}, NEW n \in Nat, NEW x \in {0, 1}, n > 1 => x = 1,
           NEW U2 \in Nat \ {0}, NEW V \in Nat, NEW L \in Nat, L <= M, U2 + V <= n
    PROVE  V + M * U2 + (IF U2 = n THEN 0 ELSE L) <= M * n + x
<1>1. CASE U2 = n
    BY <1>1
<1>2. CASE U2 # n
    <2> DEFINE d == n - U2
    <2>1. d \in Nat \ {0} /\ V <= d /\ n = U2 + d /\ n > 1
        BY <1>2
    <2>2. (M - 1) * (d - 1) \in Nat
        BY <2>1, ProductOfNats
    <2>3. (M - 1) * (d - 1) = M * d - M - d + 1
        BY <2>1
    <2>4. M * d \in Nat /\ M * n = M * U2 + M * d
        BY <2>1, ProductOfNats
    <2>5. M * U2 \in Nat
        BY ProductOfNats
    <2>6. M + d <= M * d + 1
        BY <2>1, <2>2, <2>3, <2>4
    <2> HIDE DEF d
    <2> QED
        BY <1>2, <2>1, <2>4, <2>5, <2>6
<1> QED
    BY <1>1, <1>2

\* A step of one handler changes the number of busy ones by that handler.
LEMMA BusyCount ==
    ASSUME TypeOK, NEW h \in Handlers, NEW phase, NEW s \in States, NEW e \in Emails,
           \A g \in Handlers \ {h} : handler'[g] = handler[g]
    PROVE  LET B == Busy(phase, s, e)
           IN  /\ Cardinality(B) \in Nat /\ Cardinality(B') \in Nat
               /\ h \in B /\ h \in B' => Cardinality(B') = Cardinality(B)
               /\ h \notin B /\ h \notin B' => Cardinality(B') = Cardinality(B)
               /\ h \in B /\ h \notin B' => Cardinality(B') = Cardinality(B) - 1
               /\ h \notin B /\ h \in B' => Cardinality(B') = Cardinality(B) + 1
<1> DEFINE B == Busy(phase, s, e)
<1>1. B \in SUBSET Handlers /\ B' \in SUBSET Handlers
    BY DEF Busy, BusyIn
<1>2. \A g \in Handlers \ {h} : g \in B <=> g \in B'
    BY DEF Busy, BusyIn
<1>3. IsFiniteSet(B) /\ IsFiniteSet(B')
    BY <1>1, HandlersAssumption, FS_Subset
<1> HIDE DEF B
<1>4. h \in B /\ h \in B' => B' = B
    BY <1>1, <1>2
<1>5. h \notin B /\ h \notin B' => B' = B
    BY <1>1, <1>2
<1>6. h \in B /\ h \notin B' => B' = B \ {h}
    BY <1>1, <1>2
<1>7. h \notin B /\ h \in B' => B' = B \cup {h}
    BY <1>1, <1>2
<1>8. Cardinality(B) \in Nat /\ Cardinality(B') \in Nat
    BY <1>3, FS_CardinalityType
<1>9. h \in B => Cardinality(B \ {h}) = Cardinality(B) - 1
    BY <1>3, FS_RemoveElement
<1>10. h \notin B => Cardinality(B \cup {h}) = Cardinality(B) + 1
    BY <1>3, FS_AddElement
<1> QED
    BY <1>4, <1>5, <1>6, <1>7, <1>8, <1>9, <1>10 DEF B

\* The busy handlers are among the handlers.
LEMMA BusyBound ==
    ASSUME NEW f, NEW s \in States, NEW e \in Emails
    PROVE  LET U == Cardinality(BusyIn(f, "sent", s, e))
               V == Cardinality(BusyIn(f, "verifying", s, e))
               n == Cardinality(Handlers)
           IN  /\ U \in Nat /\ V \in Nat /\ n \in Nat
               /\ U + V <= n
               /\ \A h \in Handlers : f[h].phase # "sent" => U < n
<1> DEFINE A == BusyIn(f, "sent", s, e)
           B == BusyIn(f, "verifying", s, e)
<1>1. A \in SUBSET Handlers /\ B \in SUBSET Handlers /\ A \cup B \in SUBSET Handlers
      /\ A \cap B = {}
    BY DEF BusyIn
<1>2. IsFiniteSet(A) /\ IsFiniteSet(B) /\ Cardinality(A \cup B) <= Cardinality(Handlers)
    BY <1>1, HandlersAssumption, FS_Subset
<1>3. ASSUME NEW h \in Handlers, f[h].phase # "sent"
      PROVE  A \in SUBSET Handlers /\ A # Handlers
    BY <1>1, <1>3 DEF BusyIn
<1> HIDE DEF A, B
<1>4. Cardinality(A) \in Nat /\ Cardinality(B) \in Nat /\ Cardinality(Handlers) \in Nat
    BY <1>2, HandlersAssumption, FS_CardinalityType
<1>5. Cardinality(A \cup B) = Cardinality(A) + Cardinality(B)
    <2>1. Cardinality({}) = 0
        BY FS_EmptySet
    <2>2. Cardinality(A \cup B) = Cardinality(A) + Cardinality(B) - Cardinality(A \cap B)
        BY <1>2, FS_Union
    <2>3. Cardinality(A \cap B) = 0
        BY <1>1, <2>1
    <2> QED
        BY <1>4, <2>2, <2>3
<1>6. ASSUME NEW h \in Handlers, f[h].phase # "sent"
      PROVE  Cardinality(A) < Cardinality(Handlers)
    <2>1. Cardinality(A) <= Cardinality(Handlers) /\ Cardinality(A) # Cardinality(Handlers)
        BY <1>3, <1>6, HandlersAssumption, FS_Subset
    <2> QED
        BY <1>4, <2>1
<1> QED
    BY <1>2, <1>4, <1>5, <1>6 DEF A, B

\* A step that leaves a login's counter, its guesses and all handlers alone.
LEMMA SameBudget ==
    ASSUME NEW s \in States, NEW e \in Emails, TypeOK, UNCHANGED <<handler, guesses>>,
           Left(s, e)' = Left(s, e), BudgetInv
    PROVE  guesses'[s][e] + OnTheirWay(s, e)' + MaxVerifyAttempts * Sends(s, e)'
                + (IF Sends(s, e)' = Cardinality(Handlers) THEN 0 ELSE Left(s, e)')
            <= MaxVerifyAttempts * Cardinality(Handlers)
                + (IF Cardinality(Handlers) > 1 THEN 1 ELSE 0)
<1>1. Sends(s, e)' = Sends(s, e) /\ OnTheirWay(s, e)' = OnTheirWay(s, e)
    BY DEF Sends, OnTheirWay, Busy, BusyIn
<1> QED
    BY <1>1 DEF BudgetInv

LEMMA LeftType ==
    ASSUME NEW session \in Sessions, NEW e \in Emails
    PROVE  LeftIn(session, e) \in Nat /\ LeftIn(session, e) <= MaxVerifyAttempts
<1>1. session.attempts \in Nat
    BY DEF Sessions
<1> QED
    BY <1>1, LimitAssumption DEF LeftIn

\* A step that writes the counter of no login.
LEMMA LeftStays ==
    ASSUME NEW s \in States, NEW e \in Emails,
           login'[s].codeSent = login[s].codeSent, login'[s].email = login[s].email,
           login'[s].attempts = login[s].attempts
    PROVE  Left(s, e)' = Left(s, e)
BY DEF Left, LeftIn

\* How one handler's step moves the counts of one login and one email.
BudgetMoves(s, e) ==
    LET n == Cardinality(Handlers)
        U == Sends(s, e)            U2 == Sends(s, e)'
        V == OnTheirWay(s, e)       V2 == OnTheirWay(s, e)'
        g == guesses[s][e]          g2 == guesses'[s][e]
        L == Left(s, e)             L2 == Left(s, e)'
    IN  \/ U2 = U /\ V2 = V /\ g2 = g /\ L2 <= L
        \/ U2 = U /\ V2 = V - 1 /\ g2 = g /\ L2 = L
        \/ U2 = U - 1 /\ V2 = V /\ g2 = g
        \/ U2 = U + 1 /\ V2 = V /\ g2 = 0
        \/ U2 = U /\ U < n /\ V2 = V + 1 /\ g2 = g /\ L2 = L - 1
        \/ U2 = U /\ V2 = V - 1 /\ g2 = g + 1 /\ L2 = L

LEMMA HandlerBudget ==
    ASSUME TypeOK, NEW h \in Handlers, HandlerStep(h), NEW s \in States, NEW e \in Emails
    PROVE  BudgetMoves(s, e)
<1> DEFINE u == handler[h].state
           At(phase) == handler[h].phase = phase /\ handler[h].state = s /\ handler[h].email = e
           Gets(phase) ==
                handler'[h].phase = phase /\ handler'[h].state = s /\ handler'[h].email = e
<1>1. \A g \in Handlers \ {h} : handler'[g] = handler[g]
    BY DEF HandlerStep, AskVerify, AskCode, Enter, CodeGoesOut, MarkCodeSent, CodeNotSent,
        NextAttempt, Fail, CodeJudged, Complete, VerifyRefused, Leave, TypeOK
<1>2. ASSUME NEW phase
      PROVE  /\ Cardinality(Busy(phase, s, e)) \in Nat /\ Cardinality(Busy(phase, s, e)') \in Nat
             /\ (At(phase) /\ Gets(phase)) \/ (~At(phase) /\ ~Gets(phase))
                    => Cardinality(Busy(phase, s, e)') = Cardinality(Busy(phase, s, e))
             /\ At(phase) /\ ~Gets(phase)
                    => Cardinality(Busy(phase, s, e)') = Cardinality(Busy(phase, s, e)) - 1
             /\ ~At(phase) /\ Gets(phase)
                    => Cardinality(Busy(phase, s, e)') = Cardinality(Busy(phase, s, e)) + 1
    <2> DEFINE B == Busy(phase, s, e)
    <2>1. (h \in B <=> At(phase)) /\ (h \in B' <=> Gets(phase))
        BY DEF Busy, BusyIn
    <2>2. /\ Cardinality(B) \in Nat /\ Cardinality(B') \in Nat
          /\ h \in B /\ h \in B' => Cardinality(B') = Cardinality(B)
          /\ h \notin B /\ h \notin B' => Cardinality(B') = Cardinality(B)
          /\ h \in B /\ h \notin B' => Cardinality(B') = Cardinality(B) - 1
          /\ h \notin B /\ h \in B' => Cardinality(B') = Cardinality(B) + 1
        BY <1>1, BusyCount
    <2> HIDE DEF B
    <2> QED
        BY <2>1, <2>2 DEF B
<1>3. /\ Sends(s, e) \in Nat /\ Sends(s, e)' \in Nat
      /\ OnTheirWay(s, e) \in Nat /\ OnTheirWay(s, e)' \in Nat
      /\ (At("sent") /\ Gets("sent")) \/ (~At("sent") /\ ~Gets("sent"))
            => Sends(s, e)' = Sends(s, e)
      /\ At("sent") /\ ~Gets("sent") => Sends(s, e)' = Sends(s, e) - 1
      /\ ~At("sent") /\ Gets("sent") => Sends(s, e)' = Sends(s, e) + 1
    BY <1>2 DEF Sends, OnTheirWay
<1>4. /\ ~At("verifying") /\ ~Gets("verifying") => OnTheirWay(s, e)' = OnTheirWay(s, e)
      /\ At("verifying") /\ ~Gets("verifying") => OnTheirWay(s, e)' = OnTheirWay(s, e) - 1
      /\ ~At("verifying") /\ Gets("verifying") => OnTheirWay(s, e)' = OnTheirWay(s, e) + 1
    BY <1>2 DEF OnTheirWay
<1>5. Left(s, e) \in Nat /\ Left(s, e) <= MaxVerifyAttempts /\ MaxVerifyAttempts \in Nat
    BY LeftType, LimitAssumption DEF TypeOK, Left
<1>6. guesses[s][e] \in Nat
    BY DEF TypeOK
<1>7. ASSUME Leave(h) PROVE handler'[h].phase = "idle"
    BY <1>7 DEF Leave, IdleHandler, TypeOK
<1>8. ASSUME UNCHANGED login PROVE Left(s, e)' = Left(s, e)
    BY <1>8 DEF Left, LeftIn
<1>9. CASE \E v \in States : AskVerify(h, v) \/ \E f \in Emails : AskCode(h, v, f)
    <2>1. handler[h].phase = "idle" /\ handler'[h].phase \in {"asking", "booking"}
          /\ login' = Pruned /\ UNCHANGED guesses
        BY <1>9 DEF AskVerify, AskCode, Enter, TypeOK
    <2>2. Left(s, e)' = Left(s, e)
        BY <2>1, PrunedType, LeftStays
    <2> QED
        BY <1>3, <1>4, <1>5, <2>1, <2>2 DEF BudgetMoves
<1>10. CASE CodeGoesOut(h)
    <2>1. /\ handler[h].phase = "asking" /\ handler'[h].phase = "sent"
          /\ handler'[h].state = u /\ handler'[h].email = handler[h].email
          /\ u \in States /\ handler[h].email \in Emails
          /\ guesses' = [guesses EXCEPT ![u][handler[h].email] = 0]
          /\ UNCHANGED login
        BY <1>10 DEF CodeGoesOut, TypeOK
    <2>2. Left(s, e)' = Left(s, e)
        BY <1>8, <2>1
    <2>3. CASE u = s /\ handler[h].email = e
        <3>1. guesses'[s][e] = 0
            BY <2>1, <2>3 DEF TypeOK
        <3> QED
            BY <1>3, <1>4, <2>1, <2>3, <3>1 DEF BudgetMoves
    <2>4. CASE ~(u = s /\ handler[h].email = e)
        <3>1. guesses'[s][e] = guesses[s][e]
            BY <2>1, <2>4 DEF TypeOK
        <3> QED
            BY <1>3, <1>4, <1>5, <2>1, <2>2, <2>4, <3>1 DEF BudgetMoves
    <2> QED
        BY <2>3, <2>4
<1>11. CASE MarkCodeSent(h)
    <2>1. /\ handler[h].phase = "sent" /\ handler'[h].phase = "idle"
          /\ u \in States /\ UNCHANGED guesses
          /\ u = s => login'[s].email = handler[h].email
          /\ u # s => login'[s] = login[s]
        BY <1>7, <1>11 DEF MarkCodeSent, TypeOK, Sessions
    <2>2. CASE u = s /\ handler[h].email = e
        BY <1>3, <1>4, <2>1, <2>2 DEF BudgetMoves
    <2>3. CASE u = s /\ handler[h].email # e
        <3>1. Left(s, e)' = 0
            BY <2>1, <2>3 DEF Left, LeftIn
        <3> QED
            BY <1>3, <1>4, <1>5, <2>1, <2>3, <3>1 DEF BudgetMoves
    <2>4. CASE u # s
        <3>1. Left(s, e)' = Left(s, e)
            BY <2>1, <2>4, LeftStays
        <3> QED
            BY <1>3, <1>4, <1>5, <2>1, <2>4, <3>1 DEF BudgetMoves
    <2> QED
        BY <2>2, <2>3, <2>4
<1>12. CASE CodeNotSent(h)
    <2>1. /\ handler[h].phase \in {"asking", "sent"} /\ handler'[h].phase = "idle"
          /\ UNCHANGED <<login, guesses>>
        BY <1>7, <1>12 DEF CodeNotSent
    <2>2. Left(s, e)' = Left(s, e)
        BY <1>8, <2>1
    <2>3. CASE At("sent")
        BY <1>3, <1>4, <2>1, <2>3 DEF BudgetMoves
    <2>4. CASE ~At("sent")
        BY <1>3, <1>4, <1>5, <2>1, <2>2, <2>4 DEF BudgetMoves
    <2> QED
        BY <2>3, <2>4
<1>13. CASE NextAttempt(h)
    <2> DEFINE n == IF login[u].attempts > MaxVerifyAttempts
                    THEN login[u].attempts ELSE login[u].attempts + 1
    <2>1. /\ handler[h].phase = "booking" /\ u \in States /\ login[u] \in Sessions
          /\ UNCHANGED guesses /\ login' = [login EXCEPT ![u].attempts = n]
        BY <1>13 DEF NextAttempt, TypeOK
    <2>2. login[u].attempts \in Nat
        BY <2>1 DEF Sessions
    <2>3. /\ u # s => login'[s] = login[s]
          /\ u = s => /\ login'[s].codeSent = login[s].codeSent
                      /\ login'[s].email = login[s].email
                      /\ login'[s].attempts = n
        BY <2>1 DEF TypeOK, Sessions
    <2>4. Left(s, e)' <= Left(s, e)
        <3>1. CASE u # s
            BY <1>5, <2>3, <3>1, LeftStays
        <3>2. CASE u = s
            BY <1>5, <2>2, <2>3, <3>2 DEF Left, LeftIn
        <3> QED
            BY <3>1, <3>2
    <2>5. \/ handler'[h].phase \in {"idle", "failing"}
          \/ /\ CodeWasSent(u) /\ n <= MaxVerifyAttempts
             /\ handler'[h].phase = "verifying" /\ handler'[h].state = u
             /\ handler'[h].email = login[u].email
        <3>1. CASE Leave(h)
            BY <1>7, <3>1
        <3>2. CASE handler' = [handler EXCEPT ![h].phase = "failing"]
            BY <3>2 DEF TypeOK
        <3>3. CASE /\ CodeWasSent(u) /\ n <= MaxVerifyAttempts
                   /\ handler' = [handler EXCEPT ![h] =
                        [phase |-> "verifying", state |-> u, email |-> login[u].email]]
            BY <3>3 DEF TypeOK
        <3> QED
            BY <1>13, <3>1, <3>2, <3>3 DEF NextAttempt
    <2> HIDE DEF n
    <2>6. CASE Gets("verifying")
        <3>1. /\ u = s /\ login[s].codeSent /\ login[s].email = e
              /\ n <= MaxVerifyAttempts
            BY <2>5, <2>6 DEF CodeWasSent
        <3>2. Left(s, e)' = Left(s, e) - 1
            <4>1. /\ login'[s].codeSent /\ login'[s].email = e /\ login'[s].attempts = n
                  /\ login[s].attempts \in Nat
                BY <2>2, <2>3, <3>1
            <4>2. n = login[s].attempts + 1
                BY <1>5, <2>2, <3>1 DEF n
            <4> QED
                BY <1>5, <3>1, <4>1, <4>2 DEF Left, LeftIn
        <3>3. Sends(s, e) < Cardinality(Handlers)
            BY <2>1, BusyBound DEF Sends, Busy
        <3> QED
            BY <1>3, <1>4, <2>1, <2>6, <3>2, <3>3 DEF BudgetMoves
    <2>7. CASE ~Gets("verifying")
        BY <1>3, <1>4, <1>5, <2>1, <2>4, <2>5, <2>7 DEF BudgetMoves
    <2> QED
        BY <2>6, <2>7
<1>14. CASE CodeJudged(h)
    <2>1. /\ handler[h].phase = "verifying" /\ handler'[h].phase \in {"accepted", "refused"}
          /\ u \in States /\ handler[h].email \in Emails
          /\ guesses' = [guesses EXCEPT ![u][handler[h].email] = @ + 1]
          /\ UNCHANGED login
        BY <1>14 DEF CodeJudged, TypeOK
    <2>2. Left(s, e)' = Left(s, e)
        BY <1>8, <2>1
    <2>3. CASE At("verifying")
        <3>1. guesses'[s][e] = guesses[s][e] + 1
            BY <2>1, <2>3 DEF TypeOK
        <3> QED
            BY <1>3, <1>4, <2>1, <2>2, <2>3, <3>1 DEF BudgetMoves
    <2>4. CASE ~At("verifying")
        <3>1. guesses'[s][e] = guesses[s][e]
            BY <2>1, <2>4 DEF TypeOK
        <3> QED
            BY <1>3, <1>4, <1>5, <2>1, <2>2, <2>4, <3>1 DEF BudgetMoves
    <2> QED
        BY <2>3, <2>4
<1>15. CASE Fail(h) \/ Complete(h) \/ VerifyRefused(h)
    <2>1. /\ handler[h].phase \in {"failing", "accepted", "refused", "verifying"}
          /\ handler'[h].phase = "idle" /\ UNCHANGED guesses
        BY <1>7, <1>15 DEF Fail, Complete, VerifyRefused
    <2>2. u \in States
        BY <2>1 DEF TypeOK
    <2>3. Left(s, e)' = Left(s, e)
        <3>1. CASE Fail(h)
            <4>1. /\ login'[s].codeSent = login[s].codeSent /\ login'[s].email = login[s].email
                  /\ login'[s].attempts = login[s].attempts
                BY <2>2, <3>1 DEF Fail, TypeOK, Sessions
            <4> QED
                BY <4>1, LeftStays
        <3>2. CASE Complete(h)
            <4>1. /\ login'[s].codeSent = login[s].codeSent /\ login'[s].email = login[s].email
                  /\ login'[s].attempts = login[s].attempts
                BY <2>2, <3>2 DEF Complete, TypeOK, Sessions
            <4> QED
                BY <4>1, LeftStays
        <3>3. CASE VerifyRefused(h)
            BY <1>8, <3>3 DEF VerifyRefused
        <3> QED
            BY <1>15, <3>1, <3>2, <3>3
    <2>4. CASE At("verifying")
        BY <1>3, <1>4, <2>1, <2>3, <2>4 DEF BudgetMoves
    <2>5. CASE ~At("verifying")
        BY <1>3, <1>4, <1>5, <2>1, <2>3, <2>5 DEF BudgetMoves
    <2> QED
        BY <2>4, <2>5
<1> QED
    BY <1>9, <1>10, <1>11, <1>12, <1>13, <1>14, <1>15 DEF HandlerStep

LEMMA BudgetStep == TypeOK /\ TypeOK' /\ BudgetInv /\ [Next]_vars => BudgetInv'
<1> SUFFICES ASSUME TypeOK, TypeOK', BudgetInv, [Next]_vars, NEW s \in States, NEW e \in Emails
             PROVE  guesses'[s][e] + OnTheirWay(s, e)' + MaxVerifyAttempts * Sends(s, e)'
                        + (IF Sends(s, e)' = Cardinality(Handlers) THEN 0 ELSE Left(s, e)')
                    <= MaxVerifyAttempts * Cardinality(Handlers)
                        + (IF Cardinality(Handlers) > 1 THEN 1 ELSE 0)
    BY DEF BudgetInv
<1>1. ASSUME NEW h \in Handlers, HandlerStep(h)
      PROVE  guesses'[s][e] + OnTheirWay(s, e)' + MaxVerifyAttempts * Sends(s, e)'
                + (IF Sends(s, e)' = Cardinality(Handlers) THEN 0 ELSE Left(s, e)')
            <= MaxVerifyAttempts * Cardinality(Handlers)
                + (IF Cardinality(Handlers) > 1 THEN 1 ELSE 0)
    <2> DEFINE M == MaxVerifyAttempts
               n == Cardinality(Handlers)
               x == IF n > 1 THEN 1 ELSE 0
               U == Sends(s, e)            U2 == Sends(s, e)'
               V == OnTheirWay(s, e)       V2 == OnTheirWay(s, e)'
               g == guesses[s][e]          g2 == guesses'[s][e]
               L == Left(s, e)             L2 == Left(s, e)'
    <2>1. U \in Nat /\ V \in Nat /\ n \in Nat /\ U + V <= n
        BY BusyBound DEF Sends, OnTheirWay, Busy
    <2>2. U2 \in Nat /\ V2 \in Nat /\ U2 + V2 <= n
        BY BusyBound DEF Sends, OnTheirWay, Busy
    <2>3. L \in Nat /\ L <= M /\ L2 \in Nat /\ L2 <= M
        BY LeftType DEF TypeOK, Left
    <2>4. g \in Nat /\ g2 \in Nat /\ M \in Nat \ {0}
        BY LimitAssumption DEF TypeOK
    <2>5. g + V + M * U + (IF U = n THEN 0 ELSE L) <= M * n + x
        BY DEF BudgetInv
    <2>6. \/ U2 = U /\ V2 = V /\ g2 = g /\ L2 <= L
          \/ U2 = U /\ V2 = V - 1 /\ g2 = g /\ L2 = L
          \/ U2 = U - 1 /\ V2 = V /\ g2 = g
          \/ U2 = U + 1 /\ V2 = V /\ g2 = 0
          \/ U2 = U /\ U < n /\ V2 = V + 1 /\ g2 = g /\ L2 = L - 1
          \/ U2 = U /\ V2 = V - 1 /\ g2 = g + 1 /\ L2 = L
        BY <1>1, HandlerBudget DEF BudgetMoves
    <2>7. x \in {0, 1} /\ (n > 1 => x = 1)
        OBVIOUS
    <2> HIDE DEF M, n, x, U, V, g, L, U2, V2, g2, L2
    <2>8. g2 + V2 + M * U2 + (IF U2 = n THEN 0 ELSE L2) <= M * n + x
        <3>1. CASE U2 = U
            BY <2>1, <2>2, <2>3, <2>4, <2>5, <2>6, <2>7, <3>1
        <3>2. CASE U2 = U - 1 /\ V2 = V /\ g2 = g
            <4>1. M * U = M * U2 + M
                BY <2>1, <2>4, <3>2
            <4> QED
                BY <2>1, <2>2, <2>3, <2>4, <2>5, <2>7, <3>2, <4>1
        <3>3. CASE U2 = U + 1 /\ V2 = V /\ g2 = 0
            BY <2>1, <2>2, <2>3, <2>4, <2>7, <3>3, CodeOutArithmetic
        <3> QED
            BY <2>6, <3>1, <3>2, <3>3
    <2> QED
        BY <2>8 DEF M, n, x, U2, V2, g2, L2
<1>2. CASE \E v \in States : LoginStart(v)
    <2>1. PICK v \in States : LoginStart(v)
        BY <1>2
    <2>2. UNCHANGED <<handler, guesses>>
        BY <2>1 DEF LoginStart
    <2>3. CASE v # s
        <3>1. login'[s] = Pruned[s]
            BY <2>1, <2>3, PrunedType DEF LoginStart
        <3>2. Left(s, e)' = Left(s, e)
            BY <3>1, PrunedType, LeftStays
        <3> QED
            BY <2>2, <3>2, SameBudget
    <2>4. CASE v = s
        <3>1. ~login'[s].codeSent
            BY <2>1, <2>4, PrunedType DEF LoginStart, NewSession
        <3>2. Left(s, e)' = 0 /\ Left(s, e) \in Nat
            <4>1. login[s] \in Sessions
                BY DEF TypeOK
            <4> QED
                BY <3>1, <4>1, LeftType DEF Left, LeftIn
        <3>3. Sends(s, e)' = Sends(s, e) /\ OnTheirWay(s, e)' = OnTheirWay(s, e)
            BY <2>2 DEF Sends, OnTheirWay, Busy, BusyIn
        <3>4. /\ guesses[s][e] \in Nat /\ OnTheirWay(s, e) \in Nat /\ Sends(s, e) \in Nat
              /\ Cardinality(Handlers) \in Nat /\ MaxVerifyAttempts * Sends(s, e) \in Nat
              /\ MaxVerifyAttempts * Cardinality(Handlers) \in Nat
            BY BusyBound, LimitAssumption, ProductOfNats DEF TypeOK, Sends, OnTheirWay, Busy
        <3>5. guesses[s][e] + OnTheirWay(s, e) + MaxVerifyAttempts * Sends(s, e)
                <= MaxVerifyAttempts * Cardinality(Handlers)
                    + (IF Cardinality(Handlers) > 1 THEN 1 ELSE 0)
            BY <3>2, <3>4 DEF BudgetInv
        <3> QED
            BY <2>2, <3>2, <3>3, <3>4, <3>5
    <2> QED
        BY <2>3, <2>4
<1>3. CASE (\E p \in Pollers : PollStep(p)) \/ LookupMiss \/ Shutdown \/ Tick \/ UNCHANGED vars
    <2>1. UNCHANGED <<handler, guesses>>
        BY <1>3 DEF PollStep, PollLookup, PollEmpty, PollTokens, LookupMiss, Shutdown, Tick, vars
    <2>2. /\ login'[s].codeSent = login[s].codeSent /\ login'[s].email = login[s].email
          /\ login'[s].attempts = login[s].attempts
        <3>1. CASE login' = Pruned \/ UNCHANGED login
            BY <3>1, PrunedType
        <3>2. CASE Shutdown \/ Tick
            BY <3>2 DEF Shutdown, Tick, TypeOK, Sessions
        <3>3. ASSUME NEW p \in Pollers, PollTokens(p) 
              PROVE  /\ login'[s].codeSent = login[s].codeSent
                     /\ login'[s].email = login[s].email
                     /\ login'[s].attempts = login[s].attempts
            BY <3>3 DEF PollTokens, Consumed, TypeOK, Sessions
        <3> QED
            BY <1>3, <3>1, <3>2, <3>3 DEF PollStep, PollLookup, PollEmpty, LookupMiss, vars
    <2> QED
        BY <2>1, <2>2, LeftStays, SameBudget
<1> QED
    BY <1>1, <1>2, <1>3 DEF Next

\* Of any login the backend judges at most the cap's number of guesses for each
\* code that went out, for each of the page's requests served at once, and one
\* more if there are several; exactly the cap if there is one.
THEOREM GuessesBounded == Spec => []GuessesWithinBudget
<1>1. Init => BudgetInv
    <2> SUFFICES ASSUME Init, NEW s \in States, NEW e \in Emails
                 PROVE  guesses[s][e] + OnTheirWay(s, e) + MaxVerifyAttempts * Sends(s, e)
                            + (IF Sends(s, e) = Cardinality(Handlers) THEN 0 ELSE Left(s, e))
                        <= MaxVerifyAttempts * Cardinality(Handlers)
                            + (IF Cardinality(Handlers) > 1 THEN 1 ELSE 0)
        BY DEF BudgetInv
    <2>1. guesses[s][e] = 0 /\ Left(s, e) = 0
        BY DEF Init, Left, LeftIn, NewSession
    <2>2. Busy("sent", s, e) = {} /\ Busy("verifying", s, e) = {}
        BY DEF Init, Busy, BusyIn, IdleHandler
    <2>3. Sends(s, e) = 0 /\ OnTheirWay(s, e) = 0
        BY <2>2, FS_EmptySet DEF Sends, OnTheirWay
    <2>4. MaxVerifyAttempts * Cardinality(Handlers) \in Nat /\ MaxVerifyAttempts \in Nat
        BY HandlersAssumption, FS_CardinalityType, LimitAssumption, ProductOfNats
    <2> QED
        BY <2>1, <2>3, <2>4
<1>2. TypeOK /\ BudgetInv => GuessesWithinBudget
    <2> SUFFICES ASSUME TypeOK, BudgetInv, NEW s \in States, NEW e \in Emails
                 PROVE  guesses[s][e] <= MaxVerifyAttempts * Cardinality(Handlers)
                            + (IF Cardinality(Handlers) > 1 THEN 1 ELSE 0)
        BY DEF GuessesWithinBudget
    <2>1. /\ guesses[s][e] \in Nat /\ OnTheirWay(s, e) \in Nat /\ Sends(s, e) \in Nat
          /\ MaxVerifyAttempts * Sends(s, e) \in Nat /\ Left(s, e) \in Nat
          /\ MaxVerifyAttempts * Cardinality(Handlers) \in Nat
        BY BusyBound, LeftType, LimitAssumption, ProductOfNats
            DEF TypeOK, Sends, OnTheirWay, Busy, Left
    <2>2. guesses[s][e] + OnTheirWay(s, e) + MaxVerifyAttempts * Sends(s, e)
            + (IF Sends(s, e) = Cardinality(Handlers) THEN 0 ELSE Left(s, e))
          <= MaxVerifyAttempts * Cardinality(Handlers)
            + (IF Cardinality(Handlers) > 1 THEN 1 ELSE 0)
        BY DEF BudgetInv
    <2> QED
        BY <2>1, <2>2
<1> QED
    BY <1>1, <1>2, TypeInit, TypeStep, BudgetStep, PTL DEF Spec

\* A credential that was handed back cannot be asked for again.
THEOREM HandedBackIsGone == Spec => []HandedBackMeansGone
<1>1. LoginInv => HandedBackMeansGone
    BY DEF LoginInv, HandedBackMeansGone
<1> QED
    BY <1>1, AlwaysLogin, PTL

\* No late answer revives a login that was consumed, pruned or shut down.
THEOREM ForgottenStaysForgotten == Spec => ForgottenForGood
<1>1. TypeOK /\ [Next]_vars
        => [\A s \in States :
                login[s].started /\ ~login[s].listed => ~login'[s].listed]_vars
    BY StepEffect DEF LoginStep
<1> QED
    BY <1>1, TypeCorrect, PTL DEF Spec, ForgottenForGood

(***************************************************************************)
(* What polls hand back                                                    *)
(***************************************************************************)

\* Nothing but a poll touches the pollers and the count of what was handed back.
LEMMA PollsAlone ==
    ASSUME [Next]_vars
    PROVE  UNCHANGED <<poller, handed>> \/ \E p \in Pollers : PollStep(p)
<1>1. ASSUME NEW h \in Handlers, HandlerStep(h) PROVE UNCHANGED <<poller, handed>>
    BY <1>1 DEF HandlerStep, AskVerify, AskCode, Enter, CodeGoesOut, MarkCodeSent,
        CodeNotSent, NextAttempt, Fail, CodeJudged, Complete, VerifyRefused
<1>2. CASE (\E s \in States : LoginStart(s)) \/ LookupMiss \/ Shutdown \/ Tick
    BY <1>2 DEF LoginStart, LookupMiss, Shutdown, Tick
<1>3. CASE UNCHANGED vars
    BY <1>3 DEF vars
<1> QED
    BY <1>1, <1>2, <1>3 DEF Next

LEMMA PollerStep ==
    ASSUME TypeOK, NEW p \in Pollers, PollStep(p)
    PROVE  /\ \A q \in Pollers \ {p} : poller'[q] = poller[q]
           /\ \/ /\ UNCHANGED handed
                 /\ \/ poller'[p].phase = "idle"
                    \/ /\ poller'[p].phase = "found"
                       /\ poller'[p].state \in States /\ Live(poller'[p].state)
              \/ LET s == poller[p].state
                 IN  /\ s \in States /\ poller[p].phase = "found"
                     /\ handed' = [handed EXCEPT ![s] = @ + 1]
                     /\ poller'[p].phase = "idle"
<1>1. CASE \E s \in States : PollLookup(p, s)
    BY <1>1 DEF PollLookup, TypeOK
<1>2. CASE PollEmpty(p)
    BY <1>2 DEF PollEmpty, TypeOK, IdlePoller
<1>3. CASE PollTokens(p)
    BY <1>3 DEF PollTokens, TypeOK, IdlePoller
<1> QED
    BY <1>1, <1>2, <1>3 DEF PollStep

\* Who polls a login that was handed back has looked it up before.
OneHandBack ==
    \A s \in States :
        /\ handed[s] <= 1
        /\ handed[s] > 0 => \A p \in Pollers : ~(poller[p].phase = "found" /\ poller[p].state = s)

LEMMA OneHandBackInit == Init => OneHandBack
<1> SUFFICES ASSUME Init, NEW s \in States
             PROVE  /\ handed[s] <= 1
                    /\ handed[s] > 0 => \A p \in Pollers :
                         ~(poller[p].phase = "found" /\ poller[p].state = s)
    BY Zenon DEF OneHandBack
<1>1. handed[s] = 0
    BY DEF Init
<1>2. 0 <= 1 /\ ~(0 > 0)
    OBVIOUS
<1> QED
    BY <1>1, <1>2, Zenon

LEMMA OneHandBackStep ==
    ASSUME \A p, q \in Pollers : p = q, TypeOK, LoginInv, OneHandBack, [Next]_vars
    PROVE  OneHandBack'
<1> SUFFICES ASSUME NEW s \in States
             PROVE  /\ handed'[s] <= 1
                    /\ handed'[s] > 0 => \A p \in Pollers :
                         ~(poller'[p].phase = "found" /\ poller'[p].state = s)
    BY Zenon DEF OneHandBack
<1>1. /\ handed[s] <= 1 /\ handed[s] \in Nat
      /\ handed[s] > 0 => \A p \in Pollers : ~(poller[p].phase = "found" /\ poller[p].state = s)
    BY DEF OneHandBack, TypeOK
<1>2. CASE UNCHANGED <<poller, handed>>
    BY <1>1, <1>2
<1>3. CASE \E p \in Pollers : PollStep(p)
    <2>1. PICK p \in Pollers : PollStep(p)
        BY <1>3
    <2>2. \A q \in Pollers : q = p
        OBVIOUS
    <2>3. CASE /\ UNCHANGED handed
               /\ \/ poller'[p].phase = "idle"
                  \/ /\ poller'[p].phase = "found"
                     /\ poller'[p].state \in States /\ Live(poller'[p].state)
        <3>1. handed[s] > 0 => ~(poller'[p].phase = "found" /\ poller'[p].state = s)
            BY <1>1, <2>3 DEF LoginInv, Live
        <3> QED
            BY <1>1, <2>2, <2>3, <3>1
    <2>4. CASE /\ poller[p].state \in States /\ poller[p].phase = "found"
               /\ handed' = [handed EXCEPT ![poller[p].state] = @ + 1]
               /\ poller'[p].phase = "idle"
        <3>1. CASE s = poller[p].state
            <4>1. handed[s] = 0
                BY <1>1, <2>4, <3>1
            <4>2. handed'[s] = handed[s] + 1
                BY <2>4, <3>1 DEF TypeOK
            <4> QED
                BY <2>2, <2>4, <4>1, <4>2
        <3>2. CASE s # poller[p].state
            <4>1. handed'[s] = handed[s]
                BY <2>4, <3>2 DEF TypeOK
            <4> QED
                BY <1>1, <2>2, <2>4, <4>1
        <3> QED
            BY <3>1, <3>2
    <2> QED
        BY <2>1, <2>3, <2>4, PollerStep
<1> QED
    BY <1>2, <1>3, PollsAlone

\* The credential is handed back once, as poll says, if polls never overlap.
THEOREM OncePollByPoll ==
    (\A p, q \in Pollers : p = q) => (Spec => []HandedBackOnce)
<1> SUFFICES ASSUME \A p, q \in Pollers : p = q PROVE Spec => []HandedBackOnce
    OBVIOUS
<1>1. TypeOK /\ LoginInv /\ OneHandBack /\ [Next]_vars => OneHandBack'
    BY OneHandBackStep
<1>2. OneHandBack => HandedBackOnce
    BY Zenon DEF OneHandBack, HandedBackOnce
<1> QED
    BY OneHandBackInit, <1>1, <1>2, AlwaysLogin, PTL DEF Spec

=============================================================================
