-------------------------- MODULE RefreshSchedule --------------------------
(***************************************************************************)
(* When an account's access token is renewed: what auth.parse and          *)
(* auth.refresh tell the host (internal/auth/auth.go), what the backend    *)
(* may answer (internal/mirofish/client.go), and the host's own loop,      *)
(* which refreshes an account once the floor NextRefreshAfter has passed   *)
(* and either the interval since last_refresh or the token runs out.       *)
(*                                                                         *)
(* A file is parsed whenever it is touched, and the interval may be        *)
(* configured anew at any time.  Time is counted down in ticks.            *)
(***************************************************************************)
EXTENDS Integers

CONSTANTS
    Intervals,  \* what refresh_interval_seconds may be set to
    Lives,      \* how long the backend's access tokens may live
    NoExpiry,   \* the life of a token that has no exp claim
    Statuses,   \* what the backend may answer instead of 2xx; 0 is no answer
    Minute,
    Latency,    \* bound on how long a refresh takes
    Backoff,    \* after which the host tries a failed refresh again
    Horizon     \* bound on what is counted since the last refresh

ASSUME TimeAssumption ==
    /\ Minute \in Nat /\ Latency \in Nat /\ Backoff \in Nat /\ Horizon \in Nat
    /\ Latency < Minute
ASSUME IntervalAssumption ==
    /\ Intervals \subseteq Nat
    /\ \A i \in Intervals : Latency < i /\ i <= Horizon
ASSUME LifeAssumption == Lives \subseteq Nat /\ NoExpiry \notin Nat

VARIABLES
    interval,   \* config.RefreshIntervalSeconds
    lead,       \* metadata["refresh_interval_seconds"]
    life,       \* ticks until metadata["expired"]
    age,        \* ticks since metadata["last_refresh"], up to Horizon
    stamped,    \* the file has a last_refresh: whether the host keeps it there
                \* is not the plugin's to say
    floor,      \* ticks until NextRefreshAfter
    suspended,
    status,     \* "active", or "unauthorized": needs re-login
    call,       \* the refresh, with its cfg and how long it has taken
    excused     \* the plugin does not answer for this token's lapse: it came
                \* too short, was suspended, or a refresh has failed

vars == <<interval, lead, life, age, stamped, floor, suspended, status, call, excused>>
config == <<interval>>
record == <<lead, life, age, stamped, floor>>

Idle == [phase |-> "idle", interval |-> 0, taken |-> 0]

AtLeastZero(n) == IF n < 0 THEN 0 ELSE n
Sooner(t) == AtLeastZero(t - 1)
Running(l) == IF l = NoExpiry THEN l ELSE Sooner(l)

\* Mutant: the interval is all that counts.
ParkedByInterval(i, l) == i

\* Mutant: a lead before the expiry, as the host's loop has it.
ParkedByLead(i, l) ==
    IF l = NoExpiry \/ i < l - i THEN i ELSE AtLeastZero(l - i)

\* Mutant: when the last minute has come, the interval is taken after all.
ParkedWhenPast(i, l) == IF l = NoExpiry \/ i <= l - Minute \/ l < Minute THEN i ELSE l - Minute

\* Never past the token's own lifetime; a past moment is now.
NextRefreshAfter(i, l) ==
    IF l = NoExpiry \/ i <= l - Minute THEN i ELSE AtLeastZero(l - Minute)

TooShort(l) == l # NoExpiry /\ l <= Latency

Init ==
    /\ interval \in Intervals
    /\ lead = interval
    /\ life \in Lives \cup {NoExpiry}
    /\ age = 0
    /\ stamped \in BOOLEAN
    /\ floor = NextRefreshAfter(interval, life)
    /\ suspended = FALSE
    /\ status = "active"
    /\ call = Idle
    /\ excused = TooShort(life)

-----------------------------------------------------------------------------
(* The file *)

\* Decode replaces what is not positive by the default.
Reconfigure(i) ==
    /\ interval' = i
    /\ UNCHANGED <<record, suspended, status, call, excused>>

\* last_refresh is kept; a file without one gets now, each time.
SinceRefresh == IF stamped THEN age ELSE 0

\* The record that auth.parse builds.
Parsed ==
    /\ lead' = interval
    /\ age' = SinceRefresh
    /\ floor' = NextRefreshAfter(interval, life)
    /\ stamped' \in {stamped, TRUE}
    /\ UNCHANGED life

\* Any event of the file: a weight, a priority, the host's own save.
Parse ==
    /\ Parsed
    /\ UNCHANGED <<config, suspended, status, call, excused>>

\* The console's suspend or resume, once parsed.
Toggle ==
    /\ Parsed
    /\ suspended' = ~suspended
    /\ excused' = TRUE
    /\ UNCHANGED <<config, status, call>>

-----------------------------------------------------------------------------
(* The refresh *)

\* The host's shouldRefresh.
Due ==
    /\ status = "active" /\ ~suspended
    /\ floor = 0
    /\ age >= lead \/ (life # NoExpiry /\ life <= lead)

RefreshStarts ==
    /\ call.phase = "idle"
    /\ Due
    /\ call' = [phase |-> "asking", interval |-> interval, taken |-> 0]
    /\ UNCHANGED <<config, record, suspended, status, excused>>

\* buildAuthData with last_refresh "now", and the floor by one of the intervals
\* configured meanwhile.
Issued(l, intervals) ==
    /\ life' = l
    /\ age' = 0 /\ stamped' \in BOOLEAN
    /\ lead' = interval
    /\ floor' \in {NextRefreshAfter(i, l) : i \in intervals}
    /\ excused' = (suspended' \/ TooShort(l))

\* The floor is computed twice, by the configuration of when the refresh began
\* and by that of its end.
RefreshSucceeds(l) ==
    /\ call.phase = "asking"
    /\ UNCHANGED suspended
    /\ Issued(l, {interval, call.interval} \cap Intervals)
    /\ call' = Idle
    /\ UNCHANGED <<config, status>>

\* BackendError.Unauthorized: the credential itself was rejected.
Unauthorized(s) == s \in {400, 401, 403, 404}

\* An error of the backend or of the way to it, or a 2xx without a token: the
\* host's record is unauthorized, or it is tried again after a while.
RefreshFails(s) ==
    /\ call.phase = "asking"
    /\ call' = Idle
    /\ excused' = TRUE
    /\ IF Unauthorized(s)
       THEN status' = "unauthorized" /\ UNCHANGED floor
       ELSE floor' = Backoff /\ UNCHANGED status
    /\ UNCHANGED <<config, lead, life, age, stamped, suspended>>

\* auth.login.poll hands a new credential over, not suspended: at any time, a
\* refresh of the old one may be under way.
SignIn(l) ==
    /\ status' = "active"
    /\ suspended' = FALSE
    /\ Issued(l, {interval})
    /\ UNCHANGED <<config, call>>

\* The host looks at its accounts, and a refresh ends, before a tick is over.
Tick ==
    /\ call.phase = "idle" => ~Due
    /\ call.phase = "asking" => call.taken < Latency
    /\ life' = Running(life)
    /\ age' = IF age < Horizon THEN age + 1 ELSE age
    /\ floor' = Sooner(floor)
    /\ call' = IF call.phase = "asking" THEN [call EXCEPT !.taken = call.taken + 1] ELSE call
    /\ UNCHANGED <<config, lead, stamped, suspended, status, excused>>

Next ==
    \/ \E i \in Intervals : Reconfigure(i)
    \/ Parse \/ Toggle
    \/ RefreshStarts
    \/ \E l \in Lives \cup {NoExpiry} : RefreshSucceeds(l) \/ SignIn(l)
    \/ \E s \in Statuses : RefreshFails(s)
    \/ Tick

\* Time passes, the host's loop runs, and a refresh that is tried again and
\* again succeeds at last.
Fairness ==
    /\ WF_vars(Tick)
    /\ WF_vars(RefreshStarts)
    /\ SF_vars(\E l \in Lives : RefreshSucceeds(l))

Spec == Init /\ [][Next]_vars /\ Fairness

-----------------------------------------------------------------------------
(* Properties *)

TypeOK ==
    /\ interval \in Intervals
    /\ lead \in Intervals
    /\ life \in Nat \cup {NoExpiry}
    /\ age \in 0..Horizon
    /\ stamped \in BOOLEAN
    /\ floor \in Nat
    /\ suspended \in BOOLEAN
    /\ status \in {"active", "unauthorized"}
    /\ call \in [phase : {"idle", "asking"}, interval : Intervals \cup {0}, taken : 0..Latency]
    /\ excused \in BOOLEAN

\* An access token with an expiry does not run out while its account is in use
\* and no refresh has failed, however often the file is touched and whatever
\* interval is configured meanwhile.  (NextRefreshAfter, auth.go:274-288, and
\* what Parse makes of it)
NeverLapses == life = 0 => excused

\* Only a failure makes the host ask again for a token that is younger than the
\* shortest interval and not in its last minute.  (the same; auth.go:184-187)
NoNeedlessRefresh ==
    [][RefreshStarts => \/ excused \/ ~stamped
                        \/ \E i \in Intervals : i <= age
                        \/ life # NoExpiry /\ life <= Minute]_vars

\* A token that has run out, after failures or a suspension, is renewed if the
\* account is to be used, even if its file is touched all the time.
\* (auth.go:157-164 and 284)
LapsedRecovers ==
    (life = 0 /\ status = "active" /\ ~suspended)
        ~> (life # 0 \/ status = "unauthorized" \/ suspended)

=============================================================================
