----------------------------- MODULE QuotaCache ----------------------------
(***************************************************************************)
(* The quota readings (internal/quota/quota.go): a cache, the probes that  *)
(* fill it and what keeps them from spending the accounts' request slots.  *)
(* Page loads and the panel's card go through ProbeCached, a token refresh *)
(* and a sign-in through ProbeAsync, and suspending an account forgets its *)
(* reading.  quota_probe is on.                                            *)
(*                                                                         *)
(* A reading is what its age tells: every probe leaves one, a failed one   *)
(* as well, dated when the probe began.                                    *)
(***************************************************************************)
EXTENDS Integers, FiniteSets

CONSTANTS
    Accounts,       \* by their email
    Probers,        \* calls of Probe at once
    MinInterval,    \* minInterval, in ticks
    NoAccount

ASSUME IntervalAssumption == MinInterval \in Nat \ {0}
ASSUME SentinelAssumption == NoAccount \notin Accounts
ASSUME ProberAssumption == IsFiniteSet(Probers)

VARIABLES
    cache,      \* the age of each account's reading, if there is one
    probe,      \* whose account a prober asks for, since when
    recent      \* for each age less than MinInterval, how many probes page
                \* loads have begun that are no older; from the last Forget on

vars == <<cache, probe, recent>>

Ages == 0 .. MinInterval
Window == 0 .. MinInterval - 1
IdleProbe == [account |-> NoAccount, age |-> 0, async |-> FALSE]

Init ==
    /\ cache = [a \in Accounts |-> {}]
    /\ probe = [p \in Probers |-> IdleProbe]
    /\ recent = [a \in Accounts |-> [k \in Window |-> 0]]

Idle(p) == probe[p].account = NoAccount

\* Mutant: a reload always gets a new reading.
SparedUnlessForced(a, force) == cache[a] # {} /\ ~force

\* The cached reading has to do.
Spared(a, force) ==
    \E age \in cache[a] : ~force \/ age < MinInterval

ProbeCached(p, a, force) ==
    /\ Idle(p)
    /\ ~Spared(a, force)
    /\ probe' = [probe EXCEPT ![p] = [account |-> a, age |-> 0, async |-> FALSE]]
    /\ recent' = [recent EXCEPT ![a] = [k \in Window |-> recent[a][k] + 1]]
    /\ UNCHANGED cache

ProbeAsync(p, a) ==
    /\ Idle(p)
    /\ probe' = [probe EXCEPT ![p] = [account |-> a, age |-> 0, async |-> TRUE]]
    /\ UNCHANGED <<cache, recent>>

\* Mutant: a probe that failed leaves no reading.
StoreOrNot(p) ==
    /\ ~Idle(p)
    /\ cache' \in {cache, [cache EXCEPT ![probe[p].account] = {probe[p].age}]}
    /\ probe' = [probe EXCEPT ![p] = IdleProbe]
    /\ UNCHANGED recent

\* Mutant: the reading of a probe that failed has no date.
StoreUndated(p) ==
    /\ ~Idle(p)
    /\ cache' = [cache EXCEPT ![probe[p].account] = {MinInterval + 1}]
    /\ probe' = [probe EXCEPT ![p] = IdleProbe]
    /\ UNCHANGED recent

\* The relay has answered, or the call has failed.
Store(p) ==
    /\ ~Idle(p)
    /\ cache' = [cache EXCEPT ![probe[p].account] = {probe[p].age}]
    /\ probe' = [probe EXCEPT ![p] = IdleProbe]
    /\ UNCHANGED recent

\* The detached goroutine of ProbeAsync has panicked.
Recovered(p) ==
    /\ probe[p].async
    /\ probe' = [probe EXCEPT ![p] = IdleProbe]
    /\ UNCHANGED <<cache, recent>>

\* setSuspended
Forget(a) ==
    /\ cache' = [cache EXCEPT ![a] = {}]
    /\ recent' = [recent EXCEPT ![a] = [k \in Window |-> 0]]
    /\ UNCHANGED probe

Older(age) == IF age < MinInterval THEN age + 1 ELSE age

Tick ==
    /\ cache' = [a \in Accounts |-> {Older(age) : age \in cache[a]}]
    /\ probe' = [p \in Probers |->
            IF Idle(p) THEN probe[p] ELSE [probe[p] EXCEPT !.age = Older(@)]]
    /\ recent' = [a \in Accounts |->
            [k \in Window |-> IF k = 0 THEN 0 ELSE recent[a][k - 1]]]

Next ==
    \/ \E p \in Probers :
        \/ \E a \in Accounts :
            \/ \E force \in BOOLEAN : ProbeCached(p, a, force)
            \/ ProbeAsync(p, a)
        \/ Store(p) \/ Recovered(p)
    \/ \E a \in Accounts : Forget(a)
    \/ Tick

Spec == Init /\ [][Next]_vars

-----------------------------------------------------------------------------

\* The state has its types, and there is one reading to an account at most, no
\* older than the interval it is good for.
TypeOK ==
    /\ cache \in [Accounts -> SUBSET Ages]
    /\ \A a \in Accounts : \A x, y \in cache[a] : x = y
    /\ probe \in [Probers -> [account : Accounts \cup {NoAccount}, age : Ages,
                              async : BOOLEAN]]
    /\ recent \in [Accounts -> [Window -> Nat]]

\* The minimum interval "still keeps a rapid reload from spending a request
\* slot each time" (handleQuotaRoute): however many pages reload however fast,
\* and although a slow probe may put an older reading in the place of a newer
\* one, an account pays for no more probes in any MinInterval than the calls that
\* run at once can explain.
ReloadsAreRationed ==
    LET n == Cardinality(Probers)
    IN  \A a \in Accounts : recent[a][MinInterval - 1] <= (n * (n + 1)) \div 2

\* "Everything else reads the cache, so leaving the console open costs nothing"
\* (README.md): without a reload, an account is probed time and again only if it is
\* suspended time and again.
OpenConsoleCostsNothing ==
    \A a \in Accounts :
        []<><<\E p \in Probers : ProbeCached(p, a, FALSE)>>_vars => []<><<Forget(a)>>_vars

=============================================================================
