-------------------------- MODULE CredentialFiles --------------------------
(***************************************************************************)
(* The stored credentials and everyone who writes them: the console's      *)
(* suspend, resume, weight and priority requests, which read a file, edit  *)
(* it and save it (internal/management/status.go), the token refresh and   *)
(* the sign-in (internal/auth/auth.go), which rebuild it, and the host,    *)
(* which parses it again after every write.                                *)
(*                                                                         *)
(* The requests walk their accounts one by one, but two of them, and a     *)
(* refresh, run at the same time: nothing locks a file.                    *)
(***************************************************************************)
EXTENDS Integers

CONSTANTS
    Accounts,   \* the credentials of this plugin
    Requests,   \* console requests at once
    Keys,       \* SuspendedKey, WeightKey and PriorityKey
    Values,     \* of a key; 0 is its absence, and "not suspended"
    MaxPairs,   \* bound on the token pairs of an account
    NoAccount

ASSUME KeyAssumption == "suspended" \in Keys
ASSUME ValueAssumption == {0, 1} \subseteq Values /\ Values \subseteq Nat
ASSUME BoundAssumption == MaxPairs \in Nat \ {0}
ASSUME SentinelAssumption == NoAccount \notin Accounts

VARIABLES
    file,       \* the file of each account
    runtime,    \* the settings that the host schedules each account by
    changed,    \* the accounts whose file the host has yet to parse again
    issued,     \* how many token pairs the backend has issued to each account
    valid,      \* those whose refresh token it accepts
    request,    \* a console request and what it is about
    refresh,    \* the auth.refresh call of each account
    settled     \* the requests that an account was "changed" or "skipped" for,
                \* and whose answer is still to be relied on

vars == <<file, runtime, changed, issued, valid, request, refresh, settled>>

Settings == [Keys -> Values]
Unset == [k \in Keys |-> 0]

Credential == [pair : Nat, settings : Settings]
NoCopy == [pair |-> 0, settings |-> Unset]

IdleRefresh == [phase |-> "idle", copy |-> NoCopy, pair |-> 0]

Init ==
    /\ file = [a \in Accounts |-> [pair |-> 1, settings |-> Unset]]
    /\ runtime = [a \in Accounts |-> Unset]
    /\ changed = {}
    /\ issued = [a \in Accounts |-> 1]
    /\ valid = [a \in Accounts |-> {1}]
    /\ request = [r \in Requests |-> [phase |-> "idle", key |-> "suspended", value |-> 0,
                                      todo |-> {}, at |-> NoAccount, copy |-> NoCopy]]
    /\ refresh = [a \in Accounts |-> IdleRefresh]
    /\ settled = [a \in Accounts |-> {}]

-----------------------------------------------------------------------------
(* The console: toggleOne and toggleAll, setRoutingAll *)

\* op=suspend, resume and their _all forms, set_weight_all or set_priority_all.
Ask(r, key, value, accounts) ==
    /\ request[r].phase = "idle"
    /\ key = "suspended" => value \in {0, 1}
    /\ request' = [request EXCEPT ![r] = [@ EXCEPT !.phase = "sweeping", !.key = key,
                                                   !.value = value, !.todo = accounts]]
    /\ settled' = [a \in Accounts |-> settled[a] \ {r}]
    /\ UNCHANGED <<file, runtime, changed, issued, valid, refresh>>

InTargetState(r, a) == file[a].settings[request[r].key] = request[r].value

Skipped(r, a) ==
    /\ request[r].phase = "sweeping" /\ a \in request[r].todo
    /\ InTargetState(r, a)
    /\ request' = [request EXCEPT ![r].todo = @ \ {a}]
    /\ settled' = [settled EXCEPT ![a] = @ \cup {r}]
    /\ UNCHANGED <<file, runtime, changed, issued, valid, refresh>>

\* Mutant: the save is made although nothing changes.
ReadAndSave(r, a) ==
    /\ request[r].phase = "sweeping" /\ a \in request[r].todo
    /\ request' = [request EXCEPT ![r] = [@ EXCEPT !.phase = "saving", !.at = a, !.copy = file[a],
                                                   !.todo = request[r].todo \ {a}]]
    /\ UNCHANGED <<file, runtime, changed, issued, valid, refresh, settled>>

\* AuthGet and Decode have brought a file that is to be changed.
Read(r, a) ==
    /\ request[r].phase = "sweeping" /\ a \in request[r].todo
    /\ ~InTargetState(r, a)
    /\ request' = [request EXCEPT ![r] = [@ EXCEPT !.phase = "saving", !.at = a, !.copy = file[a],
                                                   !.todo = request[r].todo \ {a}]]
    /\ UNCHANGED <<file, runtime, changed, issued, valid, refresh, settled>>

\* The file cannot be read or is another provider's: the sweep goes on.
ReadFails(r, a) ==
    /\ request[r].phase = "sweeping" /\ a \in request[r].todo
    /\ request' = [request EXCEPT ![r].todo = @ \ {a}]
    /\ UNCHANGED <<file, runtime, changed, issued, valid, refresh, settled>>

\* Mutant: the file is decoded into a struct that lacks the tokens.
ToggledAsStruct(copy, key, value) ==
    [pair |-> 0, settings |-> [copy.settings EXCEPT ![key] = value]]

\* SetSuspended and SetInt, on the map that holds all the file.
Toggled(copy, key, value) == [copy EXCEPT !.settings[key] = value]

\* The answers that a write made from this copy leaves in force.
Undisturbed(a, copy) == IF copy.settings = file[a].settings THEN settled[a] ELSE {}

SameKey(r) == {q \in Requests : request[q].key = request[r].key}

\* The call of AuthSave is over: on to the next account.
LetGo(r) ==
    /\ request[r].phase = "saving"
    /\ request' = [request EXCEPT ![r] = [@ EXCEPT !.phase = "sweeping",
                                                   !.at = NoAccount, !.copy = NoCopy]]

\* The host writes the file; its own record is active until it parses it.
Written(r) ==
    LET a == request[r].at
    IN  /\ file' = [file EXCEPT ![a] = Toggled(request[r].copy, request[r].key, request[r].value)]
        /\ runtime' = [runtime EXCEPT ![a] = Unset]
        /\ changed' = changed \cup {a}

StillInForce(r) == Undisturbed(request[r].at, request[r].copy) \ SameKey(r)

Save(r) ==
    /\ LetGo(r) /\ Written(r)
    /\ settled' = [settled EXCEPT ![request[r].at] = StillInForce(r) \cup {r}]
    /\ UNCHANGED <<issued, valid, refresh>>

\* The save fails, or its answer does although the host has written the file.
SaveFails(r) ==
    /\ LetGo(r)
    /\ \/ UNCHANGED <<file, runtime, changed, settled>>
       \/ /\ Written(r)
          /\ settled' = [settled EXCEPT ![request[r].at] = StillInForce(r)]
    /\ UNCHANGED <<issued, valid, refresh>>

Answer(r) ==
    /\ request[r].phase = "sweeping" /\ request[r].todo = {}
    /\ request' = [request EXCEPT ![r].phase = "idle"]
    /\ UNCHANGED <<file, runtime, changed, issued, valid, refresh, settled>>

-----------------------------------------------------------------------------
(* auth.refresh, auth.login.poll and auth.parse *)

\* The host refreshes an account every RefreshIntervalSeconds, by default 25
\* minutes; no request is at one file so long that two refreshes fit.
RefreshStarts(a) ==
    /\ refresh[a].phase = "idle"
    /\ \A r \in Requests :
        request[r].at = a => request[r].copy.pair = file[a].pair
    /\ refresh' = [refresh EXCEPT ![a] = [@ EXCEPT !.phase = "asking", !.copy = file[a]]]
    /\ UNCHANGED <<file, runtime, changed, issued, valid, request, settled>>

\* "Rotates the refresh token, but the previous one stays valid": what was
\* issued before the token presented is retired.
RefreshRotates(a) ==
    LET presented == refresh[a].copy.pair
    IN  /\ refresh[a].phase = "asking"
        /\ presented \in valid[a]
        /\ issued[a] < MaxPairs
        /\ issued' = [issued EXCEPT ![a] = @ + 1]
        /\ valid' = [valid EXCEPT ![a] = {p \in @ : p >= presented} \cup {issued'[a]}]
        /\ refresh' = [refresh EXCEPT ![a] = [@ EXCEPT !.phase = "rotated",
                                                       !.pair = issued'[a]]]
        /\ UNCHANGED <<file, runtime, changed, request, settled>>

\* "Keep the previous refresh token when the backend does not rotate."
RefreshKeeps(a) ==
    /\ refresh[a].phase = "asking"
    /\ refresh[a].copy.pair \in valid[a]
    /\ refresh' = [refresh EXCEPT ![a] = [@ EXCEPT !.phase = "rotated",
                                                   !.pair = refresh[a].copy.pair]]
    /\ UNCHANGED <<file, runtime, changed, issued, valid, request, settled>>

\* A transport error, a refusal, or a crash of the proxy: before the backend has
\* rotated the token, or after.
RefreshFails(a) ==
    /\ refresh[a].phase # "idle"
    /\ refresh' = [refresh EXCEPT ![a] = IdleRefresh]
    /\ UNCHANGED <<file, runtime, changed, issued, valid, request, settled>>

\* Mutant: only the suspension rides through the rebuild.
RebuiltWithoutKnobs(copy, pair) ==
    [pair |-> pair, settings |-> [Unset EXCEPT !["suspended"] = copy.settings["suspended"]]]

\* buildAuthData
Rebuilt(copy, pair) == [pair |-> pair, settings |-> copy.settings]

\* The host saves the record that Refresh hands back, and schedules by it.
RefreshReturns(a) ==
    LET copy == refresh[a].copy
    IN  /\ refresh[a].phase = "rotated"
        /\ file' = [file EXCEPT ![a] = Rebuilt(copy, refresh[a].pair)]
        /\ runtime' = [runtime EXCEPT ![a] = copy.settings]
        /\ changed' = changed \cup {a}
        /\ settled' = [settled EXCEPT ![a] = Undisturbed(a, copy)]
        /\ refresh' = [refresh EXCEPT ![a] = IdleRefresh]
        /\ UNCHANGED <<issued, valid, request>>

\* A new sign-in to the account: LoginPoll rebuilds its file from nothing.
SignedIn(a) ==
    /\ issued[a] < MaxPairs
    /\ issued' = [issued EXCEPT ![a] = @ + 1]
    /\ valid' = [valid EXCEPT ![a] = @ \cup {issued'[a]}]
    /\ file' = [file EXCEPT ![a] = Rebuilt(NoCopy, issued'[a])]
    /\ runtime' = [runtime EXCEPT ![a] = Unset]
    /\ changed' = changed \cup {a}
    /\ settled' = [settled EXCEPT ![a] = {}]
    /\ UNCHANGED <<request, refresh>>

\* Mutant: the host's own flag is read, which it reverts on every save.
ParsedByHostFlag(credential) == [credential.settings EXCEPT !["suspended"] = 0]

Parsed(credential) == credential.settings

\* The host has noticed a write, and calls auth.parse.
Parse(a) ==
    /\ a \in changed
    /\ runtime' = [runtime EXCEPT ![a] = Parsed(file[a])]
    /\ changed' = changed \ {a}
    /\ UNCHANGED <<file, issued, valid, request, refresh, settled>>

-----------------------------------------------------------------------------

RequestStep(r) ==
    \/ \E key \in Keys, value \in Values :
        \/ Ask(r, key, value, Accounts)
        \/ key = "suspended" /\ \E a \in Accounts : Ask(r, key, value, {a})
    \/ \E a \in Accounts : Skipped(r, a) \/ Read(r, a) \/ ReadFails(r, a)
    \/ Save(r) \/ SaveFails(r) \/ Answer(r)

AccountStep(a) ==
    \/ RefreshStarts(a) \/ RefreshRotates(a) \/ RefreshKeeps(a)
    \/ RefreshFails(a) \/ RefreshReturns(a)
    \/ SignedIn(a) \/ Parse(a)

Next ==
    \/ \E r \in Requests : RequestStep(r)
    \/ \E a \in Accounts : AccountStep(a)

\* The host parses every file that was written.
Spec == Init /\ [][Next]_vars /\ \A a \in Accounts : WF_vars(Parse(a))

-----------------------------------------------------------------------------

\* The state has its types, and a request saves only what it changes ("an
\* account already in the target state is left untouched").
TypeOK ==
    /\ file \in [Accounts -> Credential]
    /\ runtime \in [Accounts -> Settings]
    /\ changed \subseteq Accounts
    /\ issued \in [Accounts -> Nat]
    /\ valid \in [Accounts -> SUBSET Nat]
    /\ request \in [Requests ->
            [phase : {"idle", "sweeping", "saving"}, key : Keys, value : Values,
             todo : SUBSET Accounts, at : Accounts \cup {NoAccount}, copy : Credential]]
    /\ refresh \in [Accounts ->
            [phase : {"idle", "asking", "rotated"}, copy : Credential, pair : Nat]]
    /\ settled \in [Accounts -> SUBSET Requests]
    /\ \A r \in Requests :
        /\ request[r].phase = "saving" <=> request[r].at # NoAccount
        /\ request[r].phase = "saving" =>
            request[r].copy.settings[request[r].key] # request[r].value

\* What a request answered, changed or skipped, holds: the account is suspended,
\* or has its weight, until somebody asks otherwise, it is signed in to anew, or
\* a write lands that was read before another one.  Refreshes, saves of other
\* keys and of tokens that were rotated meanwhile leave it alone.
AnswersHold ==
    \A a \in Accounts : \A r \in settled[a] : InTargetState(r, a)

\* "Toggling in place keeps the refresh token, so a resumed account never needs to
\* log in again" (setSuspended): the backend accepts the token of every file,
\* however toggles, refreshes, lost answers and sign-ins have interleaved.
NeverLockedOut == \A a \in Accounts : file[a].pair \in valid[a]

\* What the file says of the account is in the end what the host schedules by,
\* although every save makes the account active until it is parsed ("the stored
\* flag is authoritative", handleStatusData).
RuntimeFollowsFile ==
    \A a \in Accounts : \A s \in Settings :
        <>[](file[a].settings = s) => <>[](runtime[a] = s)

\* "The provider-owned suspended field in the auth file survives the round
\* trip" (README.md): a suspended account is put back by a request to resume it,
\* or a sign-in, and by nothing else.
SuspensionSticks ==
    [][\A a \in Accounts :
        file[a].settings["suspended"] = 1 /\ file'[a].settings["suspended"] = 0
            => \/ SignedIn(a)
               \/ \E r \in Requests :
                    request[r].at = a /\ request[r].key = "suspended"]_vars

=============================================================================
