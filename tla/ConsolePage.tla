---------------------------- MODULE ConsolePage ----------------------------
(***************************************************************************)
(* The operator's console: the script of the page (internal/ui/status.go)  *)
(* and the routes it fetches (internal/management/status.go).              *)
(*                                                                         *)
(* The page loads a table, acts on one account or sweeps them all, and     *)
(* loads the table again after each action.  Its fetches are served side   *)
(* by side, account after account, and their answers come in any order, or *)
(* not at all; the operator clicks on meanwhile.                           *)
(***************************************************************************)
EXTENDS Naturals

CONSTANTS
    Accounts,   \* the credentials of this plugin
    Tokens,     \* console tokens
    NoToken,    \* the empty string
    Buttons,    \* the bulk buttons that the operator uses
    Values,     \* of weight and priority; 0 is "default"
    Calls,      \* fetches at once
    NoCall

SuspensionPair == {"suspend_all", "resume_all"}
RoutingPair == {"set_weight_all", "set_priority_all"}
SweepOps == SuspensionPair \cup RoutingPair

ASSUME ButtonAssumption == Buttons \subseteq SweepOps
ASSUME ValueAssumption == 0 \in Values
ASSUME SentinelAssumption == NoToken \notin Tokens /\ NoCall \notin Calls

VARIABLES
    token,      \* what the page sends
    view,       \* "blank" until the first answer; "locked", "open" or "disabled"
    rows,       \* the table, by account
    waiting,    \* per row, the call that its disabled button was clicked for
    armed,      \* the bulk buttons that "Click again to confirm"
    off,        \* the disabled bulk buttons
    calls,      \* the fetches under way
    file,       \* the settings in each account's file
    secret,     \* console_token, as configured at present
    fresh       \* no load was sent since that of the table, and no action has
                \* ended unheard

vars == <<token, view, rows, waiting, armed, off, calls, file, secret, fresh>>
page == <<token, view, rows, waiting, armed, off>>

Settings == [suspended : BOOLEAN, weight : Values, priority : Values]

\* A row: listed is what the host's list of credentials says of the account,
\* whose own record is renewed apart from the file and may say anything;
\* suspended is what is shown, and read whether the file was.
Row == [listed : BOOLEAN, read : BOOLEAN, suspended : BOOLEAN,
        weight : Values, priority : Values]
Listed(flag) ==
    [listed |-> flag, read |-> FALSE, suspended |-> flag, weight |-> 0, priority |-> 0]

\* The stored flag wins over a record that says active, not over one that says
\* suspended.
Shown(settings, row) ==
    [listed |-> row.listed, read |-> TRUE, suspended |-> row.listed \/ settings.suspended,
     weight |-> settings.weight, priority |-> settings.priority]

RowOps == {"suspend", "resume"}
PairOf(b) == IF b \in SuspensionPair THEN SuspensionPair ELSE RoutingPair

NoRows == [a \in Accounts |-> Listed(FALSE)]
NoneWaiting == [a \in Accounts |-> NoCall]

Call == [op : {"none", "load"} \cup RowOps \cup SweepOps, token : Tokens \cup {NoToken},
         value : Values, scope : SUBSET Accounts, left : SUBSET Accounts,
         read : [Accounts -> Row], newest : BOOLEAN, awaited : BOOLEAN,
         stage : {"sent", "serving", "reading", "ok", "error", "forbidden"}]

Idle == [op |-> "none", token |-> NoToken, value |-> 0, scope |-> {}, left |-> {},
         read |-> NoRows, newest |-> FALSE, awaited |-> FALSE, stage |-> "sent"]

Fetch(op, t, value, scope, newest) ==
    [op |-> op, token |-> t, value |-> value, scope |-> scope, left |-> scope,
     read |-> NoRows, newest |-> newest, awaited |-> TRUE, stage |-> "sent"]

LoadCall(t) == Fetch("load", t, 0, Accounts, TRUE)

IsLoad(i) == calls[i].op = "load"
IsRow(i) == calls[i].op \in RowOps
IsSweep(i) == calls[i].op \in SweepOps
Answered(i) == calls[i].awaited /\ calls[i].stage \in {"ok", "error", "forbidden"}

-----------------------------------------------------------------------------
(* Locking and loading *)

\* What the loads under way bring is no longer the last word.
Outdated == [j \in Calls |-> [calls[j] EXCEPT !.newest = FALSE]]

\* setLocked(true), by whoever has set the token.
Lock ==
    /\ view' = "locked"
    /\ rows' = NoRows
    /\ waiting' = NoneWaiting

\* load(), into a free slot or that of the answer that calls for it.
Load(i, t) ==
    /\ fresh' = FALSE
    /\ IF t = NoToken
       THEN /\ Lock
            /\ calls' = [Outdated EXCEPT ![i] = Idle]
       ELSE /\ calls' = [Outdated EXCEPT ![i] = LoadCall(t)]
            /\ UNCHANGED <<view, rows, waiting>>

Init ==
    /\ secret \in Tokens \cup {NoToken}
    /\ token \in Tokens \cup {NoToken}
    /\ view = CASE secret = NoToken -> "disabled"
                [] secret # NoToken /\ token = NoToken -> "locked"
                [] OTHER -> "blank"
    /\ \E i \in Calls : calls = [j \in Calls |-> IF j = i /\ view = "blank"
                                                THEN LoadCall(token) ELSE Idle]
    /\ rows = NoRows /\ waiting = NoneWaiting
    /\ armed = {} /\ off = {}
    /\ file \in [Accounts -> {s \in Settings : s.weight = 0 /\ s.priority = 0}]
    /\ fresh = FALSE

\* The unlock button: remember(), then load(false).
Unlock(i, t) ==
    /\ view = "locked" /\ calls[i] = Idle
    /\ token' = t
    /\ Load(i, t)
    /\ UNCHANGED <<armed, off, file, secret>>

ForgetClick ==
    /\ view = "open"
    /\ token' = NoToken
    /\ Lock
    /\ UNCHANGED <<armed, off, calls, file, secret, fresh>>

\* "Reload" and "Read quota"
ReloadClick(i) ==
    /\ view = "open" /\ calls[i] = Idle
    /\ Load(i, token)
    /\ UNCHANGED <<token, armed, off, file, secret>>

-----------------------------------------------------------------------------
(* Acting *)

\* The button of a row offers the opposite of what the row shows.
RowOp(a) == IF rows[a].suspended THEN "resume" ELSE "suspend"

RowClick(i, a) ==
    /\ view = "open" /\ calls[i] = Idle
    /\ waiting[a] = NoCall
    /\ calls' = [calls EXCEPT ![i] = Fetch(RowOp(a), token, 0, {a}, FALSE)]
    /\ waiting' = [waiting EXCEPT ![a] = i]
    /\ UNCHANGED <<token, view, rows, armed, off, file, secret, fresh>>

\* The first click of a bulk button
Arm(b) ==
    /\ view = "open"
    /\ b \notin off \cup armed
    /\ armed' = armed \cup {b}
    /\ UNCHANGED <<token, view, rows, waiting, off, calls, file, secret, fresh>>

\* ARM_MS are over.
Disarm(b) ==
    /\ b \in armed
    /\ armed' = armed \ {b}
    /\ UNCHANGED <<token, view, rows, waiting, off, calls, file, secret, fresh>>

\* Mutant: only the button that was clicked is disabled.
TurnedOffAlone(b) == {b}

\* suspendAll and resumeAll are disabled together, weightAll and priorityAll too.
TurnedOff(b) == PairOf(b)

\* The second click, with the input's value of now: bulk() and routingApply()
Confirm(i, b, value) ==
    /\ view = "open" /\ calls[i] = Idle
    /\ b \in armed \ off
    /\ b \in SuspensionPair => value = 0
    /\ armed' = armed \ {b}
    /\ off' = off \cup TurnedOff(b)
    /\ calls' = [calls EXCEPT ![i] = Fetch(b, token, value, Accounts, FALSE)]
    /\ UNCHANGED <<token, view, rows, waiting, file, secret, fresh>>

-----------------------------------------------------------------------------
(* The routes *)

Serving(i) == calls[i].op # "none" /\ calls[i].stage = "serving"

\* The answer goes to the page, or nowhere when the page has given up.
Reply(i, stage) ==
    /\ IF calls[i].awaited
       THEN calls' = [calls EXCEPT ![i].stage = stage] /\ UNCHANGED fresh
       ELSE calls' = [Outdated EXCEPT ![i] = Idle] /\ fresh' = FALSE
    /\ UNCHANGED <<page, file, secret>>

Admitted(t) == secret # NoToken /\ t = secret

\* requireConsoleToken
Gate(i) ==
    /\ calls[i].op # "none" /\ calls[i].stage = "sent"
    /\ IF Admitted(calls[i].token)
       THEN /\ calls' = [calls EXCEPT ![i].stage = "serving"]
            /\ UNCHANGED <<page, file, secret, fresh>>
       ELSE Reply(i, "forbidden")

\* The list of accounts, or the one account's file, cannot be had.
Fails(i) ==
    /\ Serving(i) /\ calls[i].left = calls[i].scope
    /\ Reply(i, "error")

\* handleStatusData: AuthList, one answer for all accounts
List(i) ==
    /\ Serving(i) /\ IsLoad(i)
    /\ \E flags \in [Accounts -> BOOLEAN] :
          calls' = [calls EXCEPT ![i] = [calls[i] EXCEPT
                !.stage = "reading", !.read = [a \in Accounts |-> Listed(flags[a])]]]
    /\ UNCHANGED <<page, file, secret, fresh>>

\* handleStatusData: AuthGet of one account, later; a file that cannot be read
\* leaves the row as the list has it.
ReadRow(i, a) ==
    /\ IsLoad(i) /\ calls[i].stage = "reading" /\ a \in calls[i].left
    /\ \E row \in {calls[i].read[a], Shown(file[a], calls[i].read[a])} :
          calls' = [calls EXCEPT ![i] = [calls[i] EXCEPT !.left = calls[i].left \ {a},
                                                         !.read[a] = row]]
    /\ UNCHANGED <<page, file, secret, fresh>>

Edited(settings, op, value) ==
    CASE op \in {"suspend", "suspend_all"} -> [settings EXCEPT !.suspended = TRUE]
      [] op \in {"resume", "resume_all"} -> [settings EXCEPT !.suspended = FALSE]
      [] op = "set_weight_all" -> [settings EXCEPT !.weight = value]
      [] OTHER -> [settings EXCEPT !.priority = value]

\* setSuspended or setRouting for one account; CredentialFiles has what
\* happens between its read and its save.
Change(i, a) ==
    /\ Serving(i) /\ ~IsLoad(i) /\ a \in calls[i].left
    /\ file' = [file EXCEPT ![a] = Edited(file[a], calls[i].op, calls[i].value)]
    /\ calls' = [calls EXCEPT ![i].left = calls[i].left \ {a}]
    /\ UNCHANGED <<page, secret, fresh>>

\* A sweep reports a failure of one account and goes on.
Skip(i, a) ==
    /\ Serving(i) /\ IsSweep(i) /\ a \in calls[i].left
    /\ calls' = [calls EXCEPT ![i].left = calls[i].left \ {a}]
    /\ UNCHANGED <<page, file, secret, fresh>>

Finish(i) ==
    /\ calls[i].stage = "reading" \/ (Serving(i) /\ ~IsLoad(i))
    /\ calls[i].left = {}
    /\ Reply(i, "ok")

\* plugin.reconfigure
Rotate(s) ==
    /\ s # secret
    /\ secret' = s
    /\ UNCHANGED <<page, calls, file, fresh>>

-----------------------------------------------------------------------------
(* The answers *)

\* A stale token is worse than none; the load's answer replaces the table.
LoadArrives(i) ==
    /\ IsLoad(i) /\ Answered(i)
    /\ calls' = [calls EXCEPT ![i] = Idle]
    /\ CASE calls[i].stage = "forbidden" ->
              /\ token' = NoToken
              /\ Lock
              /\ UNCHANGED fresh
         [] calls[i].stage = "error" ->
              UNCHANGED <<token, view, rows, waiting, fresh>>
         [] calls[i].stage = "ok" ->
              /\ view' = "open"
              /\ rows' = calls[i].read
              /\ waiting' = NoneWaiting
              /\ fresh' = calls[i].newest
              /\ UNCHANGED token
    /\ UNCHANGED <<armed, off, file, secret>>

\* Mutant: the table is left as it is.
KeepTable(i) ==
    /\ calls' = [calls EXCEPT ![i] = Idle]
    /\ UNCHANGED <<view, rows, waiting, fresh>>

\* What follows an action that was done.
LoadAgain(i) == Load(i, token)

\* Mutant: the button of a row stays disabled.
LeftWaiting(i) == waiting

\* The buttons of the rows when call i has failed; its own may be gone.
GivenBack(i) == [a \in Accounts |-> IF IsRow(i) /\ a \in calls[i].scope /\ waiting[a] = i
                                    THEN NoCall ELSE waiting[a]]

\* A pair is enabled by the answer of either, and by its failure.
TurnedOn(i) == IF IsSweep(i) THEN off \ PairOf(calls[i].op) ELSE off

ActionArrives(i) ==
    /\ IsRow(i) \/ IsSweep(i)
    /\ Answered(i)
    /\ off' = TurnedOn(i)
    /\ IF calls[i].stage = "ok"
       THEN LoadAgain(i)
       ELSE /\ calls' = [calls EXCEPT ![i] = Idle]
            /\ waiting' = GivenBack(i)
            /\ UNCHANGED <<view, rows, fresh>>
    /\ UNCHANGED <<token, armed, file, secret>>

\* The fetch fails: it never reached the host, its answer did not come back,
\* or it is served without anyone listening.
Lose(i) ==
    /\ calls[i].awaited
    /\ off' = TurnedOn(i)
    /\ waiting' = GivenBack(i)
    /\ IF IsLoad(i)
       THEN calls' = [calls EXCEPT ![i] = Idle] /\ UNCHANGED fresh
       ELSE /\ fresh' = FALSE
            /\ \/ calls' = [Outdated EXCEPT ![i] = Idle]
               \/ ~Answered(i) /\ calls' = [Outdated EXCEPT ![i].awaited = FALSE]
    /\ UNCHANGED <<token, view, rows, armed, file, secret>>

Next ==
    \/ ForgetClick
    \/ \E b \in Buttons : Arm(b) \/ Disarm(b)
    \/ \E s \in Tokens \cup {NoToken} : Rotate(s)
    \/ \E i \in Calls :
          \/ ReloadClick(i)
          \/ \E t \in Tokens : Unlock(i, t)
          \/ \E b \in Buttons, value \in Values : Confirm(i, b, value)
          \/ \E a \in Accounts : RowClick(i, a) \/ ReadRow(i, a) \/ Change(i, a) \/ Skip(i, a)
          \/ Gate(i) \/ Fails(i) \/ List(i) \/ Finish(i)
          \/ LoadArrives(i) \/ ActionArrives(i) \/ Lose(i)

Spec == Init /\ [][Next]_vars

-----------------------------------------------------------------------------
(* Properties *)

TypeOK ==
    /\ token \in Tokens \cup {NoToken}
    /\ view \in {"blank", "locked", "open", "disabled"}
    /\ rows \in [Accounts -> Row]
    /\ waiting \in [Accounts -> Calls \cup {NoCall}]
    /\ armed \subseteq Buttons
    /\ off \subseteq SweepOps
    /\ calls \in [Calls -> Call]
    /\ file \in [Accounts -> Settings]
    /\ secret \in Tokens \cup {NoToken}
    /\ fresh \in BOOLEAN

\* No call of this page is about to change the account, or has just done so.
Untouched(a) == \A i \in Calls : IsLoad(i) \/ a \notin calls[i].scope

\* What a row shows of a file that was read: its settings; and that it is
\* suspended, if it is, while only the host's list may have said so wrongly.
AsInFile(row, settings) ==
    row.read => /\ row.weight = settings.weight
                /\ row.priority = settings.priority
                /\ settings.suspended => row.suspended
                /\ row.suspended => settings.suspended \/ row.listed

\* Once the last load that was sent is shown, the table has every account as
\* its file has it, whatever was clicked, served out of order or half failed,
\* unless an action on the account is under way.  (load(false) after each
\* action, status.go:170, 290 and 348)
TableFollowsActions ==
    view = "open" /\ fresh =>
        \A a \in Accounts : Untouched(a) => AsInFile(rows[a], file[a])

AwaitedSweep(i) == IsSweep(i) /\ calls[i].awaited

\* The page never waits for two sweeps of one pair, and the pair is disabled
\* exactly while it waits for one, whether that is answered or lost.
\* (status.go:272-296, 329-354)
OneSweepAtATime ==
    /\ \A i, j \in Calls : AwaitedSweep(i) /\ AwaitedSweep(j)
                             /\ calls[j].op \in PairOf(calls[i].op) => i = j
    /\ \A b \in SweepOps : b \in off <=> \E i \in Calls : AwaitedSweep(i) /\ b \in PairOf(calls[i].op)

\* When the page waits for nothing and its table is the last that was asked
\* for, every button of a row works.  (status.go:168 and 172; when the load
\* after an action fails, the row's button is dead until the next load.)
NothingStaysDisabled ==
    view = "open" /\ fresh /\ (\A i \in Calls : ~calls[i].awaited) => waiting = NoneWaiting

=============================================================================
