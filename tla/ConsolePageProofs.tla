------------------------- MODULE ConsolePageProofs -------------------------
(* Theorems about ConsolePage, for any accounts, tokens, values and number of fetches. *)
EXTENDS ConsolePage, TLAPS

\* What a fetch is at each of its stages: a free slot is Idle, a call that was
\* refused or failed has done nothing, one that succeeded has done all, a load
\* has read no file of the accounts it is still to read, and only an action
\* outlives the page's interest.
CallShape ==
    \A i \in Calls :
        /\ calls[i].left \subseteq calls[i].scope
        /\ calls[i].op = "none" => calls[i].scope = {} /\ ~calls[i].awaited
        /\ calls[i].stage \in {"sent", "error", "forbidden"} => calls[i].left = calls[i].scope
        /\ calls[i].stage = "ok" => calls[i].left = {}
        /\ IsLoad(i) /\ calls[i].stage = "serving" => calls[i].left = calls[i].scope
        /\ IsLoad(i) => /\ calls[i].scope = Accounts
                        /\ \A a \in calls[i].left : ~calls[i].read[a].read

\* Action i, under way, is about the account and has changed some account.
Started(i, a) == a \in calls[i].scope /\ ~IsLoad(i) /\ calls[i].left # calls[i].scope

Unchanged(a) == \A i \in Calls : ~Started(i, a)

\* The newest load has read, and a fresh table shows, what the file still holds
\* unless an action has since come to it.
ReadsAreCurrent ==
    /\ \A i \in Calls : IsLoad(i) /\ calls[i].newest =>
          \A a \in Accounts \ calls[i].left :
              Unchanged(a) => AsInFile(calls[i].read[a], file[a])
    /\ fresh => \A a \in Accounts : Unchanged(a) => AsInFile(rows[a], file[a])

\* A dead button of a fresh table is waiting for a call that is still awaited.
WaitingIsAwaited ==
    fresh => \A a \in Accounts : waiting[a] # NoCall =>
                 /\ calls[waiting[a]].awaited
                 /\ IsRow(waiting[a])
                 /\ calls[waiting[a]].scope = {a}

LEMMA Basics ==
    /\ \A flag \in BOOLEAN : Listed(flag) \in Row
    /\ NoRows \in [Accounts -> Row]
    /\ NoneWaiting \in [Accounts -> Calls \cup {NoCall}]
    /\ Idle \in Call
  BY ValueAssumption DEF Listed, Row, NoRows, NoneWaiting, Idle, Call

LEMMA FetchType ==
    ASSUME NEW op \in {"load"} \cup RowOps \cup SweepOps, NEW t \in Tokens \cup {NoToken},
           NEW value \in Values, NEW scope \in SUBSET Accounts, NEW newest \in BOOLEAN
    PROVE  /\ Fetch(op, t, value, scope, newest) \in Call
           /\ Fetch(op, t, value, scope, newest).op = op
           /\ Fetch(op, t, value, scope, newest).scope = scope
           /\ Fetch(op, t, value, scope, newest).left = scope
           /\ Fetch(op, t, value, scope, newest).awaited
           /\ Fetch(op, t, value, scope, newest).stage = "sent"
           /\ Fetch(op, t, value, scope, newest).newest = newest
  BY Basics DEF Fetch, Call

LEMMA EditedType ==
    ASSUME NEW s \in Settings, NEW op, NEW value \in Values
    PROVE  Edited(s, op, value) \in Settings
  BY DEF Edited, Settings

LEMMA ShownType ==
    ASSUME NEW settings \in Settings, NEW row \in Row
    PROVE  Shown(settings, row) \in Row /\ AsInFile(Shown(settings, row), settings)
  BY DEF Shown, Row, Settings, AsInFile

LEMMA RowOpType == ASSUME NEW a \in Accounts PROVE RowOp(a) \in RowOps
  BY DEF RowOp, RowOps

LEMMA PairFacts ==
    /\ \A b \in SweepOps : b \in PairOf(b) /\ PairOf(b) \subseteq SweepOps
    /\ \A b, c, d \in SweepOps : d \in PairOf(b) /\ d \in PairOf(c) => c \in PairOf(b)
  BY DEF PairOf, SweepOps, SuspensionPair, RoutingPair

-----------------------------------------------------------------------------
(* What the parts of the steps do *)

LEMMA OutdatedType ==
    ASSUME TypeOK
    PROVE  /\ Outdated \in [Calls -> Call]
           /\ \A j \in Calls :
                /\ Outdated[j].op = calls[j].op /\ Outdated[j].scope = calls[j].scope
                /\ Outdated[j].left = calls[j].left /\ Outdated[j].awaited = calls[j].awaited
                /\ Outdated[j].stage = calls[j].stage /\ Outdated[j].read = calls[j].read
                /\ ~Outdated[j].newest
  <1> SUFFICES ASSUME NEW j \in Calls
               PROVE  /\ Outdated[j] \in Call
                      /\ Outdated[j].op = calls[j].op /\ Outdated[j].scope = calls[j].scope
                      /\ Outdated[j].left = calls[j].left
                      /\ Outdated[j].awaited = calls[j].awaited
                      /\ Outdated[j].stage = calls[j].stage
                      /\ Outdated[j].read = calls[j].read /\ ~Outdated[j].newest
    BY DEF Outdated
  <1>1. calls[j] \in Call /\ Outdated[j] = [calls[j] EXCEPT !.newest = FALSE]
    BY DEF Outdated, TypeOK
  <1> QED BY <1>1 DEF Call

LEMMA LoadType ==
    ASSUME TypeOK, NEW i \in Calls, NEW t \in Tokens \cup {NoToken}, Load(i, t)
    PROVE  /\ view' \in {"blank", "locked", "open", "disabled"}
           /\ rows' \in [Accounts -> Row]
           /\ waiting' \in [Accounts -> Calls \cup {NoCall}]
           /\ calls' \in [Calls -> Call]
           /\ fresh' = FALSE
           /\ calls'[i] = Idle \/ calls'[i] = LoadCall(t)
           /\ \A j \in Calls \ {i} : calls'[j] = Outdated[j]
  <1>1. LoadCall(t) \in Call
    BY FetchType, ValueAssumption DEF LoadCall
  <1>2. CASE t = NoToken
    BY <1>2, Basics, OutdatedType DEF Load, Lock, TypeOK
  <1>3. CASE t # NoToken
    BY <1>1, <1>3, OutdatedType DEF Load, TypeOK
  <1> QED BY <1>2, <1>3

LEMMA ReplyType ==
    ASSUME TypeOK, NEW i \in Calls, NEW stage \in {"ok", "error", "forbidden"}, Reply(i, stage)
    PROVE  /\ calls' \in [Calls -> Call]
           /\ fresh' \in BOOLEAN
           /\ UNCHANGED <<token, view, rows, waiting, armed, off, file, secret>>
           /\ IF calls[i].awaited
              THEN calls' = [calls EXCEPT ![i].stage = stage] /\ fresh' = fresh
              ELSE calls' = [Outdated EXCEPT ![i] = Idle] /\ fresh' = FALSE
  <1>1. [calls[i] EXCEPT !.stage = stage] \in Call
    BY DEF TypeOK, Call
  <1>2. CASE calls[i].awaited
    BY <1>1, <1>2 DEF Reply, TypeOK, page
  <1>3. CASE ~calls[i].awaited
    BY <1>3, OutdatedType, Basics DEF Reply, TypeOK, page
  <1> QED BY <1>2, <1>3

-----------------------------------------------------------------------------

\* Every state is well formed: in particular a button waits for a call that
\* exists, and only the bulk buttons are ever disabled in pairs.
THEOREM TypeCorrect == Spec => []TypeOK
<1>1. Init => TypeOK
  <2> SUFFICES ASSUME Init PROVE TypeOK
    OBVIOUS
  <2>1. LoadCall(token) \in Call
    BY FetchType, ValueAssumption DEF LoadCall, Init
  <2>2. calls \in [Calls -> Call]
    BY <2>1, Basics DEF Init
  <2> QED BY <2>2, Basics DEF Init, TypeOK
<1>2. TypeOK /\ [Next]_vars => TypeOK'
  <2> SUFFICES ASSUME TypeOK, [Next]_vars PROVE TypeOK'
    OBVIOUS
  <2>1. CASE UNCHANGED vars
    BY <2>1 DEF TypeOK, vars
  <2>2. CASE ForgetClick
    BY <2>2, Basics DEF ForgetClick, Lock, TypeOK
  <2>3. CASE \E b \in Buttons : Arm(b) \/ Disarm(b)
    BY <2>3 DEF Arm, Disarm, TypeOK
  <2>4. CASE \E s \in Tokens \cup {NoToken} : Rotate(s)
    BY <2>4 DEF Rotate, TypeOK, page
  <2>5. ASSUME NEW i \in Calls, ReloadClick(i) PROVE TypeOK'
    BY <2>5, LoadType DEF ReloadClick, TypeOK
  <2>6. ASSUME NEW i \in Calls, NEW t \in Tokens, Unlock(i, t) PROVE TypeOK'
    BY <2>6, LoadType DEF Unlock, TypeOK
  <2>7. ASSUME NEW i \in Calls, NEW b \in Buttons, NEW value \in Values, Confirm(i, b, value)
        PROVE TypeOK'
    <3>1. b \in SweepOps /\ TurnedOff(b) \subseteq SweepOps
      BY ButtonAssumption, PairFacts DEF TurnedOff
    <3>2. Fetch(b, token, value, Accounts, FALSE) \in Call
      BY <3>1, FetchType DEF TypeOK
    <3> QED BY <2>7, <3>1, <3>2 DEF Confirm, TypeOK
  <2>8. ASSUME NEW i \in Calls, NEW a \in Accounts, RowClick(i, a) PROVE TypeOK'
    <3>1. Fetch(RowOp(a), token, 0, {a}, FALSE) \in Call
      BY FetchType, RowOpType, ValueAssumption DEF TypeOK
    <3> QED BY <2>8, <3>1 DEF RowClick, TypeOK
  <2>9. ASSUME NEW i \in Calls, NEW a \in Accounts, ReadRow(i, a) PROVE TypeOK'
    <3>1. PICK row \in {calls[i].read[a], Shown(file[a], calls[i].read[a])} :
              calls' = [calls EXCEPT ![i] = [calls[i] EXCEPT !.left = calls[i].left \ {a},
                                                             !.read[a] = row]]
      BY <2>9 DEF ReadRow
    <3>2. calls[i] \in Call /\ row \in Row
      BY ShownType DEF TypeOK, Call
    <3>3. [calls[i] EXCEPT !.left = calls[i].left \ {a}, !.read[a] = row] \in Call
      BY <3>2 DEF Call
    <3> QED BY <2>9, <3>1, <3>3 DEF ReadRow, TypeOK, page
  <2>10. ASSUME NEW i \in Calls, NEW a \in Accounts, Change(i, a) PROVE TypeOK'
    <3>1. calls[i] \in Call /\ file[a] \in Settings
      BY DEF TypeOK
    <3>2. Edited(file[a], calls[i].op, calls[i].value) \in Settings
      BY <3>1, EditedType DEF Call
    <3>3. [calls[i] EXCEPT !.left = calls[i].left \ {a}] \in Call
      BY <3>1 DEF Call
    <3> QED BY <2>10, <3>2, <3>3 DEF Change, TypeOK, page
  <2>11. ASSUME NEW i \in Calls, NEW a \in Accounts, Skip(i, a) PROVE TypeOK'
    <3>1. [calls[i] EXCEPT !.left = calls[i].left \ {a}] \in Call
      BY DEF Call, TypeOK
    <3> QED BY <2>11, <3>1 DEF Skip, TypeOK, page
  <2>12. ASSUME NEW i \in Calls, Gate(i) PROVE TypeOK'
    <3>1. CASE Reply(i, "forbidden")
      BY <3>1, ReplyType DEF TypeOK
    <3>2. CASE Admitted(calls[i].token)
      <4>1. [calls[i] EXCEPT !.stage = "serving"] \in Call
        BY DEF Call, TypeOK
      <4> QED BY <2>12, <3>2, <4>1 DEF Gate, TypeOK, page
    <3> QED BY <2>12, <3>1, <3>2 DEF Gate
  <2>13. ASSUME NEW i \in Calls, Fails(i) \/ Finish(i) PROVE TypeOK'
    BY <2>13, ReplyType DEF Fails, Finish, TypeOK
  <2>17. ASSUME NEW i \in Calls, List(i) PROVE TypeOK'
    <3>1. PICK flags \in [Accounts -> BOOLEAN] :
              calls' = [calls EXCEPT ![i] = [calls[i] EXCEPT
                    !.stage = "reading", !.read = [a \in Accounts |-> Listed(flags[a])]]]
      BY <2>17 DEF List
    <3>2. [a \in Accounts |-> Listed(flags[a])] \in [Accounts -> Row]
      BY Basics
    <3>3. calls[i] \in Call
      BY DEF TypeOK
    <3>4. [calls[i] EXCEPT !.stage = "reading", !.read = [a \in Accounts |-> Listed(flags[a])]]
            \in Call
      BY <3>2, <3>3 DEF Call
    <3> QED BY <2>17, <3>1, <3>4 DEF List, TypeOK, page
  <2>14. ASSUME NEW i \in Calls, LoadArrives(i) PROVE TypeOK'
    <3>1. calls[i] \in Call
      BY DEF TypeOK
    <3> QED BY <2>14, <3>1, Basics DEF LoadArrives, Answered, Lock, TypeOK, Call
  <2>15. ASSUME NEW i \in Calls, ActionArrives(i) PROVE TypeOK'
    <3>1. TurnedOn(i) \subseteq SweepOps /\ GivenBack(i) \in [Accounts -> Calls \cup {NoCall}]
      BY DEF TurnedOn, GivenBack, TypeOK
    <3>2. CASE calls[i].stage = "ok"
      BY <2>15, <3>1, <3>2, LoadType DEF ActionArrives, LoadAgain, TypeOK
    <3>3. CASE calls[i].stage # "ok"
      BY <2>15, <3>1, <3>3, Basics DEF ActionArrives, TypeOK
    <3> QED BY <3>2, <3>3
  <2>16. ASSUME NEW i \in Calls, Lose(i) PROVE TypeOK'
    <3>1. TurnedOn(i) \subseteq SweepOps /\ GivenBack(i) \in [Accounts -> Calls \cup {NoCall}]
      BY DEF TurnedOn, GivenBack, TypeOK
    <3>2. [Outdated[i] EXCEPT !.awaited = FALSE] \in Call
      <4>1. Outdated[i] \in Call
        BY OutdatedType
      <4> QED BY <4>1 DEF Call
    <3>3. calls' \in [Calls -> Call]
      <4>1. \/ calls' = [calls EXCEPT ![i] = Idle]
            \/ calls' = [Outdated EXCEPT ![i] = Idle]
            \/ calls' = [Outdated EXCEPT ![i] = [Outdated[i] EXCEPT !.awaited = FALSE]]
        BY <2>16, OutdatedType DEF Lose
      <4> QED BY <3>2, <4>1, Basics, OutdatedType DEF TypeOK
    <3>4. fresh' \in BOOLEAN
      BY <2>16 DEF Lose, TypeOK
    <3> QED BY <2>16, <3>1, <3>3, <3>4 DEF Lose, TypeOK
  <2> QED
    BY <2>1, <2>2, <2>3, <2>4, <2>5, <2>6, <2>7, <2>8, <2>9, <2>10, <2>11, <2>12, <2>13,
       <2>14, <2>15, <2>16, <2>17 DEF Next
<1> QED BY <1>1, <1>2, PTL DEF Spec

-----------------------------------------------------------------------------
(* The shape of the fetches *)

\* What a step leaves at a slot.
SlotShape(c) ==
    /\ c.left \subseteq c.scope
    /\ c.op = "none" => c.scope = {} /\ ~c.awaited
    /\ c.stage \in {"sent", "error", "forbidden"} => c.left = c.scope
    /\ c.stage = "ok" => c.left = {}
    /\ c.op = "load" /\ c.stage = "serving" => c.left = c.scope
    /\ c.op = "load" => c.scope = Accounts /\ \A a \in c.left : ~c.read[a].read

LEMMA FetchShape ==
    ASSUME NEW op, NEW t, NEW value, NEW scope, NEW newest,
           op # "none", op = "load" => scope = Accounts
    PROVE  SlotShape(Fetch(op, t, value, scope, newest))
  BY DEF SlotShape, Fetch, NoRows, Listed

LEMMA SlotShapes ==
    /\ SlotShape(Idle)
    /\ \A t \in Tokens \cup {NoToken} : SlotShape(LoadCall(t))
    /\ TypeOK /\ CallShape => \A i \in Calls : SlotShape(Outdated[i])
    /\ CallShape <=> \A i \in Calls : SlotShape(calls[i])
  <1>1. SlotShape(Idle)
    BY DEF SlotShape, Idle
  <1>2. \A t \in Tokens \cup {NoToken} : SlotShape(LoadCall(t))
    BY FetchShape DEF LoadCall
  <1>3. CallShape <=> \A i \in Calls : SlotShape(calls[i])
    BY DEF CallShape, SlotShape, IsLoad
  <1>4. TypeOK /\ CallShape => \A i \in Calls : SlotShape(Outdated[i])
    BY <1>3, OutdatedType DEF SlotShape
  <1> QED BY <1>1, <1>2, <1>3, <1>4

\* A step by which one slot changes, and the others at most in being newest.
LEMMA OneSlot ==
    ASSUME TypeOK, CallShape, NEW i \in Calls, SlotShape(calls'[i]),
           \A j \in Calls \ {i} : calls'[j] = calls[j] \/ calls'[j] = Outdated[j]
    PROVE  CallShape'
  <1>1. \A j \in Calls : SlotShape(calls'[j])
    BY SlotShapes
  <1> QED BY <1>1 DEF CallShape, SlotShape, IsLoad

LEMMA LoadShape ==
    ASSUME TypeOK, CallShape, NEW i \in Calls, NEW t \in Tokens \cup {NoToken}, Load(i, t)
    PROVE  CallShape'
  BY LoadType, SlotShapes, OneSlot

LEMMA ReplyShape ==
    ASSUME TypeOK, CallShape, NEW i \in Calls, NEW stage \in {"ok", "error", "forbidden"},
           calls[i].left = IF stage = "ok" THEN {} ELSE calls[i].scope,
           Reply(i, stage)
    PROVE  CallShape'
  <1>1. CASE calls[i].awaited
    <2>1. calls[i] \in Call /\ SlotShape(calls[i])
      BY SlotShapes DEF TypeOK
    <2>2. SlotShape([calls[i] EXCEPT !.stage = stage])
      BY <2>1, <1>1 DEF SlotShape, Call
    <2>3. calls' = [calls EXCEPT ![i] = [calls[i] EXCEPT !.stage = stage]]
      BY <1>1, ReplyType DEF TypeOK
    <2> QED BY <2>2, <2>3, OneSlot DEF TypeOK
  <1>2. CASE ~calls[i].awaited
    BY <1>2, ReplyType, SlotShapes, OneSlot, OutdatedType
  <1> QED BY <1>1, <1>2

LEMMA ShapeStep ==
    ASSUME TypeOK, CallShape, [Next]_vars
    PROVE  CallShape'
  <1>1. CASE calls' = calls
    BY <1>1 DEF CallShape, IsLoad
  <1>2. ASSUME NEW i \in Calls, ReloadClick(i) PROVE CallShape'
    BY <1>2, LoadShape DEF ReloadClick, TypeOK
  <1>3. ASSUME NEW i \in Calls, NEW t \in Tokens, Unlock(i, t) PROVE CallShape'
    BY <1>3, LoadShape DEF Unlock
  <1>4. ASSUME NEW i \in Calls, NEW b \in Buttons, NEW value \in Values, Confirm(i, b, value)
        PROVE CallShape'
    <2>1. b \in SweepOps /\ b \notin {"none", "load"}
      BY ButtonAssumption DEF SweepOps, SuspensionPair, RoutingPair
    <2>2. SlotShape(Fetch(b, token, value, Accounts, FALSE))
      BY <2>1, FetchShape
    <2> QED BY <1>4, <2>2, OneSlot DEF Confirm, TypeOK
  <1>5. ASSUME NEW i \in Calls, NEW a \in Accounts, RowClick(i, a) PROVE CallShape'
    <2>1. SlotShape(Fetch(RowOp(a), token, 0, {a}, FALSE))
      BY FetchShape, RowOpType DEF RowOps
    <2> QED BY <1>5, <2>1, OneSlot DEF RowClick, TypeOK
  <1>6. ASSUME NEW i \in Calls, NEW a \in Accounts, ReadRow(i, a) \/ Change(i, a) \/ Skip(i, a)
        PROVE CallShape'
    <2>1. /\ calls[i] \in Call /\ SlotShape(calls[i])
          /\ calls[i].stage = "reading" \/ (calls[i].stage = "serving" /\ ~IsLoad(i))
      BY <1>6, SlotShapes DEF TypeOK, ReadRow, Change, Skip, Serving, IsSweep, IsLoad,
         SweepOps, SuspensionPair, RoutingPair
    <2>2. \A seen : IsLoad(i) =>
             SlotShape([calls[i] EXCEPT !.left = calls[i].left \ {a}, !.read[a] = seen])
      <3> SUFFICES ASSUME NEW seen, IsLoad(i)
                   PROVE SlotShape([calls[i] EXCEPT !.left = calls[i].left \ {a},
                                                    !.read[a] = seen])
        OBVIOUS
      <3> DEFINE c == [calls[i] EXCEPT !.left = calls[i].left \ {a}, !.read[a] = seen]
      <3>1. /\ calls[i].stage = "reading" /\ calls[i].left \subseteq Accounts
            /\ calls[i].read \in [Accounts -> Row]
        BY <2>1 DEF Call
      <3>2. /\ c.op = "load" /\ c.stage = "reading" /\ c.scope = calls[i].scope
            /\ c.left = calls[i].left \ {a}
            /\ \A b \in c.left : c.read[b] = calls[i].read[b]
        BY <2>1, <3>1 DEF Call, IsLoad
      <3> QED BY <2>1, <3>2 DEF SlotShape, IsLoad
    <2>3. SlotShape([calls[i] EXCEPT !.left = calls[i].left \ {a}])
      BY <2>1 DEF SlotShape, Call, IsLoad
    <2> QED BY <1>6, <2>2, <2>3, OneSlot DEF ReadRow, Change, Skip, TypeOK
  <1>7. ASSUME NEW i \in Calls, Gate(i) PROVE CallShape'
    <2>1. calls[i] \in Call /\ SlotShape(calls[i]) /\ calls[i].stage = "sent"
      BY <1>7, SlotShapes DEF TypeOK, Gate
    <2>2. CASE Reply(i, "forbidden")
      BY <2>1, <2>2, ReplyShape DEF SlotShape
    <2>3. CASE Admitted(calls[i].token)
      <3>1. SlotShape([calls[i] EXCEPT !.stage = "serving"])
        BY <2>1 DEF SlotShape, Call
      <3> QED BY <1>7, <2>3, <3>1, OneSlot DEF Gate, TypeOK
    <2> QED BY <1>7, <2>2, <2>3 DEF Gate
  <1>8. ASSUME NEW i \in Calls, Fails(i) \/ Finish(i) PROVE CallShape'
    BY <1>8, ReplyShape DEF Fails, Finish
  <1>12. ASSUME NEW i \in Calls, List(i) PROVE CallShape'
    <2>1. calls[i] \in Call /\ SlotShape(calls[i]) /\ calls[i].stage = "serving"
      BY <1>12, SlotShapes DEF TypeOK, List, Serving
    <2>2. PICK flags \in [Accounts -> BOOLEAN] :
              calls' = [calls EXCEPT ![i] = [calls[i] EXCEPT
                    !.stage = "reading", !.read = [a \in Accounts |-> Listed(flags[a])]]]
      BY <1>12 DEF List
    <2>3. SlotShape([calls[i] EXCEPT
                    !.stage = "reading", !.read = [a \in Accounts |-> Listed(flags[a])]])
      BY <1>12, <2>1 DEF SlotShape, Call, Listed, List, IsLoad
    <2> QED BY <2>2, <2>3, OneSlot DEF TypeOK
  <1>9. ASSUME NEW i \in Calls, LoadArrives(i) PROVE CallShape'
    BY <1>9, SlotShapes, OneSlot DEF LoadArrives, TypeOK
  <1>10. ASSUME NEW i \in Calls, ActionArrives(i) PROVE CallShape'
    <2>1. CASE calls[i].stage = "ok"
      BY <1>10, <2>1, LoadShape DEF ActionArrives, LoadAgain, TypeOK
    <2>2. CASE calls[i].stage # "ok"
      BY <1>10, <2>2, SlotShapes, OneSlot DEF ActionArrives, TypeOK
    <2> QED BY <2>1, <2>2
  <1>11. ASSUME NEW i \in Calls, Lose(i) PROVE CallShape'
    <2>1. SlotShape(Outdated[i]) /\ Outdated[i] \in Call
      BY SlotShapes, OutdatedType
    <2>2. SlotShape([Outdated[i] EXCEPT !.awaited = FALSE])
      BY <2>1 DEF SlotShape, Call
    <2>3. \/ calls' = [calls EXCEPT ![i] = Idle]
          \/ calls' = [Outdated EXCEPT ![i] = Idle]
          \/ calls' = [Outdated EXCEPT ![i] = [Outdated[i] EXCEPT !.awaited = FALSE]]
      BY <1>11, OutdatedType DEF Lose
    <2> QED BY <2>2, <2>3, SlotShapes, OutdatedType, OneSlot DEF TypeOK
  <1> QED
    BY <1>1, <1>2, <1>3, <1>4, <1>5, <1>6, <1>7, <1>8, <1>9, <1>10, <1>11, <1>12
    DEF Next, vars, ForgetClick, Arm, Disarm, Rotate

LEMMA ShapeInit == Init => CallShape
  <1> SUFFICES ASSUME Init PROVE CallShape
    OBVIOUS
  <1>1. \A i \in Calls : calls[i] = Idle \/ calls[i] = LoadCall(token)
    BY DEF Init
  <1>2. \A i \in Calls : SlotShape(calls[i])
    BY <1>1, SlotShapes DEF Init
  <1> QED BY <1>2, SlotShapes

-----------------------------------------------------------------------------
(* One sweep at a time *)

\* A step of a slot that is not, and does not become, an awaited sweep.
LEMMA SweepsKept ==
    ASSUME TypeOK, OneSweepAtATime, NEW i \in Calls, UNCHANGED off,
           AwaitedSweep(i)' <=> AwaitedSweep(i),
           AwaitedSweep(i) => calls'[i].op = calls[i].op,
           \A j \in Calls \ {i} : calls'[j] = calls[j] \/ calls'[j] = Outdated[j]
    PROVE  OneSweepAtATime'
  <1>1. \A j \in Calls : AwaitedSweep(j)' <=> AwaitedSweep(j)
    BY OutdatedType DEF AwaitedSweep, IsSweep
  <1>2. \A j \in Calls : AwaitedSweep(j) => calls'[j].op = calls[j].op
    BY OutdatedType
  <1> QED BY <1>1, <1>2 DEF OneSweepAtATime

\* A sweep that ends gives its pair back.
LEMMA SweepEnds ==
    ASSUME TypeOK, OneSweepAtATime, NEW i \in Calls, off' = TurnedOn(i),
           calls[i].awaited, ~AwaitedSweep(i)',
           \A j \in Calls \ {i} : calls'[j] = calls[j] \/ calls'[j] = Outdated[j]
    PROVE  OneSweepAtATime'
  <1>1. \A j \in Calls \ {i} : /\ AwaitedSweep(j)' <=> AwaitedSweep(j)
                               /\ calls'[j].op = calls[j].op
    BY OutdatedType DEF AwaitedSweep, IsSweep
  <1>2. CASE ~IsSweep(i)
    BY <1>1, <1>2 DEF OneSweepAtATime, TurnedOn, AwaitedSweep
  <1>3. CASE IsSweep(i)
    <2>1. AwaitedSweep(i) /\ off' = off \ PairOf(calls[i].op)
      BY <1>3 DEF AwaitedSweep, TurnedOn
    <2>2. ASSUME NEW j \in Calls \ {i}, AwaitedSweep(j), NEW b \in SweepOps,
                 b \in PairOf(calls[j].op)
          PROVE  b \notin PairOf(calls[i].op)
      BY <1>3, <2>1, <2>2, PairFacts DEF OneSweepAtATime, AwaitedSweep, IsSweep
    <2> QED BY <1>1, <2>1, <2>2 DEF OneSweepAtATime
  <1> QED BY <1>2, <1>3

\* However clicks, answers and failures fall, the page waits for one sweep of a
\* pair at most, and the pair is disabled just as long.
THEOREM OneSweep == Spec => []OneSweepAtATime
<1>1. Init => OneSweepAtATime
  <2> SUFFICES ASSUME Init PROVE OneSweepAtATime
    OBVIOUS
  <2>1. \A i \in Calls : calls[i] = Idle \/ calls[i] = LoadCall(token)
    BY DEF Init
  <2>2. \A i \in Calls : calls[i].op \in {"none", "load"}
    BY <2>1 DEF LoadCall, Fetch, Idle
  <2>3. \A i \in Calls : ~AwaitedSweep(i)
    BY <2>2 DEF AwaitedSweep, IsSweep, SweepOps, SuspensionPair, RoutingPair
  <2> QED BY <2>3 DEF OneSweepAtATime, Init
<1>2. TypeOK /\ CallShape /\ OneSweepAtATime /\ [Next]_vars => OneSweepAtATime'
  <2> SUFFICES ASSUME TypeOK, CallShape, OneSweepAtATime, [Next]_vars PROVE OneSweepAtATime'
    OBVIOUS
  <2> DEFINE Other(i) == \A j \in Calls \ {i} : calls'[j] = calls[j] \/ calls'[j] = Outdated[j]
  <2>a. /\ Idle.op = "none" /\ ~Idle.awaited
        /\ \A t : LoadCall(t).op = "load"
        /\ {"none", "load"} \cap SweepOps = {} /\ RowOps \cap SweepOps = {}
        /\ RowOps \cap {"none", "load"} = {}
    BY DEF Idle, LoadCall, Fetch, SweepOps, SuspensionPair, RoutingPair, RowOps
  <2>1. CASE UNCHANGED <<calls, off>>
    BY <2>1 DEF OneSweepAtATime, AwaitedSweep, IsSweep
  <2>2. ASSUME NEW i \in Calls, NEW t \in Tokens \cup {NoToken},
               ~AwaitedSweep(i), Load(i, t), UNCHANGED off
        PROVE OneSweepAtATime'
    <3>1. Other(i) /\ ~AwaitedSweep(i)'
      BY <2>2, <2>a, LoadType DEF AwaitedSweep, IsSweep
    <3> QED BY <2>2, <3>1, SweepsKept
  <2>3. ASSUME NEW i \in Calls, ReloadClick(i) \/ \E t \in Tokens : Unlock(i, t)
        PROVE OneSweepAtATime'
    BY <2>2, <2>3, <2>a DEF ReloadClick, Unlock, AwaitedSweep, TypeOK
  <2>4. ASSUME NEW i \in Calls, NEW b \in Buttons, NEW value \in Values, Confirm(i, b, value)
        PROVE OneSweepAtATime'
    <3>1. b \in SweepOps /\ b \notin off /\ off' = off \cup PairOf(b)
      BY <2>4, ButtonAssumption DEF Confirm, TurnedOff
    <3>2. ~AwaitedSweep(i) /\ \A j \in Calls \ {i} : calls'[j] = calls[j]
      BY <2>4, <2>a DEF Confirm, AwaitedSweep, TypeOK
    <3>3. AwaitedSweep(i)' /\ calls'[i].op = b
      BY <2>4, <3>1 DEF Confirm, AwaitedSweep, IsSweep, Fetch, TypeOK
    <3>4. \A j \in Calls \ {i} : AwaitedSweep(j)' <=> AwaitedSweep(j)
      BY <3>2 DEF AwaitedSweep, IsSweep
    <3>5. \A j \in Calls : AwaitedSweep(j) => b \notin PairOf(calls[j].op)
      BY <3>1 DEF OneSweepAtATime
    <3>6. \A j \in Calls : AwaitedSweep(j) => calls[j].op \notin PairOf(b)
      BY <3>1, <3>5, PairFacts DEF AwaitedSweep, IsSweep
    <3> QED BY <3>1, <3>2, <3>3, <3>4, <3>5, <3>6 DEF OneSweepAtATime
  <2>5. ASSUME NEW i \in Calls, NEW a \in Accounts, RowClick(i, a) PROVE OneSweepAtATime'
    <3>1. PICK op \in RowOps : calls' = [calls EXCEPT ![i] = Fetch(op, token, 0, {a}, FALSE)]
      BY <2>5, RowOpType DEF RowClick
    <3>2. calls'[i].op = op /\ Other(i)
      BY <3>1 DEF TypeOK, Fetch
    <3>3. ~AwaitedSweep(i) /\ ~AwaitedSweep(i)'
      BY <2>5, <2>a, <3>2 DEF AwaitedSweep, IsSweep, RowClick
    <3> QED BY <2>5, <3>2, <3>3, SweepsKept DEF RowClick
  <2>6. ASSUME NEW i \in Calls, NEW a \in Accounts, ReadRow(i, a) \/ Change(i, a) \/ Skip(i, a)
        PROVE OneSweepAtATime'
    <3>1. calls[i] \in Call
      BY DEF TypeOK
    <3>2. Other(i) /\ calls'[i].op = calls[i].op /\ calls'[i].awaited = calls[i].awaited
      <4>1. CASE ReadRow(i, a)
        <5>1. PICK seen : calls' = [calls EXCEPT ![i] = [calls[i] EXCEPT
                                        !.left = calls[i].left \ {a}, !.read[a] = seen]]
          BY <4>1 DEF ReadRow
        <5> QED BY <3>1, <5>1 DEF TypeOK, Call
      <4>2. CASE Change(i, a) \/ Skip(i, a)
        <5>1. calls' = [calls EXCEPT ![i] = [calls[i] EXCEPT !.left = calls[i].left \ {a}]]
          BY <4>2 DEF Change, Skip, TypeOK
        <5> QED BY <3>1, <5>1 DEF TypeOK, Call
      <4> QED BY <2>6, <4>1, <4>2
    <3> QED BY <2>6, <3>2, SweepsKept DEF ReadRow, Change, Skip, page, AwaitedSweep, IsSweep
  <2>7. ASSUME NEW i \in Calls, NEW stage \in {"ok", "error", "forbidden"}, Reply(i, stage)
        PROVE OneSweepAtATime'
    <3>1. CASE calls[i].awaited
      <4>1. Other(i) /\ calls'[i].op = calls[i].op /\ calls'[i].awaited = calls[i].awaited
        <5>1. calls' = [calls EXCEPT ![i] = [calls[i] EXCEPT !.stage = stage]]
          BY <2>7, <3>1, ReplyType DEF TypeOK
        <5>2. calls[i] \in Call
          BY DEF TypeOK
        <5> QED BY <5>1, <5>2 DEF TypeOK, Call
      <4> QED BY <2>7, <4>1, ReplyType, SweepsKept DEF AwaitedSweep, IsSweep
    <3>2. CASE ~calls[i].awaited
      <4>1. Other(i) /\ calls'[i] = Idle
        BY <2>7, <3>2, ReplyType, OutdatedType
      <4>2. ~AwaitedSweep(i)' /\ ~AwaitedSweep(i)
        BY <3>2, <4>1, <2>a DEF AwaitedSweep
      <4> QED BY <2>7, <4>1, <4>2, ReplyType, SweepsKept
    <3> QED BY <3>1, <3>2
  <2>8. ASSUME NEW i \in Calls, Gate(i) PROVE OneSweepAtATime'
    <3>1. CASE Admitted(calls[i].token)
      <4>1. Other(i) /\ calls'[i].op = calls[i].op /\ calls'[i].awaited = calls[i].awaited
        BY <2>8, <3>1 DEF Gate, TypeOK, Call
      <4> QED BY <2>8, <3>1, <4>1, SweepsKept DEF Gate, page, AwaitedSweep, IsSweep
    <3> QED BY <2>7, <2>8, <3>1 DEF Gate
  <2>9. ASSUME NEW i \in Calls, Fails(i) \/ Finish(i) PROVE OneSweepAtATime'
    BY <2>7, <2>9 DEF Fails, Finish
  <2>13. ASSUME NEW i \in Calls, List(i) PROVE OneSweepAtATime'
    <3>1. PICK seen : calls' = [calls EXCEPT ![i] = [calls[i] EXCEPT
                                    !.stage = "reading", !.read = seen]]
      BY <2>13 DEF List
    <3>2. calls[i] \in Call
      BY DEF TypeOK
    <3>3. Other(i) /\ calls'[i].op = calls[i].op /\ calls'[i].awaited = calls[i].awaited
      BY <3>1, <3>2 DEF TypeOK, Call
    <3> QED BY <2>13, <3>3, SweepsKept DEF List, page, AwaitedSweep, IsSweep
  <2>10. ASSUME NEW i \in Calls, LoadArrives(i) PROVE OneSweepAtATime'
    <3>1. Other(i) /\ ~AwaitedSweep(i) /\ ~AwaitedSweep(i)' /\ UNCHANGED off
      <4>1. calls' = [calls EXCEPT ![i] = Idle] /\ calls[i].op = "load" /\ UNCHANGED off
        BY <2>10 DEF LoadArrives, IsLoad
      <4>2. Other(i) /\ calls'[i] = Idle
        BY <4>1 DEF TypeOK
      <4> QED BY <4>1, <4>2, <2>a DEF AwaitedSweep, IsSweep
    <3> QED BY <3>1, SweepsKept
  <2>11. ASSUME NEW i \in Calls, ActionArrives(i) PROVE OneSweepAtATime'
    <3>1. CASE calls[i].stage = "ok"
      <4>1. Other(i) /\ ~AwaitedSweep(i)'
        <5>1. Load(i, token) /\ token \in Tokens \cup {NoToken}
          BY <2>11, <3>1 DEF ActionArrives, LoadAgain, TypeOK
        <5> QED BY <5>1, <2>a, LoadType DEF AwaitedSweep, IsSweep
      <4> QED BY <2>11, <4>1, SweepEnds DEF ActionArrives, Answered
    <3>2. CASE calls[i].stage # "ok"
      <4>1. Other(i) /\ ~AwaitedSweep(i)'
        BY <2>11, <3>2, <2>a DEF ActionArrives, TypeOK, AwaitedSweep
      <4> QED BY <2>11, <4>1, SweepEnds DEF ActionArrives, Answered
    <3> QED BY <3>1, <3>2
  <2>12. ASSUME NEW i \in Calls, Lose(i) PROVE OneSweepAtATime'
    <3>1. Other(i) /\ calls'[i].awaited = FALSE
      <4>1. \/ calls' = [calls EXCEPT ![i] = Idle]
            \/ calls' = [Outdated EXCEPT ![i] = Idle]
            \/ calls' = [Outdated EXCEPT ![i] = [Outdated[i] EXCEPT !.awaited = FALSE]]
        BY <2>12, OutdatedType DEF Lose
      <4>2. Idle.awaited = FALSE /\ [Outdated[i] EXCEPT !.awaited = FALSE].awaited = FALSE
        BY OutdatedType DEF Idle, Call
      <4> QED BY <4>1, <4>2, OutdatedType DEF TypeOK
    <3> QED BY <2>12, <3>1, SweepEnds DEF Lose, AwaitedSweep
  <2> QED
    BY <2>1, <2>3, <2>4, <2>5, <2>6, <2>8, <2>9, <2>10, <2>11, <2>12, <2>13
    DEF Next, vars, ForgetClick, Arm, Disarm, Rotate, page
<1> QED BY <1>1, <1>2, TypeCorrect, ShapeInit, ShapeStep, PTL DEF Spec

-----------------------------------------------------------------------------
(* What the table shows *)

\* A step of one slot, by which nothing becomes current that was not, unless it
\* has just been read.
LEMMA ReadsKept ==
    ASSUME TypeOK, ReadsAreCurrent, NEW i \in Calls,
           \A j \in Calls \ {i} : calls'[j] = calls[j] \/ calls'[j] = Outdated[j],
           \A a \in Accounts : Started(i, a) => Started(i, a)',
           \A a \in Accounts : file'[a] = file[a] \/ Started(i, a)',
           IsLoad(i)' /\ calls'[i].newest =>
              \A a \in Accounts \ calls'[i].left :
                 \/ AsInFile(calls'[i].read[a], file[a])
                 \/ /\ IsLoad(i) /\ calls[i].newest /\ a \notin calls[i].left
                    /\ calls'[i].read[a] = calls[i].read[a],
           fresh' => \A a \in Accounts :
              \/ ~rows'[a].read
              \/ fresh /\ rows'[a] = rows[a]
              \/ IsLoad(i) /\ calls[i].newest /\ calls[i].left = {} /\ rows'[a] = calls[i].read[a]
    PROVE  ReadsAreCurrent'
  <1>1. ASSUME NEW a \in Accounts, Unchanged(a)' PROVE Unchanged(a) /\ file'[a] = file[a]
    <2>1. \A j \in Calls \ {i} : Started(j, a) => Started(j, a)'
      BY OutdatedType DEF Started, IsLoad
    <2> QED BY <1>1, <2>1 DEF Unchanged
  <1>2. ASSUME NEW j \in Calls, IsLoad(j)', calls'[j].newest,
               NEW a \in Accounts \ calls'[j].left, Unchanged(a)'
        PROVE AsInFile(calls'[j].read[a], file'[a])
    <2>1. CASE j = i
      BY <1>1, <1>2, <2>1 DEF ReadsAreCurrent
    <2>2. CASE j # i
      <3>1. calls'[j] = calls[j]
        BY <1>2, <2>2, OutdatedType
      <3> QED BY <1>1, <1>2, <3>1 DEF ReadsAreCurrent, IsLoad
    <2> QED BY <2>1, <2>2
  <1>3. ASSUME fresh', NEW a \in Accounts, Unchanged(a)' PROVE AsInFile(rows'[a], file'[a])
    BY <1>1, <1>3 DEF ReadsAreCurrent, AsInFile
  <1> QED BY <1>2, <1>3 DEF ReadsAreCurrent

\* A step after which no load that has read is the newest, nor the table fresh.
LEMMA NothingCurrent ==
    ASSUME TypeOK, ~fresh', NEW i \in Calls,
           \A j \in Calls \ {i} : calls'[j] = Outdated[j],
           ~calls'[i].newest \/ calls'[i].left = Accounts
    PROVE  ReadsAreCurrent' /\ WaitingIsAwaited'
  BY OutdatedType DEF ReadsAreCurrent, WaitingIsAwaited

LEMMA WaitingKept ==
    ASSUME TypeOK, WaitingIsAwaited, NEW i \in Calls, fresh' => fresh,
           \A j \in Calls \ {i} : calls'[j] = calls[j] \/ calls'[j] = Outdated[j],
           \A a \in Accounts : waiting'[a] \in {NoCall, waiting[a], i},
           fresh' => \A a \in Accounts : waiting'[a] = i =>
                        calls'[i].awaited /\ calls'[i].op \in RowOps /\ calls'[i].scope = {a}
    PROVE  WaitingIsAwaited'
  <1> SUFFICES ASSUME fresh', NEW a \in Accounts, waiting'[a] # NoCall
               PROVE  /\ calls'[waiting'[a]].awaited
                      /\ calls'[waiting'[a]].op \in RowOps
                      /\ calls'[waiting'[a]].scope = {a}
    BY DEF WaitingIsAwaited, IsRow
  <1>1. CASE waiting'[a] = i
    BY <1>1
  <1>2. CASE waiting'[a] # i
    <2>1. waiting'[a] = waiting[a] /\ waiting[a] \in Calls \ {i}
      BY <1>2, SentinelAssumption DEF TypeOK
    <2>2. LET j == waiting[a]
          IN  /\ calls'[j].op = calls[j].op /\ calls'[j].scope = calls[j].scope
              /\ calls'[j].awaited = calls[j].awaited
      BY <2>1, OutdatedType
    <2> QED BY <2>1, <2>2 DEF WaitingIsAwaited, IsRow
  <1> QED BY <1>1, <1>2

TableInv == ReadsAreCurrent /\ WaitingIsAwaited

LEMMA TableStep ==
    ASSUME TypeOK, CallShape, TableInv, [Next]_vars
    PROVE  TableInv'
<1> USE DEF TableInv
<1> DEFINE Other(i) == \A j \in Calls \ {i} : calls'[j] = calls[j] \/ calls'[j] = Outdated[j]
<1>a. /\ Idle.op = "none" /\ Idle.scope = {} /\ ~Idle.newest /\ ~Idle.awaited
      /\ RowOps \cap {"none", "load"} = {}
      /\ SweepOps \cap {"none", "load"} = {} /\ RowOps \cap SweepOps = {}
  BY DEF Idle, RowOps, SweepOps, SuspensionPair, RoutingPair
<1>1. CASE UNCHANGED <<calls, file, rows, waiting, fresh>>
  BY <1>1 DEF ReadsAreCurrent, WaitingIsAwaited, Unchanged, Started, IsLoad, IsRow
<1>2. CASE ForgetClick
  <2>1. \A a \in Accounts : ~rows'[a].read /\ waiting'[a] = NoCall
    BY <1>2 DEF ForgetClick, Lock, NoRows, Listed, NoneWaiting
  <2> QED BY <1>2, <2>1 DEF ForgetClick, AsInFile, ReadsAreCurrent, WaitingIsAwaited, Unchanged, Started, IsLoad
<1>3. ASSUME NEW i \in Calls, NEW t \in Tokens \cup {NoToken}, Load(i, t) PROVE TableInv'
  <2>1. ~calls'[i].newest \/ calls'[i].left = Accounts
    <3>1. LoadCall(t).left = Accounts
      BY DEF LoadCall, Fetch
    <3>2. calls'[i] = Idle \/ calls'[i] = LoadCall(t)
      BY <1>3, LoadType
    <3> QED BY <3>1, <3>2, <1>a
  <2> QED BY <1>3, <2>1, LoadType, NothingCurrent
<1>4. ASSUME NEW i \in Calls, ReloadClick(i) \/ \E t \in Tokens : Unlock(i, t) PROVE TableInv'
  BY <1>3, <1>4 DEF ReloadClick, Unlock, TypeOK
<1>5. ASSUME NEW i \in Calls, NEW b \in Buttons, NEW value \in Values, Confirm(i, b, value)
      PROVE TableInv'
  <2>1. /\ calls[i] = Idle /\ Other(i) /\ calls'[i].op = b
        /\ UNCHANGED <<file, rows, waiting, fresh>>
    BY <1>5 DEF Confirm, Fetch, TypeOK
  <2>2. b \in SweepOps /\ ~IsLoad(i)' /\ \A a \in Accounts : ~Started(i, a)
    BY <2>1, <1>a, ButtonAssumption DEF IsLoad, Started
  <2>3. ReadsAreCurrent'
    BY <2>1, <2>2, ReadsKept
  <2>4. fresh => \A a \in Accounts : waiting[a] # i
    BY <2>1, <1>a, SentinelAssumption DEF WaitingIsAwaited, TypeOK
  <2> QED BY <2>1, <2>3, <2>4, WaitingKept
<1>6. ASSUME NEW i \in Calls, NEW a \in Accounts, RowClick(i, a) PROVE TableInv'
  <2>1. PICK op \in RowOps : calls' = [calls EXCEPT ![i] = Fetch(op, token, 0, {a}, FALSE)]
    BY <1>6, RowOpType DEF RowClick
  <2>2. /\ calls[i] = Idle /\ Other(i) /\ calls'[i].op = op
        /\ calls'[i].awaited /\ calls'[i].scope = {a}
        /\ UNCHANGED <<file, rows, fresh>> /\ waiting' = [waiting EXCEPT ![a] = i]
    BY <1>6, <2>1 DEF RowClick, Fetch, TypeOK
  <2>3. ~IsLoad(i)' /\ \A b \in Accounts : ~Started(i, b)
    BY <2>2, <1>a DEF IsLoad, Started
  <2>4. ReadsAreCurrent'
    BY <2>2, <2>3, ReadsKept
  <2>5. fresh => \A b \in Accounts : waiting[b] # i
    BY <2>2, <1>a, SentinelAssumption DEF WaitingIsAwaited, TypeOK
  <2>6. \A b \in Accounts : waiting'[b] = IF b = a THEN i ELSE waiting[b]
    BY <2>2 DEF TypeOK
  <2> QED BY <2>2, <2>4, <2>5, <2>6, WaitingKept
<1>7. ASSUME NEW i \in Calls, NEW a \in Accounts, ReadRow(i, a) PROVE TableInv'
  <2>1. PICK seen \in {calls[i].read[a], Shown(file[a], calls[i].read[a])} :
            calls' = [calls EXCEPT ![i] = [calls[i] EXCEPT !.left = calls[i].left \ {a},
                                                           !.read[a] = seen]]
    BY <1>7 DEF ReadRow
  <2>2. calls[i] \in Call /\ IsLoad(i) /\ UNCHANGED <<file, rows, waiting, fresh>>
    BY <1>7 DEF ReadRow, page, TypeOK
  <2>3. /\ Other(i) /\ calls'[i].op = calls[i].op /\ calls'[i].awaited = calls[i].awaited
        /\ calls'[i].scope = calls[i].scope /\ calls'[i].newest = calls[i].newest
        /\ calls'[i].left = calls[i].left \ {a}
        /\ \A b \in Accounts : calls'[i].read[b] = IF b = a THEN seen ELSE calls[i].read[b]
    BY <2>1, <2>2 DEF TypeOK, Call
  <2>4. AsInFile(Shown(file[a], calls[i].read[a]), file[a])
    BY <2>2, ShownType DEF TypeOK, Call
  <2>5. ASSUME NEW b \in Accounts \ calls'[i].left, calls[i].newest
        PROVE  \/ AsInFile(calls'[i].read[b], file[b])
               \/ /\ b \notin calls[i].left
                  /\ calls'[i].read[b] = calls[i].read[b]
    <3>1. CASE b # a
      BY <2>3, <2>5, <3>1
    <3>2. CASE b = a /\ seen = Shown(file[a], calls[i].read[a])
      BY <2>3, <2>4, <3>2
    <3>3. CASE b = a /\ seen = calls[i].read[a]
      <4>1. ~calls[i].read[a].read
        BY <1>7 DEF ReadRow, CallShape
      <4> QED BY <2>3, <3>3, <4>1 DEF AsInFile
    <3> QED BY <2>1, <3>1, <3>2, <3>3
  <2>6. ReadsAreCurrent'
    BY <2>2, <2>3, <2>5, ReadsKept DEF IsLoad, Started
  <2>7. fresh => \A b \in Accounts : waiting[b] # i
    BY <2>2, <1>a, SentinelAssumption DEF WaitingIsAwaited, TypeOK, IsLoad, IsRow
  <2> QED BY <2>2, <2>3, <2>6, <2>7, WaitingKept
<1>8. ASSUME NEW i \in Calls, NEW a \in Accounts, Change(i, a) \/ Skip(i, a) PROVE TableInv'
  <2>1. calls' = [calls EXCEPT ![i] = [calls[i] EXCEPT !.left = calls[i].left \ {a}]]
    BY <1>8 DEF Change, Skip, TypeOK
  <2>2. /\ calls[i] \in Call /\ a \in calls[i].left /\ calls[i].left \subseteq calls[i].scope
        /\ UNCHANGED <<rows, waiting, fresh>>
        /\ \A b \in Accounts \ {a} : file'[b] = file[b]
    BY <1>8 DEF Change, Skip, page, TypeOK, CallShape
  <2>3. /\ Other(i) /\ calls'[i].op = calls[i].op /\ calls'[i].awaited = calls[i].awaited
        /\ calls'[i].scope = calls[i].scope /\ calls'[i].left = calls[i].left \ {a}
    BY <2>1, <2>2 DEF TypeOK, Call
  <2>4. ~IsLoad(i)
    BY <1>8, <1>a DEF Change, Skip, IsSweep, IsLoad
  <2>5. ~IsLoad(i)' /\ Started(i, a)' /\ \A b \in Accounts : Started(i, b) => Started(i, b)'
    BY <2>2, <2>3, <2>4 DEF Started, IsLoad
  <2>6. ReadsAreCurrent'
    BY <2>2, <2>3, <2>5, ReadsKept
  <2>7. fresh => \A b \in Accounts : waiting[b] = i =>
                    calls'[i].awaited /\ calls'[i].op \in RowOps /\ calls'[i].scope = {b}
    BY <2>3, SentinelAssumption DEF WaitingIsAwaited, IsRow, TypeOK
  <2> QED BY <2>2, <2>3, <2>6, <2>7, WaitingKept
<1>9. ASSUME NEW i \in Calls, NEW stage \in {"ok", "error", "forbidden", "serving"},
             calls' = [calls EXCEPT ![i].stage = stage], UNCHANGED <<file, rows, waiting, fresh>>
      PROVE TableInv'
  <2>1. calls[i] \in Call /\ calls' = [calls EXCEPT ![i] = [calls[i] EXCEPT !.stage = stage]]
    BY <1>9 DEF TypeOK
  <2>2. /\ Other(i) /\ calls'[i].op = calls[i].op /\ calls'[i].awaited = calls[i].awaited
        /\ calls'[i].scope = calls[i].scope /\ calls'[i].newest = calls[i].newest
        /\ calls'[i].left = calls[i].left /\ calls'[i].read = calls[i].read
    BY <2>1 DEF TypeOK, Call
  <2>3. ReadsAreCurrent'
    BY <1>9, <2>2, ReadsKept DEF IsLoad, Started
  <2>4. fresh => \A b \in Accounts : waiting[b] = i =>
                    calls'[i].awaited /\ calls'[i].op \in RowOps /\ calls'[i].scope = {b}
    BY <2>2, SentinelAssumption DEF WaitingIsAwaited, IsRow, TypeOK
  <2> QED BY <1>9, <2>2, <2>3, <2>4, WaitingKept
<1>10. ASSUME NEW i \in Calls, NEW stage \in {"ok", "error", "forbidden"}, Reply(i, stage)
       PROVE TableInv'
  <2>1. CASE calls[i].awaited
    BY <1>9, <1>10, <2>1, ReplyType
  <2>2. CASE ~calls[i].awaited
    BY <1>10, <2>2, <1>a, ReplyType, OutdatedType, NothingCurrent
  <2> QED BY <2>1, <2>2
<1>11. ASSUME NEW i \in Calls, Gate(i) \/ Fails(i) \/ Finish(i) PROVE TableInv'
  <2>1. CASE \E stage \in {"ok", "error", "forbidden"} : Reply(i, stage)
    BY <1>10, <2>1
  <2>2. CASE calls' = [calls EXCEPT ![i].stage = "serving"] /\ UNCHANGED <<page, file, secret, fresh>>
    BY <1>9, <2>2 DEF page
  <2> QED BY <1>11, <2>1, <2>2 DEF Gate, Fails, Finish
\* The list comes before any file is read.
<1>17. ASSUME NEW i \in Calls, List(i) PROVE TableInv'
  <2>1. PICK flags \in [Accounts -> BOOLEAN] :
            calls' = [calls EXCEPT ![i] = [calls[i] EXCEPT
                  !.stage = "reading", !.read = [a \in Accounts |-> Listed(flags[a])]]]
    BY <1>17 DEF List
  <2>2. /\ calls[i] \in Call /\ IsLoad(i) /\ calls[i].left = Accounts
        /\ UNCHANGED <<file, rows, waiting, fresh>>
    BY <1>17 DEF List, Serving, page, TypeOK, CallShape
  <2>3. /\ Other(i) /\ calls'[i].op = calls[i].op /\ calls'[i].awaited = calls[i].awaited
        /\ calls'[i].scope = calls[i].scope /\ calls'[i].left = Accounts
    BY <2>1, <2>2 DEF TypeOK, Call
  <2>4. ReadsAreCurrent'
    BY <2>2, <2>3, ReadsKept DEF IsLoad, Started
  <2>5. fresh => \A b \in Accounts : waiting[b] # i
    BY <2>2, <1>a, SentinelAssumption DEF WaitingIsAwaited, TypeOK, IsLoad, IsRow
  <2> QED BY <2>2, <2>3, <2>4, <2>5, WaitingKept
\* A load that is over, or an action that has done nothing, leaves its slot.
<1>12. ASSUME NEW i \in Calls, calls' = [calls EXCEPT ![i] = Idle], file' = file,
              IsLoad(i) \/ calls[i].left = calls[i].scope,
              fresh' => \A a \in Accounts :
                 \/ ~rows'[a].read
                 \/ fresh /\ rows'[a] = rows[a]
                 \/ IsLoad(i) /\ calls[i].newest /\ calls[i].left = {}
                    /\ rows'[a] = calls[i].read[a]
       PROVE ReadsAreCurrent'
  <2>1. Other(i) /\ calls'[i] = Idle
    BY <1>12 DEF TypeOK
  <2>2. ~IsLoad(i)' /\ \A a \in Accounts : ~Started(i, a)
    BY <1>12, <2>1, <1>a DEF IsLoad, Started
  <2> QED BY <1>12, <2>1, <2>2, ReadsKept
<1>13. ASSUME NEW i \in Calls, LoadArrives(i) PROVE TableInv'
  <2>1. IsLoad(i) /\ Answered(i) /\ calls' = [calls EXCEPT ![i] = Idle] /\ file' = file
    BY <1>13 DEF LoadArrives
  <2>2. CASE calls[i].stage = "forbidden"
    <3>1. \A a \in Accounts : ~rows'[a].read /\ waiting'[a] = NoCall
      BY <1>13, <2>2 DEF LoadArrives, Lock, NoRows, Listed, NoneWaiting
    <3> QED BY <1>12, <2>1, <3>1 DEF WaitingIsAwaited
  <2>3. CASE calls[i].stage = "error"
    <3>1. UNCHANGED <<rows, waiting, fresh>>
      BY <1>13, <2>3 DEF LoadArrives
    <3>2. fresh => \A a \in Accounts : waiting[a] # i
      BY <2>1, <1>a, SentinelAssumption DEF WaitingIsAwaited, TypeOK, IsLoad, IsRow
    <3>3. Other(i)
      BY <2>1 DEF TypeOK
    <3> QED BY <1>12, <2>1, <3>1, <3>2, <3>3, WaitingKept
  <2>4. CASE calls[i].stage = "ok"
    <3>1. rows' = calls[i].read /\ waiting' = NoneWaiting /\ fresh' = calls[i].newest
      BY <1>13, <2>4 DEF LoadArrives
    <3>2. calls[i].left = {}
      BY <2>4 DEF CallShape
    <3>3. ReadsAreCurrent'
      BY <1>12, <2>1, <3>1, <3>2
    <3> QED BY <3>1, <3>3 DEF WaitingIsAwaited, NoneWaiting
  <2> QED BY <2>1, <2>2, <2>3, <2>4 DEF Answered
\* The button that the failed call was clicked for is given back.
<1>14. ASSUME NEW i \in Calls, calls' = [calls EXCEPT ![i] = Idle], waiting' = GivenBack(i),
              UNCHANGED fresh
       PROVE WaitingIsAwaited'
  <2>1. \A a \in Accounts : waiting'[a] \in {NoCall, waiting[a]}
    BY <1>14 DEF GivenBack
  <2>2. fresh => \A a \in Accounts : waiting'[a] # i
    BY <1>14, SentinelAssumption DEF GivenBack, WaitingIsAwaited, TypeOK
  <2>3. Other(i)
    BY <1>14 DEF TypeOK
  <2> QED BY <1>14, <2>1, <2>2, <2>3, WaitingKept
<1>15. ASSUME NEW i \in Calls, ActionArrives(i) PROVE TableInv'
  <2>1. CASE calls[i].stage = "ok"
    BY <1>3, <1>15, <2>1 DEF ActionArrives, LoadAgain, TypeOK
  <2>2. CASE calls[i].stage # "ok"
    <3>1. calls[i].left = calls[i].scope
      BY <1>15, <2>2 DEF ActionArrives, Answered, CallShape
    <3> QED BY <1>12, <1>14, <1>15, <2>2, <3>1 DEF ActionArrives
  <2> QED BY <2>1, <2>2
<1>16. ASSUME NEW i \in Calls, Lose(i) PROVE TableInv'
  <2>1. CASE IsLoad(i)
    BY <1>12, <1>14, <1>16, <2>1 DEF Lose
  <2>2. CASE ~IsLoad(i)
    <3>1. \/ calls' = [Outdated EXCEPT ![i] = Idle]
          \/ calls' = [Outdated EXCEPT ![i] = [Outdated[i] EXCEPT !.awaited = FALSE]]
      BY <1>16, <2>2, OutdatedType DEF Lose
    <3>2. ~[Outdated[i] EXCEPT !.awaited = FALSE].newest
      BY OutdatedType DEF Call
    <3>3. ~calls'[i].newest /\ \A j \in Calls \ {i} : calls'[j] = Outdated[j]
      BY <3>1, <3>2, <1>a, OutdatedType
    <3> QED BY <1>16, <2>2, <3>3, NothingCurrent DEF Lose
  <2> QED BY <2>1, <2>2
<1> QED
  BY <1>1, <1>2, <1>4, <1>5, <1>6, <1>7, <1>8, <1>11, <1>13, <1>15, <1>16, <1>17
  DEF Next, vars, Arm, Disarm, Rotate, page

LEMMA TableInit == Init => TableInv
  <1> SUFFICES ASSUME Init PROVE TableInv
    OBVIOUS
  <1>1. \A i \in Calls : calls[i] = Idle \/ calls[i].left = Accounts
    BY DEF Init, LoadCall, Fetch
  <1>2. ~fresh /\ \A i \in Calls : IsLoad(i) => calls[i].left = Accounts
    BY <1>1 DEF Init, IsLoad, Idle
  <1> QED BY <1>2 DEF TableInv, ReadsAreCurrent, WaitingIsAwaited

LEMMA TableInvariant == Spec => []TableInv
  BY TypeCorrect, ShapeInit, ShapeStep, TableInit, TableStep, PTL DEF Spec

\* In the table that the newest load brought, every row whose file was read has
\* the file's settings; it is suspended when the file says so, and otherwise
\* only when the host's list did: for any number of accounts and of fetches
\* under way.
THEOREM TableIsCurrent == Spec => []TableFollowsActions
<1>1. TypeOK /\ TableInv => TableFollowsActions
  BY DEF TableInv, ReadsAreCurrent, TableFollowsActions, Untouched, Unchanged, Started
<1> QED BY <1>1, TypeCorrect, TableInvariant, PTL

\* A page that waits for nothing and shows the newest table has no dead button.
THEOREM RowsComeBack == Spec => []NothingStaysDisabled
<1>1. TypeOK /\ TableInv => NothingStaysDisabled
  <2> SUFFICES ASSUME TypeOK, TableInv, fresh, \A i \in Calls : ~calls[i].awaited
               PROVE  waiting = NoneWaiting
    BY DEF NothingStaysDisabled
  <2>1. \A a \in Accounts : waiting[a] = NoCall
    BY DEF TableInv, WaitingIsAwaited, TypeOK
  <2> QED BY <2>1 DEF NoneWaiting, TypeOK
<1> QED BY <1>1, TableInvariant, TypeCorrect, PTL

=============================================================================
