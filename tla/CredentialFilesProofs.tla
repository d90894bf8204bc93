----------------------- MODULE CredentialFilesProofs -----------------------
(* Theorems about CredentialFiles, for any accounts, requests, keys and values. *)
EXTENDS CredentialFiles, TLAPS

\* What is written to a file is a token pair that the backend still accepts: the
\* file's own, the copies that requests hold, and what a refresh has been issued.
PairsAccepted ==
    \A a \in Accounts :
        /\ file[a].pair \in valid[a]
        /\ \A r \in Requests : request[r].at = a => request[r].copy.pair \in valid[a]
        /\ refresh[a].phase = "rotated" => refresh[a].pair \in valid[a]
        /\ \A p \in valid[a] : p <= issued[a]

\* Nobody goes back behind the pair that a refresh presents, so what its rotation
\* retires is nowhere.
NoneOlder ==
    \A a \in Accounts :
        refresh[a].phase # "idle" =>
            /\ file[a].pair >= refresh[a].copy.pair
            /\ \A r \in Requests :
                request[r].at = a => request[r].copy.pair >= refresh[a].copy.pair

PairInv == PairsAccepted /\ NoneOlder

RequestType ==
    [phase : {"idle", "sweeping", "saving"}, key : Keys, value : Values,
     todo : SUBSET Accounts, at : Accounts \cup {NoAccount}, copy : Credential]

RefreshType == [phase : {"idle", "asking", "rotated"}, copy : Credential, pair : Nat]

LEMMA UnsetType == Unset \in Settings /\ NoCopy \in Credential
  BY ValueAssumption DEF Unset, Settings, NoCopy, Credential

LEMMA ToggledType ==
    ASSUME NEW copy \in Credential, NEW key \in Keys, NEW value \in Values
    PROVE  /\ Toggled(copy, key, value) \in Credential
           /\ Toggled(copy, key, value).pair = copy.pair
           /\ Toggled(copy, key, value).settings[key] = value
           /\ \A k \in Keys \ {key} :
                Toggled(copy, key, value).settings[k] = copy.settings[k]
  BY DEF Toggled, Credential, Settings

LEMMA RebuiltType ==
    ASSUME NEW copy \in Credential, NEW pair \in Nat
    PROVE  /\ Rebuilt(copy, pair) \in Credential
           /\ Rebuilt(copy, pair).pair = pair
           /\ Rebuilt(copy, pair).settings = copy.settings
  BY DEF Rebuilt, Credential

-----------------------------------------------------------------------------

LEMMA StepCases ==
    ASSUME [Next]_vars
    PROVE  \/ \E r \in Requests :
                \/ \E key \in Keys, value \in Values, accounts \in SUBSET Accounts :
                    Ask(r, key, value, accounts)
                \/ \E a \in Accounts : Skipped(r, a) \/ Read(r, a) \/ ReadFails(r, a)
                \/ Save(r) \/ SaveFails(r) \/ Answer(r)
           \/ \E a \in Accounts :
                \/ RefreshStarts(a) \/ RefreshRotates(a) \/ RefreshKeeps(a) \/ RefreshFails(a)
                \/ RefreshReturns(a) \/ SignedIn(a) \/ Parse(a)
           \/ UNCHANGED vars
<1>1. CASE \E r \in Requests : RequestStep(r)
  <2>1. PICK r \in Requests : RequestStep(r)
    BY <1>1
  <2>2. ASSUME NEW key \in Keys, NEW value \in Values,
               \/ Ask(r, key, value, Accounts)
               \/ \E a \in Accounts : Ask(r, key, value, {a})
        PROVE  \E accounts \in SUBSET Accounts : Ask(r, key, value, accounts)
    BY <2>2, Zenon
  <2>3. QED
    BY <2>1, <2>2, Zenon DEF RequestStep
<1>2. CASE \E a \in Accounts : AccountStep(a)
  BY <1>2 DEF AccountStep
<1>3. QED
  BY <1>1, <1>2 DEF Next

\* What a request that saves at all, saves.
SavesChange(q) ==
    /\ q.phase = "saving" <=> q.at # NoAccount
    /\ q.phase = "saving" => q.copy.settings[q.key] # q.value

RequestsOK ==
    /\ request \in [Requests -> RequestType]
    /\ \A r \in Requests : SavesChange(request[r])

LEMMA RequestParts == TypeOK => RequestsOK
  BY DEF TypeOK, RequestsOK, RequestType, SavesChange

LEMMA TypeAssembled ==
    ASSUME RequestsOK', file' \in [Accounts -> Credential],
           runtime' \in [Accounts -> Settings], changed' \subseteq Accounts,
           issued' \in [Accounts -> Nat], valid' \in [Accounts -> SUBSET Nat],
           refresh' \in [Accounts -> RefreshType],
           settled' \in [Accounts -> SUBSET Requests]
    PROVE  TypeOK'
  BY DEF TypeOK, RequestsOK, RequestType, RefreshType, SavesChange

LEMMA RequestWritten ==
    ASSUME TypeOK, NEW r \in Requests, NEW q \in RequestType, SavesChange(q),
           request' = [request EXCEPT ![r] = q]
    PROVE  RequestsOK'
  BY RequestParts DEF RequestsOK, SavesChange

LEMMA AskedType ==
    ASSUME NEW q \in RequestType, NEW key \in Keys, NEW value \in Values,
           NEW accounts \in SUBSET Accounts
    PROVE  [q EXCEPT !.phase = "sweeping", !.key = key, !.value = value, !.todo = accounts]
             \in RequestType
  BY DEF RequestType

LEMMA ReadType ==
    ASSUME NEW q \in RequestType, NEW a \in Accounts, NEW copy \in Credential
    PROVE  [q EXCEPT !.phase = "saving", !.at = a, !.copy = copy, !.todo = q.todo \ {a}]
             \in RequestType
  BY DEF RequestType

LEMMA LetGoType ==
    ASSUME NEW q \in RequestType
    PROVE  /\ [q EXCEPT !.phase = "sweeping", !.at = NoAccount, !.copy = NoCopy]
                 \in RequestType
           /\ SavesChange([q EXCEPT !.phase = "sweeping", !.at = NoAccount,
                                    !.copy = NoCopy])
<1>1. [q EXCEPT !.phase = "sweeping", !.at = NoAccount, !.copy = NoCopy] \in RequestType
  BY UnsetType DEF RequestType
<1>2. QED
  BY <1>1 DEF SavesChange, RequestType

LEMMA StartedType ==
    ASSUME NEW q \in RefreshType, NEW copy \in Credential
    PROVE  [q EXCEPT !.phase = "asking", !.copy = copy] \in RefreshType
  BY DEF RefreshType

LEMMA InitType == Init => TypeOK
  BY UnsetType, KeyAssumption, ValueAssumption, SentinelAssumption
  DEF Init, TypeOK, IdleRefresh, Credential, NoCopy, Settings, Unset

LEMMA StepType == TypeOK /\ [Next]_vars => TypeOK'
<1> SUFFICES ASSUME TypeOK, [Next]_vars PROVE TypeOK'
  OBVIOUS
<1> USE UnsetType, SentinelAssumption DEF TypeOK
<1>1. ASSUME NEW r \in Requests, NEW key \in Keys, NEW value \in Values,
               NEW accounts \in SUBSET Accounts,
               Ask(r, key, value, accounts) PROVE TypeOK'
  <2> DEFINE asked == [request[r] EXCEPT !.phase = "sweeping", !.key = key,
                                        !.value = value, !.todo = accounts]
  <2>1. request[r] \in RequestType
    BY RequestParts DEF RequestsOK
  <2>2. asked \in RequestType
    BY <2>1, AskedType
  <2>3. /\ asked.phase = "sweeping" /\ asked.at = request[r].at
        /\ request[r].at = NoAccount
    BY <1>1, <2>1 DEF Ask, RequestType
  <2>4. request' = [request EXCEPT ![r] = asked]
    BY <1>1, Zenon DEF Ask
  <2>5. RequestsOK'
    BY <2>2, <2>3, <2>4, RequestWritten DEF SavesChange
  <2>6. settled' \in [Accounts -> SUBSET Requests]
    BY <1>1 DEF Ask
  <2>7. UNCHANGED <<file, runtime, changed, issued, valid, refresh>>
    BY <1>1 DEF Ask
  <2>8. QED
    BY <2>5, <2>6, <2>7, TypeAssembled DEF RefreshType
<1>2. ASSUME NEW r \in Requests, NEW a \in Accounts, Skipped(r, a) PROVE TypeOK'
  BY <1>2 DEF Skipped
<1>3. ASSUME NEW r \in Requests, NEW a \in Accounts, Read(r, a) PROVE TypeOK'
  <2> DEFINE asked == [request[r] EXCEPT !.phase = "saving", !.at = a, !.copy = file[a],
                                        !.todo = request[r].todo \ {a}]
  <2>1. request[r] \in RequestType
    BY RequestParts DEF RequestsOK
  <2>2. file[a] \in Credential
    OBVIOUS
  <2>3. asked \in RequestType
    BY <2>1, <2>2, ReadType
  <2>4. /\ asked.phase = "saving" /\ asked.at = a /\ asked.copy = file[a]
        /\ asked.key = request[r].key /\ asked.value = request[r].value
    BY <2>1 DEF RequestType
  <2>5. file[a].settings[request[r].key] # request[r].value
    BY <1>3 DEF Read, InTargetState
  <2>6. SavesChange(asked)
    BY <2>4, <2>5 DEF SavesChange
  <2>7. request' = [request EXCEPT ![r] = asked]
    BY <1>3, Zenon DEF Read
  <2>8. RequestsOK'
    BY <2>3, <2>6, <2>7, RequestWritten
  <2>9. UNCHANGED <<file, runtime, changed, issued, valid, refresh, settled>>
    BY <1>3 DEF Read
  <2>10. QED
    BY <2>8, <2>9, TypeAssembled DEF RefreshType
<1>4. ASSUME NEW r \in Requests, NEW a \in Accounts, ReadFails(r, a) PROVE TypeOK'
  <2> DEFINE asked == [request[r] EXCEPT !.todo = request[r].todo \ {a}]
  <2>1. request[r] \in RequestType /\ SavesChange(request[r])
    BY RequestParts DEF RequestsOK
  <2>2. asked \in RequestType /\ SavesChange(asked)
    BY <2>1 DEF RequestType, SavesChange
  <2>3. request' = [request EXCEPT ![r] = asked]
    BY <1>4, Zenon DEF ReadFails
  <2>4. RequestsOK'
    BY <2>2, <2>3, RequestWritten
  <2>5. UNCHANGED <<file, runtime, changed, issued, valid, refresh, settled>>
    BY <1>4 DEF ReadFails
  <2>6. QED
    BY <2>4, <2>5, TypeAssembled DEF RefreshType
<1>5. ASSUME NEW r \in Requests, Save(r) \/ SaveFails(r) PROVE TypeOK'
  <2> DEFINE asked == [request[r] EXCEPT !.phase = "sweeping", !.at = NoAccount,
                                        !.copy = NoCopy]
  <2>1. request[r] \in RequestType
    BY RequestParts DEF RequestsOK
  <2>2. asked \in RequestType /\ SavesChange(asked)
    BY <2>1, LetGoType
  <2>3. request' = [request EXCEPT ![r] = asked] /\ UNCHANGED <<issued, valid, refresh>>
    BY <1>5, Zenon DEF Save, SaveFails, LetGo
  <2>4. RequestsOK'
    BY <2>2, <2>3, RequestWritten
  <2>5. request[r].at \in Accounts
    BY <1>5 DEF Save, SaveFails, LetGo
  <2>6. CASE Written(r)
    <3>1. file' \in [Accounts -> Credential]
      BY <2>5, <2>6, ToggledType DEF Written
    <3>2. runtime' \in [Accounts -> Settings] /\ changed' \subseteq Accounts
      BY <2>5, <2>6 DEF Written
    <3>3. settled' \in [Accounts -> SUBSET Requests]
      BY <1>5, <2>5 DEF Save, SaveFails, StillInForce, Undisturbed
    <3> QED BY <2>3, <2>4, <3>1, <3>2, <3>3, TypeAssembled DEF RefreshType
  <2>7. CASE UNCHANGED <<file, runtime, changed, settled>>
    BY <2>3, <2>4, <2>7, TypeAssembled DEF RefreshType
  <2>8. QED
    BY <1>5, <2>6, <2>7 DEF Save, SaveFails
<1>7. ASSUME NEW r \in Requests, Answer(r) PROVE TypeOK'
  BY <1>7 DEF Answer
<1>8. ASSUME NEW a \in Accounts, RefreshStarts(a) PROVE TypeOK'
  <2>1. refresh \in [Accounts -> RefreshType] /\ file[a] \in Credential
    BY DEF RefreshType
  <2>2. [refresh[a] EXCEPT !.phase = "asking", !.copy = file[a]] \in RefreshType
    <3>1. refresh[a] \in RefreshType
      BY <2>1
    <3>2. QED
      BY <2>1, <3>1, StartedType
  <2>3. refresh' \in [Accounts -> RefreshType]
    BY <1>8, <2>1, <2>2 DEF RefreshStarts
  <2>4. UNCHANGED <<file, runtime, changed, issued, valid, request, settled>>
    BY <1>8 DEF RefreshStarts
  <2>5. QED
    BY <2>3, <2>4 DEF RefreshType
<1>9. ASSUME NEW a \in Accounts, RefreshRotates(a) PROVE TypeOK'
  <2>1. /\ issued' \in [Accounts -> Nat] /\ issued'[a] = issued[a] + 1
    BY <1>9 DEF RefreshRotates
  <2>2. valid' \in [Accounts -> SUBSET Nat]
    BY <1>9, <2>1 DEF RefreshRotates
  <2>3. refresh' \in [Accounts -> RefreshType]
    <3>1. refresh \in [Accounts -> RefreshType]
      BY DEF RefreshType
    <3>2. refresh' = [refresh EXCEPT ![a] =
                            [refresh[a] EXCEPT !.phase = "rotated", !.pair = issued'[a]]]
      BY <1>9 DEF RefreshRotates
    <3>3. refresh[a] \in RefreshType /\ issued'[a] \in Nat
      BY <2>1, <3>1
    <3>4. [refresh[a] EXCEPT !.phase = "rotated", !.pair = issued'[a]] \in RefreshType
      BY <3>3 DEF RefreshType
    <3>5. QED
      BY <3>1, <3>2, <3>4
  <2>4. QED
    BY <1>9, <2>1, <2>2, <2>3 DEF RefreshRotates, RefreshType
<1>6. ASSUME NEW a \in Accounts, RefreshKeeps(a) PROVE TypeOK'
  <2>1. refresh \in [Accounts -> RefreshType]
    BY DEF RefreshType
  <2>2. refresh[a] \in RefreshType /\ refresh[a].copy.pair \in Nat
    BY <2>1 DEF RefreshType, Credential
  <2>3. [refresh[a] EXCEPT !.phase = "rotated", !.pair = refresh[a].copy.pair] \in RefreshType
    BY <2>2 DEF RefreshType
  <2>4. QED
    BY <1>6, <2>1, <2>3 DEF RefreshKeeps, RefreshType
<1>10. ASSUME NEW a \in Accounts, RefreshFails(a) PROVE TypeOK'
  BY <1>10 DEF RefreshFails, IdleRefresh
<1>11. ASSUME NEW a \in Accounts, RefreshReturns(a) PROVE TypeOK'
  <2>1. refresh[a].copy \in Credential /\ refresh[a].pair \in Nat
    OBVIOUS
  <2>2. refresh[a].copy.settings \in Settings
    BY <2>1 DEF Credential
  <2>3. file' \in [Accounts -> Credential]
    BY <1>11, <2>1, RebuiltType DEF RefreshReturns
  <2>4. runtime' \in [Accounts -> Settings]
    BY <1>11, <2>2 DEF RefreshReturns
  <2>5. refresh' \in [Accounts -> RefreshType]
    BY <1>11 DEF RefreshReturns, IdleRefresh, RefreshType
  <2>6. settled' \in [Accounts -> SUBSET Requests]
    BY <1>11 DEF RefreshReturns, Undisturbed
  <2>7. QED
    BY <1>11, <2>3, <2>4, <2>5, <2>6 DEF RefreshReturns, RefreshType
<1>12. ASSUME NEW a \in Accounts, SignedIn(a) PROVE TypeOK'
  <2>1. /\ issued' \in [Accounts -> Nat] /\ issued'[a] = issued[a] + 1
    BY <1>12 DEF SignedIn
  <2>2. valid' \in [Accounts -> SUBSET Nat]
    BY <1>12, <2>1 DEF SignedIn
  <2>3. file' \in [Accounts -> Credential]
    BY <1>12, <2>1, RebuiltType DEF SignedIn
  <2>4. QED
    BY <1>12, <2>1, <2>2, <2>3 DEF SignedIn
<1>13. ASSUME NEW a \in Accounts, Parse(a) PROVE TypeOK'
  BY <1>13 DEF Parse, Parsed, Credential
<1>14. CASE UNCHANGED vars
  BY <1>14 DEF vars
<1>15. QED
  BY <1>1, <1>2, <1>3, <1>4, <1>5, <1>6, <1>7, <1>8, <1>9, <1>10, <1>11, <1>12, <1>13,
     <1>14, StepCases

LEMMA InitAnswers == Init => AnswersHold
  BY DEF Init, AnswersHold

LEMMA StepAnswers == TypeOK /\ AnswersHold /\ [Next]_vars => AnswersHold'
<1> SUFFICES ASSUME TypeOK, AnswersHold, [Next]_vars PROVE AnswersHold'
  OBVIOUS
<1> USE SentinelAssumption DEF TypeOK, AnswersHold, InTargetState
<1>1. ASSUME NEW r \in Requests, NEW key \in Keys, NEW value \in Values,
               NEW accounts \in SUBSET Accounts,
               Ask(r, key, value, accounts) PROVE AnswersHold'
  BY <1>1 DEF Ask
<1>2. ASSUME NEW r \in Requests, NEW a \in Accounts, Skipped(r, a) PROVE AnswersHold'
  BY <1>2 DEF Skipped
<1>3. ASSUME NEW r \in Requests, NEW a \in Accounts, Read(r, a) PROVE AnswersHold'
  BY <1>3 DEF Read
<1>4. ASSUME NEW r \in Requests, NEW a \in Accounts, ReadFails(r, a) PROVE AnswersHold'
  BY <1>4 DEF ReadFails
<1>5. ASSUME NEW r \in Requests, Save(r) \/ SaveFails(r) PROVE AnswersHold'
  <2> DEFINE b == request[r].at
             copy == request[r].copy
             key == request[r].key
             value == request[r].value
             Booked == \/ settled' = [settled EXCEPT ![b] = StillInForce(r) \cup {r}]
                       \/ settled' = [settled EXCEPT ![b] = StillInForce(r)]
  <2>1. b \in Accounts /\ copy \in Credential /\ key \in Keys /\ value \in Values
    BY <1>5 DEF Save, SaveFails, LetGo
  <2>2. \A q \in Requests :
            request'[q].key = request[q].key /\ request'[q].value = request[q].value
    <3>1. request' = [request EXCEPT ![r] = [request[r] EXCEPT !.phase = "sweeping",
                                                !.at = NoAccount, !.copy = NoCopy]]
      BY <1>5, Zenon DEF Save, SaveFails, LetGo
    <3>2. QED
      BY <3>1
  <2>3. CASE Written(r) /\ Booked
    <3>1. /\ \A a \in Accounts \ {b} : file'[a] = file[a]
          /\ file'[b] = Toggled(copy, key, value)
      BY <2>1, <2>3 DEF Written
    <3>2. file'[b].settings = [copy.settings EXCEPT ![key] = value]
      BY <2>1, <3>1, ToggledType DEF Toggled, Credential
    <3>3. copy.settings \in [Keys -> Values]
      BY <2>1 DEF Credential, Settings
    <3>4. /\ StillInForce(r) \subseteq settled[b] \ SameKey(r)
          /\ StillInForce(r) # {} => copy.settings = file[b].settings
      BY DEF StillInForce, Undisturbed
    <3>5. /\ \A a \in Accounts \ {b} : settled'[a] = settled[a]
          /\ settled'[b] \subseteq StillInForce(r) \cup {r}
      BY <2>1, <2>3
    <3>6. ASSUME NEW a \in Accounts, NEW q \in settled'[a] PROVE InTargetState(q, a)'
      <4>1. CASE a # b
        BY <2>2, <3>1, <3>5, <4>1
      <4>2. CASE a = b /\ q = r
        BY <2>1, <2>2, <3>2, <3>3, <4>2
      <4>3. CASE a = b /\ q \in StillInForce(r)
        <5>1. /\ q \in Requests /\ q \in settled[b] /\ request[q].key # key
              /\ copy.settings = file[b].settings
          BY <2>1, <3>4, <4>3 DEF SameKey
        <5>2. request[q].key \in Keys
          BY <5>1
        <5>3. copy.settings[request[q].key] = request[q].value
          BY <2>1, <5>1
        <5>4. QED
          BY <2>2, <3>2, <3>3, <4>3, <5>1, <5>2, <5>3
      <4>4. QED
        BY <3>5, <4>1, <4>2, <4>3
    <3>7. QED
      BY <3>6
  <2>4. CASE UNCHANGED <<file, settled>>
    BY <2>2, <2>4
  <2>5. QED
    BY <1>5, <2>3, <2>4 DEF Save, SaveFails
<1>6. ASSUME NEW a \in Accounts, RefreshKeeps(a) PROVE AnswersHold'
  BY <1>6 DEF RefreshKeeps
<1>7. ASSUME NEW r \in Requests, Answer(r) PROVE AnswersHold'
  BY <1>7 DEF Answer
<1>8. ASSUME NEW a \in Accounts, RefreshStarts(a) PROVE AnswersHold'
  BY <1>8 DEF RefreshStarts
<1>9. ASSUME NEW a \in Accounts, RefreshRotates(a) PROVE AnswersHold'
  BY <1>9 DEF RefreshRotates
<1>10. ASSUME NEW a \in Accounts, RefreshFails(a) PROVE AnswersHold'
  BY <1>10 DEF RefreshFails
<1>11. ASSUME NEW a \in Accounts, RefreshReturns(a) PROVE AnswersHold'
  <2>1. refresh[a].copy \in Credential /\ refresh[a].pair \in Nat
    OBVIOUS
  <2>2. /\ file'[a].settings = refresh[a].copy.settings
        /\ \A b \in Accounts \ {a} : file'[b] = file[b] /\ settled'[b] = settled[b]
        /\ UNCHANGED request
    <3>1. Rebuilt(refresh[a].copy, refresh[a].pair).settings = refresh[a].copy.settings
      BY <2>1, RebuiltType
    <3>2. QED
      BY <1>11, <3>1 DEF RefreshReturns
  <2>3. settled'[a] = IF refresh[a].copy.settings = file[a].settings THEN settled[a] ELSE {}
    BY <1>11 DEF RefreshReturns, Undisturbed
  <2>4. QED
    BY <2>2, <2>3
<1>12. ASSUME NEW a \in Accounts, SignedIn(a) PROVE AnswersHold'
  BY <1>12 DEF SignedIn
<1>13. ASSUME NEW a \in Accounts, Parse(a) PROVE AnswersHold'
  BY <1>13 DEF Parse
<1>14. CASE UNCHANGED vars
  BY <1>14 DEF vars
<1>15. QED
  BY <1>1, <1>2, <1>3, <1>4, <1>5, <1>6, <1>7, <1>8, <1>9, <1>10, <1>11, <1>12, <1>13,
     <1>14, StepCases

LEMMA InitPairs == Init => PairInv
  BY SentinelAssumption DEF Init, PairInv, PairsAccepted, NoneOlder, IdleRefresh

LEMMA StepPairs == TypeOK /\ PairInv /\ [Next]_vars => PairInv'
<1> SUFFICES ASSUME TypeOK, PairInv, [Next]_vars PROVE PairInv'
  OBVIOUS
<1> USE UnsetType, SentinelAssumption DEF TypeOK, PairInv, PairsAccepted, NoneOlder, Credential
<1>1. ASSUME NEW r \in Requests, NEW key \in Keys, NEW value \in Values,
               NEW accounts \in SUBSET Accounts,
               Ask(r, key, value, accounts) PROVE PairInv'
  BY <1>1 DEF Ask
<1>2. ASSUME NEW r \in Requests, NEW a \in Accounts, Skipped(r, a) PROVE PairInv'
  BY <1>2 DEF Skipped
<1>3. ASSUME NEW r \in Requests, NEW a \in Accounts, Read(r, a) PROVE PairInv'
  BY <1>3 DEF Read
<1>4. ASSUME NEW r \in Requests, NEW a \in Accounts, ReadFails(r, a) PROVE PairInv'
  BY <1>4 DEF ReadFails
<1>5. ASSUME NEW r \in Requests, LetGo(r), Written(r), UNCHANGED <<issued, valid, refresh>>
      PROVE PairInv'
  <2>1. request[r].at \in Accounts /\ request[r].copy \in Credential
    BY <1>5 DEF LetGo, Written
  <2>2. /\ file' = [file EXCEPT ![request[r].at] =
                        Toggled(request[r].copy, request[r].key, request[r].value)]
        /\ UNCHANGED <<issued, valid, refresh>>
    BY <1>5 DEF LetGo, Written
  <2>3. /\ file'[request[r].at].pair = request[r].copy.pair
        /\ \A b \in Accounts : b # request[r].at => file'[b] = file[b]
    BY <2>1, <2>2, ToggledType
  <2>4. /\ request'[r].at = NoAccount
        /\ \A q \in Requests \ {r} : request'[q] = request[q]
    BY <1>5 DEF LetGo, Written
  <2>5. PairsAccepted'
    <3>1. \A b \in Accounts : file'[b].pair \in valid[b]
      BY <1>5, <2>1, <2>3 DEF LetGo, Written
    <3>2. \A q \in Requests : request'[q].at \in Accounts => request'[q] = request[q]
      BY <2>4
    <3>3. QED
      BY <2>2, <3>1, <3>2
  <2>6. NoneOlder'
    <3>1. \A b \in Accounts : refresh[b].phase # "idle" =>
            file'[b].pair >= refresh[b].copy.pair
      BY <1>5, <2>1, <2>3 DEF LetGo, Written
    <3>2. \A q \in Requests : request'[q].at \in Accounts => request'[q] = request[q]
      BY <2>4
    <3>3. QED
      BY <2>2, <3>1, <3>2
  <2>7. QED
    BY <2>5, <2>6
<1>6. ASSUME NEW r \in Requests, Save(r) \/ SaveFails(r) PROVE PairInv'
  <2>1. CASE Written(r)
    BY <1>5, <1>6, <2>1 DEF Save, SaveFails
  <2>2. CASE UNCHANGED file
    <3>1. request' = [request EXCEPT ![r] = [request[r] EXCEPT !.phase = "sweeping",
                                                !.at = NoAccount, !.copy = NoCopy]]
      BY <1>6, Zenon DEF Save, SaveFails, LetGo
    <3>2. /\ request'[r].at = NoAccount
          /\ \A q \in Requests \ {r} : request'[q] = request[q]
      BY <3>1
    <3>3. UNCHANGED <<issued, valid, refresh>>
      BY <1>6, Zenon DEF Save, SaveFails
    <3>4. QED
      BY <2>2, <3>2, <3>3
  <2>3. QED
    BY <1>6, <2>1, <2>2 DEF Save, SaveFails
<1>16. ASSUME NEW a \in Accounts, RefreshKeeps(a) PROVE PairInv'
  BY <1>16 DEF RefreshKeeps
<1>7. ASSUME NEW r \in Requests, Answer(r) PROVE PairInv'
  BY <1>7 DEF Answer
<1>8. ASSUME NEW a \in Accounts, RefreshStarts(a) PROVE PairInv'
  BY <1>8 DEF RefreshStarts
<1>9. ASSUME NEW a \in Accounts, RefreshRotates(a) PROVE PairInv'
  BY <1>9 DEF RefreshRotates
<1>10. ASSUME NEW a \in Accounts, RefreshFails(a) PROVE PairInv'
  BY <1>10 DEF RefreshFails, IdleRefresh
<1>11. ASSUME NEW a \in Accounts, RefreshReturns(a) PROVE PairInv'
  <2>1. /\ refresh[a].phase = "rotated" /\ refresh'[a].phase = "idle"
        /\ \A b \in Accounts \ {a} : refresh'[b] = refresh[b] /\ file'[b] = file[b]
        /\ UNCHANGED <<issued, valid, request>>
    BY <1>11 DEF RefreshReturns, IdleRefresh
  <2>2. file'[a].pair = refresh[a].pair
    BY <1>11, RebuiltType DEF RefreshReturns
  <2>3. PairsAccepted'
    BY <2>1, <2>2
  <2>4. NoneOlder'
    BY <2>1
  <2>5. QED
    BY <2>3, <2>4
<1>12. ASSUME NEW a \in Accounts, SignedIn(a) PROVE PairInv'
  <2>1. /\ issued'[a] = issued[a] + 1 /\ issued'[a] \in Nat
        /\ \A b \in Accounts \ {a} :
            issued'[b] = issued[b] /\ valid'[b] = valid[b] /\ file'[b] = file[b]
        /\ valid'[a] = valid[a] \cup {issued'[a]}
        /\ UNCHANGED <<request, refresh>>
    BY <1>12 DEF SignedIn
  <2>2. file'[a].pair = issued'[a]
    BY <1>12, <2>1, RebuiltType DEF SignedIn
  <2>3. /\ file[a].pair \in Nat /\ issued[a] \in Nat /\ valid[a] \subseteq Nat
        /\ refresh[a].copy.pair \in Nat
    OBVIOUS
  <2>4. PairsAccepted'
    <3>1. file'[a].pair \in valid'[a]
      BY <2>1, <2>2
    <3>2. \A p \in valid'[a] : p <= issued'[a]
      BY <2>1, <2>3
    <3>3. QED
      BY <2>1, <3>1, <3>2
  <2>5. NoneOlder'
    BY <2>1, <2>2, <2>3
  <2>6. QED
    BY <2>4, <2>5
<1>13. ASSUME NEW a \in Accounts, Parse(a) PROVE PairInv'
  BY <1>13 DEF Parse
<1>14. CASE UNCHANGED vars
  BY <1>14 DEF vars
<1>15. QED
  BY <1>1, <1>2, <1>3, <1>4, <1>5, <1>6, <1>7, <1>8, <1>9, <1>10, <1>11, <1>12, <1>13,
     <1>14, <1>16, StepCases

-----------------------------------------------------------------------------

LEMMA Inductive == Spec => [](TypeOK /\ AnswersHold /\ PairInv)
  BY InitType, StepType, InitAnswers, StepAnswers, InitPairs, StepPairs, PTL DEF Spec

\* The state has its types, and a request saves only what it changes.
THEOREM TypeCorrect == Spec => []TypeOK
  BY Inductive, PTL

\* What a request answered of an account holds for as long as it can be relied on,
\* however many requests and refreshes run.
THEOREM AnswersAreKept == Spec => []AnswersHold
  BY Inductive, PTL

\* The backend accepts the refresh token of every file, whichever writer was the
\* last and whatever it had read.
THEOREM NobodyLockedOut == Spec => []NeverLockedOut
<1>1. PairInv => NeverLockedOut
  BY DEF PairInv, PairsAccepted, NeverLockedOut
<1>2. QED
  BY <1>1, Inductive, PTL

=============================================================================
