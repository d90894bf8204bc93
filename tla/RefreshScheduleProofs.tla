----------------------- MODULE RefreshScheduleProofs -----------------------
(* Theorems about RefreshSchedule, for any intervals, lifetimes and durations that
   meet its assumptions. *)
EXTENDS RefreshSchedule, TLAPS

Expires == life # NoExpiry

\* While nothing has failed, the floor lies a minute before the expiry ...
FloorBeforeExpiry == ~excused /\ Expires => floor = 0 \/ floor + Minute <= life

InUse == /\ ~excused => status = "active" /\ ~suspended
         /\ call.phase = "asking" => status = "active"

\* ... so that a refresh begins, and ends, in time;
TimeToRefresh ==
    ~excused /\ Expires =>
        IF call.phase = "idle" THEN life > Latency ELSE life + call.taken > Latency

\* and it is passed neither before an interval is over nor before the last minute.
FloorNotTooEarly ==
    ~excused /\ stamped => \/ \E i \in Intervals : i <= age + floor
                           \/ Expires /\ life <= floor + Minute

ScheduleInv == InUse /\ FloorBeforeExpiry /\ TimeToRefresh /\ FloorNotTooEarly

\* The floor is within the token's lifetime, and not needlessly early.
LEMMA FloorFacts ==
    ASSUME NEW i \in Intervals, NEW l \in Nat \cup {NoExpiry}
    PROVE  /\ NextRefreshAfter(i, l) \in Nat
           /\ l # NoExpiry => NextRefreshAfter(i, l) = 0 \/ NextRefreshAfter(i, l) + Minute <= l
           /\ i <= NextRefreshAfter(i, l) \/ (l # NoExpiry /\ l <= NextRefreshAfter(i, l) + Minute)
  <1>1. i \in Nat /\ Minute \in Nat
    BY IntervalAssumption, TimeAssumption
  <1>2. CASE l = NoExpiry
    BY <1>1, <1>2 DEF NextRefreshAfter
  <1>3. CASE l # NoExpiry
    <2>1. l \in Nat
      BY <1>3
    <2> QED BY <1>1, <1>3, <2>1 DEF NextRefreshAfter, AtLeastZero
  <1> QED BY <1>2, <1>3

\* The values that the record can take.
LEMMA RecordType == TypeOK => /\ life = NoExpiry \/ life \in Nat
                              /\ (life \in Nat => Expires)
                              /\ floor \in Nat /\ age \in Nat /\ age <= Horizon
                              /\ Horizon \in Nat /\ Minute \in Nat /\ Latency \in Nat
                              /\ Latency < Minute
  <1> SUFFICES ASSUME TypeOK PROVE /\ life = NoExpiry \/ life \in Nat
                                   /\ (life \in Nat => Expires)
                                   /\ floor \in Nat /\ age \in Nat /\ age <= Horizon
    BY TimeAssumption
  <1>1. life = NoExpiry \/ life \in Nat
    BY DEF TypeOK
  <1>2. life \in Nat => life # NoExpiry
    BY LifeAssumption
  <1>3. floor \in Nat /\ age \in Nat /\ age <= Horizon
    BY TimeAssumption DEF TypeOK
  <1> QED BY <1>1, <1>2, <1>3 DEF Expires

\* The times are numbers in every state.
THEOREM TypeCorrect == Spec => []TypeOK
<1>1. Init => TypeOK
  <2> SUFFICES ASSUME Init PROVE TypeOK
    OBVIOUS
  <2>1. life \in Nat \cup {NoExpiry}
    BY LifeAssumption DEF Init
  <2>2. floor \in Nat
    BY <2>1, FloorFacts DEF Init
  <2>3. excused \in BOOLEAN
    BY DEF Init, TooShort
  <2>4. age \in 0..Horizon /\ 0 \in 0..Latency
    BY TimeAssumption DEF Init
  <2> QED BY <2>1, <2>2, <2>3, <2>4 DEF Init, TypeOK, Idle
<1>2. TypeOK /\ [Next]_vars => TypeOK'
  <2> SUFFICES ASSUME TypeOK, [Next]_vars PROVE TypeOK'
    OBVIOUS
  <2>1. CASE UNCHANGED vars
    BY <2>1 DEF TypeOK, vars
  <2>2. CASE \E i \in Intervals : Reconfigure(i)
    BY <2>2 DEF Reconfigure, TypeOK, record
  <2>3. CASE Parse \/ Toggle
    <3>1. floor' \in Nat
      BY <2>3, FloorFacts DEF Parse, Toggle, Parsed, TypeOK
    <3>2. age' \in 0..Horizon
      <4>1. age' = IF stamped THEN age ELSE 0
        BY <2>3 DEF Parse, Toggle, Parsed, SinceRefresh
      <4>2. age \in 0..Horizon /\ 0 \in 0..Horizon
        BY TimeAssumption DEF TypeOK
      <4> QED BY <4>1, <4>2
    <3>3. suspended' \in BOOLEAN /\ excused' \in BOOLEAN
      <4>1. suspended \in BOOLEAN /\ excused \in BOOLEAN
        BY DEF TypeOK
      <4>2. \/ suspended' = suspended /\ excused' = excused
            \/ suspended' = ~suspended /\ excused' = TRUE
        BY <2>3 DEF Parse, Toggle
      <4> QED BY <4>1, <4>2, Zenon
    <3>4. stamped' \in BOOLEAN
      <4>1. stamped' \in {stamped, TRUE}
        BY <2>3 DEF Parse, Toggle, Parsed
      <4> QED BY <4>1, Zenon DEF TypeOK
    <3>5. UNCHANGED <<interval, life, status, call>> /\ lead' = interval
      BY <2>3 DEF Parse, Toggle, Parsed, config
    <3> QED BY <3>1, <3>2, <3>3, <3>4, <3>5 DEF TypeOK
  <2>4. CASE RefreshStarts
    BY <2>4, TimeAssumption DEF RefreshStarts, TypeOK, config, record
  <2>5. ASSUME NEW l \in Lives \cup {NoExpiry}, RefreshSucceeds(l) \/ SignIn(l) PROVE TypeOK'
    <3>1. floor' \in Nat /\ life' = l /\ age' = 0 /\ stamped' \in BOOLEAN /\ lead' = interval
      BY <2>5, FloorFacts, LifeAssumption DEF RefreshSucceeds, SignIn, Issued, TypeOK
    <3>2. excused' \in BOOLEAN
      BY <2>5 DEF RefreshSucceeds, SignIn, Issued, TooShort
    <3>3. 0 \in 0..Horizon /\ 0 \in 0..Latency
      BY TimeAssumption
    <3>4. life' \in Nat \cup {NoExpiry}
      BY <3>1, LifeAssumption
    <3>5. /\ interval' \in Intervals /\ lead' \in Intervals
          /\ suspended' \in BOOLEAN /\ status' \in {"active", "unauthorized"}
          /\ call' \in [phase : {"idle", "asking"}, interval : Intervals \cup {0}, taken : 0..Latency]
      <4>1. CASE RefreshSucceeds(l)
        BY <4>1, <3>1, <3>3 DEF RefreshSucceeds, Idle, TypeOK, config
      <4>2. CASE SignIn(l)
        BY <4>2, <3>1 DEF SignIn, TypeOK, config
      <4> QED BY <2>5, <4>1, <4>2
    <3> QED BY <3>1, <3>2, <3>3, <3>4, <3>5 DEF TypeOK
  <2>6. CASE \E s \in Statuses : RefreshFails(s)
    BY <2>6, TimeAssumption DEF RefreshFails, TypeOK, Idle, config
  <2>7. CASE Tick
    <3>1. floor' \in Nat /\ age' \in 0..Horizon
      BY <2>7, TimeAssumption DEF Tick, TypeOK, Sooner, AtLeastZero
    <3>2. life' \in Nat \cup {NoExpiry}
      BY <2>7, RecordType DEF Tick, TypeOK, Running, Sooner, AtLeastZero
    <3>3. call' \in [phase : {"idle", "asking"}, interval : Intervals \cup {0}, taken : 0..Latency]
      BY <2>7, TimeAssumption DEF Tick, TypeOK
    <3> QED BY <2>7, <3>1, <3>2, <3>3 DEF Tick, TypeOK, config
  <2> QED BY <2>1, <2>2, <2>3, <2>4, <2>5, <2>6, <2>7 DEF Next
<1> QED BY <1>1, <1>2, PTL DEF Spec

LEMMA ScheduleInit == Init => ScheduleInv
  <1> SUFFICES ASSUME Init PROVE ScheduleInv
    OBVIOUS
  <1>1. life \in Nat \cup {NoExpiry} /\ (life # NoExpiry => life \in Nat)
    BY LifeAssumption DEF Init
  <1>2. FloorBeforeExpiry /\ FloorNotTooEarly
    BY <1>1, FloorFacts DEF Init, FloorBeforeExpiry, FloorNotTooEarly, Expires
  <1>3. TimeToRefresh
    <2>1. ~excused => ~TooShort(life)
      BY DEF Init
    <2>2. ~TooShort(life) /\ Expires => life > Latency
      BY <1>1, TimeAssumption DEF TooShort, Expires
    <2> QED BY <2>1, <2>2 DEF Init, TimeToRefresh, Idle
  <1>4. InUse
    BY DEF Init, InUse, Idle
  <1> QED BY <1>2, <1>3, <1>4 DEF ScheduleInv

LEMMA ScheduleStep ==
    ASSUME TypeOK, ScheduleInv, [Next]_vars
    PROVE  ScheduleInv'
<1> USE DEF ScheduleInv
<1>1. CASE UNCHANGED vars \/ \E i \in Intervals : Reconfigure(i)
  BY <1>1 DEF vars, Reconfigure, record, InUse, FloorBeforeExpiry, TimeToRefresh, FloorNotTooEarly, Expires
<1>2. CASE Parse
  <2>1. /\ UNCHANGED <<life, call, excused>>
        /\ floor' = NextRefreshAfter(interval, life)
        /\ age' = IF stamped THEN age ELSE 0
    BY <1>2 DEF Parse, Parsed, SinceRefresh
  <2>2. FloorBeforeExpiry' /\ TimeToRefresh'
    BY <2>1, FloorFacts DEF TypeOK, FloorBeforeExpiry, TimeToRefresh, Expires
  <2>3. FloorNotTooEarly'
    <3>1. interval <= floor' \/ (Expires' /\ life' <= floor' + Minute)
      BY <2>1, FloorFacts DEF TypeOK, Expires
    <3>2. interval \in Nat /\ floor' \in Nat /\ age' \in Nat
      BY <2>1, FloorFacts, IntervalAssumption, RecordType DEF TypeOK
    <3>3. interval <= floor' => interval <= age' + floor'
      <4>1. \A x, y, z \in Nat : x <= y => x <= z + y
        OBVIOUS
      <4> QED BY <3>2, <4>1, Zenon
    <3>4. interval \in Intervals
      BY DEF TypeOK
    <3>5. interval' = interval
      BY <1>2, <3>4 DEF Parse, config
    <3> QED BY <3>1, <3>3, <3>4, <3>5 DEF FloorNotTooEarly
  <2> QED BY <1>2, <2>1, <2>2, <2>3 DEF Parse, InUse
<1>3. CASE Toggle \/ \E s \in Statuses : RefreshFails(s)
  BY <1>3 DEF Toggle, RefreshFails, Idle, InUse, FloorBeforeExpiry, TimeToRefresh, FloorNotTooEarly
<1>4. CASE RefreshStarts
  <2>1. UNCHANGED <<life, floor, age, stamped, excused, suspended, status>>
    BY <1>4 DEF RefreshStarts, record
  <2>2. InUse' /\ FloorBeforeExpiry' /\ FloorNotTooEarly'
    BY <1>4, <2>1 DEF RefreshStarts, Due, InUse, FloorBeforeExpiry, FloorNotTooEarly, Expires
  <2>3. call.phase = "idle" /\ call'.phase = "asking" /\ call'.taken = 0
    BY <1>4 DEF RefreshStarts
  <2>4. TimeToRefresh'
    BY <2>1, <2>3, RecordType DEF TimeToRefresh, Expires
  <2> QED BY <2>2, <2>4
<1>5. ASSUME NEW l \in Lives \cup {NoExpiry}, RefreshSucceeds(l) \/ SignIn(l)
      PROVE ScheduleInv'
  <2>1. /\ life' = l /\ age' = 0 /\ (~excused' => ~TooShort(l) /\ ~suspended')
        /\ call'.phase = "idle" \/ call'.taken \in Nat
    <3>1. call' = Idle \/ call' = call
      BY <1>5 DEF RefreshSucceeds, SignIn
    <3>2. life' = l /\ age' = 0 /\ excused' = (suspended' \/ TooShort(l))
      BY <1>5 DEF RefreshSucceeds, SignIn, Issued
    <3>3. call'.phase = "idle" \/ call'.taken \in Nat
      BY <3>1, TimeAssumption DEF Idle, TypeOK
    <3>4. ~excused' => ~TooShort(l) /\ ~suspended'
      BY <3>2, Zenon
    <3> QED BY <3>2, <3>3, <3>4
  <2>2. PICK i \in Intervals : floor' = NextRefreshAfter(i, l)
    BY <1>5 DEF RefreshSucceeds, SignIn, Issued, TypeOK
  <2>3. l \in Nat \cup {NoExpiry} /\ (l # NoExpiry => l \in Nat) /\ i \in Nat
    BY LifeAssumption, IntervalAssumption
  <2>4. FloorBeforeExpiry'
    BY <2>1, <2>2, <2>3, FloorFacts DEF FloorBeforeExpiry, Expires
  <2>5. FloorNotTooEarly'
    BY <2>1, <2>2, <2>3, FloorFacts DEF FloorNotTooEarly, Expires
  <2>6. TimeToRefresh'
    BY <2>1, <2>3, TimeAssumption DEF TimeToRefresh, Expires, TooShort
  <2>7. InUse'
    <3>1. status' = "active"
      BY <1>5 DEF RefreshSucceeds, SignIn, InUse
    <3> QED BY <2>1, <3>1 DEF InUse
  <2> QED BY <2>4, <2>5, <2>6, <2>7
<1>6. CASE Tick
  <2>1. /\ life' = Running(life) /\ floor' = Sooner(floor)
        /\ age' = IF age < Horizon THEN age + 1 ELSE age
        /\ UNCHANGED <<excused, stamped>>
        /\ call.phase = "idle" => ~Due /\ call'.phase = "idle"
        /\ call.phase = "asking" => /\ call.taken < Latency
                                    /\ call'.phase = "asking" /\ call'.taken = call.taken + 1
        /\ call.phase \in {"idle", "asking"} /\ call.taken \in Nat
    BY <1>6, TimeAssumption DEF Tick, TypeOK
  <2>2. /\ Expires' <=> Expires
        /\ Expires => life' = IF life = 0 THEN 0 ELSE life - 1
        /\ floor' = IF floor = 0 THEN 0 ELSE floor - 1
    BY <2>1, RecordType, LifeAssumption DEF Running, Sooner, AtLeastZero, Expires
  <2>3. FloorBeforeExpiry'
    <3>1. ~excused /\ Expires => floor = 0 \/ floor + Minute <= life
      BY DEF FloorBeforeExpiry
    <3>2. ASSUME Expires, floor = 0 \/ floor + Minute <= life
          PROVE  floor' = 0 \/ floor' + Minute <= life'
      <4>1. life \in Nat /\ floor \in Nat /\ Minute \in Nat
        BY <3>2, RecordType DEF Expires
      <4>2. /\ life' = IF life = 0 THEN 0 ELSE life - 1
            /\ floor' = IF floor = 0 THEN 0 ELSE floor - 1
        BY <2>2, <3>2
      <4> QED BY <3>2, <4>1, <4>2
    <3> QED BY <2>1, <2>2, <3>1, <3>2 DEF FloorBeforeExpiry
  <2>4. TimeToRefresh'
    <3> SUFFICES ASSUME ~excused, Expires
                 PROVE IF call'.phase = "idle" THEN life' > Latency
                                               ELSE life' + call'.taken > Latency
      BY <2>1, <2>2 DEF TimeToRefresh
    <3>1. CASE call.phase = "asking"
      <4>1. life + call.taken > Latency
        BY <3>1 DEF TimeToRefresh
      <4>2. life \in Nat /\ life > 0
        BY <2>1, <3>1, <4>1, RecordType DEF Expires
      <4>3. life' + call'.taken > Latency
        BY <2>1, <2>2, <3>1, <4>1, <4>2, RecordType
      <4> QED BY <2>1, <3>1, <4>3
    <3>2. CASE call.phase = "idle"
      <4>1. life > Latency /\ life \in Nat
        BY <3>2, RecordType DEF TimeToRefresh, Expires
      <4>2. CASE floor = 0
        <5>1. lead \in Nat /\ Latency < lead
          BY IntervalAssumption DEF TypeOK
        <5>2. ~(life <= lead)
          BY <2>1, <3>2, <4>2 DEF Due, InUse, Expires
        <5>3. life' > Latency
          BY <2>2, <4>1, <5>1, <5>2, RecordType
        <5> QED BY <2>1, <3>2, <5>3
      <4>3. CASE floor # 0
        <5>1. floor + Minute <= life
          BY <4>3 DEF FloorBeforeExpiry
        <5>2. life' > Latency
          BY <2>2, <4>1, <4>3, <5>1, RecordType
        <5> QED BY <2>1, <3>2, <5>2
      <4> QED BY <4>2, <4>3
    <3> QED BY <2>1, <3>1, <3>2
  <2>5. FloorNotTooEarly'
    <3> SUFFICES ASSUME ~excused, stamped
                 PROVE  \/ \E i \in Intervals : i <= age' + floor'
                        \/ Expires' /\ life' <= floor' + Minute
      BY <1>6, <2>1 DEF FloorNotTooEarly, Tick, config
    <3>1. (\E i \in Intervals : i <= age + floor) \/ (Expires /\ life <= floor + Minute)
      BY DEF FloorNotTooEarly
    <3>2. ASSUME NEW i \in Intervals, i <= age + floor PROVE i <= age' + floor'
      <4>1. i \in Nat /\ i <= Horizon
        BY IntervalAssumption
      <4> QED BY <2>1, <2>2, <3>2, <4>1, RecordType
    <3>3. ASSUME Expires, life <= floor + Minute PROVE Expires' /\ life' <= floor' + Minute
      <4>1. life \in Nat /\ floor \in Nat /\ Minute \in Nat
        BY <3>3, RecordType DEF Expires
      <4>2. /\ life' = IF life = 0 THEN 0 ELSE life - 1
            /\ floor' = IF floor = 0 THEN 0 ELSE floor - 1
        BY <2>2, <3>3
      <4> QED BY <2>2, <3>3, <4>1, <4>2
    <3> QED BY <3>1, <3>2, <3>3
  <2>6. InUse'
    BY <1>6, <2>1 DEF Tick, InUse
  <2> QED BY <2>3, <2>4, <2>5, <2>6
<1> QED BY <1>1, <1>2, <1>3, <1>4, <1>5, <1>6 DEF Next

LEMMA ScheduleInvariant == Spec => []ScheduleInv
  BY TypeCorrect, ScheduleInit, ScheduleStep, PTL DEF Spec

\* An access token that has nothing to excuse it is renewed before it runs out,
\* for any intervals longer than a refresh takes and any lifetimes.
THEOREM TokensOutlive == Spec => []NeverLapses
<1>1. TypeOK /\ ScheduleInv => NeverLapses
  <2> SUFFICES ASSUME TypeOK, ScheduleInv, life = 0, ~excused PROVE FALSE
    BY DEF NeverLapses
  <2>1. Expires
    BY RecordType
  <2>2. IF call.phase = "idle" THEN 0 > Latency ELSE 0 + call.taken > Latency
    BY <2>1 DEF ScheduleInv, TimeToRefresh
  <2>3. call.taken \in Nat /\ call.taken <= Latency /\ Latency \in Nat
    BY TimeAssumption DEF TypeOK
  <2> QED BY <2>2, <2>3
<1> QED BY <1>1, TypeCorrect, ScheduleInvariant, PTL

\* A refresh of a young token follows a failure, a suspension or a file without a date.
THEOREM RefreshesAreSpaced == Spec => NoNeedlessRefresh
<1>1. TypeOK /\ ScheduleInv /\ [Next]_vars =>
        [RefreshStarts => \/ excused \/ ~stamped
                          \/ \E i \in Intervals : i <= age
                          \/ life # NoExpiry /\ life <= Minute]_vars
  <2> SUFFICES ASSUME TypeOK, ScheduleInv, RefreshStarts, ~excused, stamped
               PROVE  (\E i \in Intervals : i <= age) \/ (life # NoExpiry /\ life <= Minute)
    OBVIOUS
  <2>1. floor = 0
    BY DEF RefreshStarts, Due
  <2>2. (\E i \in Intervals : i <= age + 0) \/ (Expires /\ life <= 0 + Minute)
    BY <2>1 DEF ScheduleInv, FloorNotTooEarly
  <2>3. age + 0 = age /\ 0 + Minute = Minute
    BY RecordType
  <2> QED BY <2>2, <2>3 DEF Expires
<1> QED BY <1>1, TypeCorrect, ScheduleInvariant, PTL DEF Spec, NoNeedlessRefresh

=============================================================================
