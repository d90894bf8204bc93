-------------------------- MODULE QuotaCacheProofs -------------------------
(***************************************************************************)
(* Theorems about QuotaCache, for any accounts, any number of probes at    *)
(* once and any interval.                                                  *)
(*                                                                         *)
(* The bound on what reloads cost counts bursts.  While a reading is       *)
(* missing or stale, every free prober may begin, and the burst is over    *)
(* when one of its probes stores.  Only a probe that is older than the     *)
(* burst can make the reading stale again within the interval, and each    *)
(* such probe does so once: with s of them under way, a burst has n - s    *)
(* probes at most, and the next one has one less of them to count on.      *)
(***************************************************************************)
EXTENDS QuotaCache, TLAPS, FiniteSetTheorems

\* The probes of account a under way that began more than k ticks ago,
Slow(a, k) == {p \in Probers : probe[p].account = a /\ probe[p].age > k}

\* and those of page loads that began since.
Begun(a, k) ==
    {p \in Probers : probe[p].account = a /\ ~probe[p].async /\ probe[p].age <= k}

\* The reading of account a stays fresh until what began k ticks ago is past.
Covered(a, k) == \E age \in cache[a] : age <= k

Free(a, k) == Cardinality(Probers) - Cardinality(Slow(a, k))

RationedAt(a, k) ==
    IF Covered(a, k)
    THEN 2 * recent[a][k] <= Free(a, k) * (Free(a, k) + 1)
    ELSE 2 * recent[a][k] <= Free(a, k) * (Free(a, k) - 1) + 2 * Cardinality(Begun(a, k))

\* ReloadsAreRationed for every part of the interval, by what is under way.
Rationed == \A a \in Accounts, k \in Window : RationedAt(a, k)

-----------------------------------------------------------------------------
(* Types *)

\* Every step keeps the types.
LEMMA TypeStep == TypeOK /\ [Next]_vars => TypeOK'
<1> USE IntervalAssumption, SentinelAssumption
<1> SUFFICES ASSUME TypeOK, [Next]_vars PROVE TypeOK'
    OBVIOUS
<1> USE DEF TypeOK, IdleProbe, Ages, Window
<1>1. ASSUME NEW p \in Probers, NEW a \in Accounts, NEW force \in BOOLEAN,
             ProbeCached(p, a, force)
      PROVE  TypeOK'
    BY <1>1 DEF ProbeCached
<1>2. ASSUME NEW p \in Probers, NEW a \in Accounts, ProbeAsync(p, a) PROVE TypeOK'
    BY <1>2 DEF ProbeAsync
<1>3. ASSUME NEW p \in Probers, Store(p) PROVE TypeOK'
    BY <1>3 DEF Store, Idle
<1>4. ASSUME NEW p \in Probers, Recovered(p) PROVE TypeOK'
    BY <1>4 DEF Recovered
<1>5. ASSUME NEW a \in Accounts, Forget(a) PROVE TypeOK'
    BY <1>5 DEF Forget
<1>6. CASE Tick
    <2>1. \A age \in Ages : Older(age) \in Ages
        BY DEF Older
    <2>2. /\ cache' \in [Accounts -> SUBSET Ages]
          /\ \A a \in Accounts : cache'[a] = {Older(age) : age \in cache[a]}
        <3>1. \A a \in Accounts : {Older(age) : age \in cache[a]} \in SUBSET Ages
            BY <2>1
        <3> QED
            BY <1>6, <3>1 DEF Tick
    <2>5. \A a \in Accounts : \A x, y \in cache'[a] : x = y
        BY <2>2
    <2>3. probe' \in [Probers -> [account : Accounts \cup {NoAccount}, age : Ages,
                                  async : BOOLEAN]]
        <3>1. ASSUME NEW p \in Probers
              PROVE  [probe[p] EXCEPT !.age = Older(@)]
                        = [account |-> probe[p].account, age |-> Older(probe[p].age),
                           async |-> probe[p].async]
            OBVIOUS
        <3>2. probe' = [p \in Probers |-> IF Idle(p) THEN probe[p]
                        ELSE [account |-> probe[p].account, age |-> Older(probe[p].age),
                              async |-> probe[p].async]]
            BY <1>6, <3>1 DEF Tick
        <3>3. ASSUME NEW p \in Probers
              PROVE  [account |-> probe[p].account, age |-> Older(probe[p].age),
                      async |-> probe[p].async]
                        \in [account : Accounts \cup {NoAccount}, age : Ages,
                            async : BOOLEAN]
            <4>1. /\ probe[p].account \in Accounts \cup {NoAccount}
                  /\ probe[p].age \in Ages
                  /\ probe[p].async \in BOOLEAN
                BY DEF TypeOK
            <4> QED
                BY <2>1, <4>1, Zenon
        <3>4. probe \in [Probers -> [account : Accounts \cup {NoAccount}, age : Ages,
                                    async : BOOLEAN]]
            BY DEF TypeOK
        <3> DEFINE next(p) == [account |-> probe[p].account, age |-> Older(probe[p].age),
                               async |-> probe[p].async]
                   Probe == [account : Accounts \cup {NoAccount}, age : Ages,
                             async : BOOLEAN]
        <3>5. /\ probe' = [p \in Probers |-> IF Idle(p) THEN probe[p] ELSE next(p)]
              /\ \A p \in Probers : next(p) \in Probe /\ probe[p] \in Probe
            BY <3>2, <3>3, <3>4
        <3> HIDE DEF next, Probe
        <3>6. probe' \in [Probers -> Probe]
            BY <3>5
        <3> QED
            BY <3>6 DEF Probe
    <2>4. recent' \in [Accounts -> [Window -> Nat]]
        <3> DEFINE next(a) == [k \in Window |-> IF k = 0 THEN 0 ELSE recent[a][k - 1]]
        <3>1. ASSUME NEW a \in Accounts PROVE next(a) \in [Window -> Nat]
            <4>1. recent[a] \in [Window -> Nat]
                OBVIOUS
            <4>2. \A k \in Window : k # 0 => k - 1 \in Window
                OBVIOUS
            <4> QED
                BY <4>1, <4>2
        <3>2. recent' = [a \in Accounts |-> next(a)]
            BY <1>6 DEF Tick
        <3> HIDE DEF next
        <3> QED
            BY <3>1, <3>2
    <2> QED
        BY <2>2, <2>3, <2>4, <2>5
<1>7. CASE UNCHANGED vars
    BY <1>7 DEF vars
<1> QED
    BY <1>1, <1>2, <1>3, <1>4, <1>5, <1>6, <1>7 DEF Next

\* The cache, the probes and the counters have their types in every state, and a
\* cached reading is one.
THEOREM TypeCorrect == Spec => []TypeOK
<1>1. Init => TypeOK
    BY IntervalAssumption, SentinelAssumption DEF Init, TypeOK, IdleProbe, Ages, Window
<1> QED
    BY <1>1, TypeStep, PTL DEF Spec

-----------------------------------------------------------------------------
(* Counting *)

\* Two disjoint parts of the probers are no more than there are.
LEMMA Counts ==
    ASSUME NEW S, NEW B, S \subseteq Probers, B \subseteq Probers, S \cap B = {}
    PROVE  /\ Cardinality(Probers) \in Nat
           /\ Cardinality(S) \in Nat
           /\ Cardinality(B) \in Nat
           /\ Cardinality(S) + Cardinality(B) <= Cardinality(Probers)
           /\ IsFiniteSet(S) /\ IsFiniteSet(B)
<1>1. IsFiniteSet(S) /\ IsFiniteSet(B) /\ IsFiniteSet(S \cup B) /\ S \cup B \subseteq Probers
    BY ProberAssumption, FS_Subset
<1>2. Cardinality(S \cup B) = Cardinality(S) + Cardinality(B) - Cardinality({})
    BY <1>1, FS_Union
<1>3. Cardinality({}) = 0
    BY FS_EmptySet
<1>4. /\ Cardinality(S) \in Nat /\ Cardinality(B) \in Nat /\ Cardinality(Probers) \in Nat
      /\ Cardinality(S \cup B) <= Cardinality(Probers)
    BY <1>1, ProberAssumption, FS_CardinalityType, FS_Subset
<1> QED
    BY <1>1, <1>2, <1>3, <1>4

\* A burst of free probers, on top of what one less could do.
LEMMA Bursts ==
    ASSUME NEW f \in Nat
    PROVE  /\ f * (f - 1) + 2 * f = f * (f + 1)
           /\ f * (f + 1) = (f + 1) * ((f + 1) - 1)
           /\ \A g \in Nat : f <= g => f * (f + 1) <= g * (g + 1) /\ f * (f - 1) <= g * (g - 1)
<1>1. f * (f - 1) + 2 * f = f * (f + 1)
    OBVIOUS
<1>2. f * (f + 1) = (f + 1) * ((f + 1) - 1)
    OBVIOUS
<1>3. ASSUME NEW g \in Nat, f <= g
      PROVE  f * (f + 1) <= g * (g + 1) /\ f * (f - 1) <= g * (g - 1)
    <2> DEFINE d == g - f
    <2>1. d \in Nat /\ g = f + d
        BY <1>3
    <2> HIDE DEF d
    <2>2. d * f \in Nat /\ d * d \in Nat
        BY <2>1
    <2>3. /\ (f + d) * ((f + d) + 1) = f * (f + 1) + 2 * (d * f) + d * d + d
          /\ (f + d) * ((f + d) - 1) = f * (f - 1) + 2 * (d * f) + d * d - d
        BY <2>1
    <2>4. d <= d * d
        <3>1. CASE d = 0
            BY <3>1
        <3>2. CASE d >= 1
            BY <2>1, <3>2
        <3> QED
            BY <2>1, <3>1, <3>2
    <2>5. f * (f + 1) \in Int /\ f * (f - 1) \in Int
        OBVIOUS
    <2> QED
        BY <2>1, <2>2, <2>3, <2>4, <2>5
<1> QED
    BY <1>1, <1>2, <1>3

-----------------------------------------------------------------------------
(* The bound *)

\* What RationedAt depends on.
LEMMA Unmoved ==
    ASSUME NEW a \in Accounts, NEW k \in Window,
           RationedAt(a, k),
           cache'[a] = cache[a], recent'[a][k] = recent[a][k],
           Slow(a, k)' = Slow(a, k), Begun(a, k)' = Begun(a, k)
    PROVE  RationedAt(a, k)'
<1>1. Covered(a, k)' = Covered(a, k)
    BY DEF Covered
<1>2. Free(a, k)' = Free(a, k)
    BY DEF Free
<1> QED
    BY <1>1, <1>2 DEF RationedAt

\* The step that matters, by its kind: a prober that is idle before or after it
\* leaves the other accounts alone.
LEMMA OthersUnmoved ==
    ASSUME TypeOK, NEW p \in Probers, NEW a \in Accounts, NEW k \in Window, NEW new,
           probe' = [probe EXCEPT ![p] = new],
           probe[p].account # a, new.account # a
    PROVE  Slow(a, k)' = Slow(a, k) /\ Begun(a, k)' = Begun(a, k)
<1>1. /\ probe'[p] = new
      /\ \A q \in Probers : q # p => probe'[q] = probe[q]
    BY DEF TypeOK
<1>2. \A q \in Probers : probe'[q].account = a \/ probe[q].account = a => probe'[q] = probe[q]
    BY <1>1
<1>3. Slow(a, k)' = Slow(a, k)
    BY <1>2 DEF Slow
<1>4. Begun(a, k)' = Begun(a, k)
    BY <1>2 DEF Begun
<1> QED
    BY <1>3, <1>4

\* Every step keeps the ration of every part of the interval.
LEMMA RationedStep ==
    ASSUME TypeOK, Rationed, [Next]_vars, NEW a \in Accounts, NEW k \in Window
    PROVE  RationedAt(a, k)'
<1> USE IntervalAssumption, SentinelAssumption
<1> DEFINE N == Cardinality(Probers)
           s == Cardinality(Slow(a, k))
           b == Cardinality(Begun(a, k))
           f == Free(a, k)
           r == recent[a][k]
<1>1. RationedAt(a, k)
    BY DEF Rationed
<1>2. /\ k \in Nat /\ k < MinInterval /\ MinInterval \in Nat /\ r \in Nat
      /\ \A p \in Probers : probe[p].age \in 0 .. MinInterval
      /\ cache[a] \subseteq 0 .. MinInterval
    BY DEF TypeOK, Ages, Window
<1>3. /\ N \in Nat /\ s \in Nat /\ b \in Nat /\ f \in Nat /\ f = N - s /\ b <= f
      /\ IsFiniteSet(Slow(a, k)) /\ IsFiniteSet(Begun(a, k))
    <2>1. /\ N \in Nat /\ s \in Nat /\ b \in Nat /\ s + b <= N
          /\ IsFiniteSet(Slow(a, k)) /\ IsFiniteSet(Begun(a, k))
        <3>1. /\ Slow(a, k) \subseteq Probers /\ Begun(a, k) \subseteq Probers
              /\ Slow(a, k) \cap Begun(a, k) = {}
            BY <1>2 DEF Slow, Begun
        <3> QED
            BY <3>1, Counts
    <2>2. f = N - s
        BY DEF Free
    <2> HIDE DEF N, s, b, f
    <2> QED
        BY <2>1, <2>2
<1>4. /\ f * (f - 1) + 2 * f = f * (f + 1)
      /\ f * (f + 1) = (f + 1) * ((f + 1) - 1)
      /\ f * (f + 1) \in Nat /\ f * (f - 1) \in Nat
    <2> HIDE DEF f
    <2>1. f * (f - 1) \in Nat
        <3>1. CASE f = 0
            BY <3>1
        <3>2. CASE f # 0
            BY <1>3, <3>2
        <3> QED
            BY <3>1, <3>2
    <2> QED
        BY <1>3, <2>1, Bursts
<1>5. 2 * r <= f * (f + 1)
    <2>1. CASE Covered(a, k)
        BY <1>1, <2>1 DEF RationedAt
    <2>2. CASE ~Covered(a, k)
        <3>1. 2 * r <= f * (f - 1) + 2 * b
            BY <1>1, <2>2 DEF RationedAt
        <3> HIDE DEF r, f, b
        <3> QED
            BY <1>2, <1>3, <1>4, <3>1
    <2> QED
        BY <2>1, <2>2
<1>6. \A p \in Probers : Idle(p) => probe[p].account # a
    BY DEF Idle
<1>7. ASSUME NEW p \in Probers, NEW c \in Accounts, NEW force \in BOOLEAN,
             ProbeCached(p, c, force)
      PROVE  RationedAt(a, k)'
    <2> DEFINE new == [account |-> c, age |-> 0, async |-> FALSE]
    <2>1. CASE c # a
        <3>1. Slow(a, k)' = Slow(a, k) /\ Begun(a, k)' = Begun(a, k)
            <4>1. probe' = [probe EXCEPT ![p] = new] /\ probe[p].account # a /\ new.account # a
                BY <1>6, <1>7, <2>1 DEF ProbeCached
            <4> HIDE DEF new
            <4> QED
                BY <4>1, OthersUnmoved
        <3>2. cache'[a] = cache[a] /\ recent'[a] = recent[a]
            BY <1>7, <2>1 DEF ProbeCached, TypeOK
        <3> QED
            BY <1>1, <3>1, <3>2, Unmoved
    <2>2. CASE c = a
        <3>1. /\ probe[p].account # a /\ probe'[p] = new
              /\ \A q \in Probers : q # p => probe'[q] = probe[q]
            BY <1>6, <1>7, <2>2 DEF ProbeCached, TypeOK
        <3>2. Slow(a, k)' = Slow(a, k)
            BY <1>2, <2>2, <3>1 DEF Slow
        <3>3. Begun(a, k)' = Begun(a, k) \cup {p} /\ p \notin Begun(a, k)
            BY <1>2, <2>2, <3>1 DEF Begun
        <3>4. Cardinality(Begun(a, k)') = b + 1
            <4> DEFINE B == Begun(a, k)
            <4>1. B \cup {p} = Begun(a, k)' /\ p \notin B /\ IsFiniteSet(B)
                BY <1>3, <3>3
            <4> HIDE DEF B
            <4>2. Cardinality(B \cup {p}) = Cardinality(B) + 1
                BY <4>1, FS_AddElement
            <4> QED
                BY <4>1, <4>2 DEF B
        <3>5. Free(a, k)' = f
            BY <3>2 DEF Free
        <3>6. ~Covered(a, k) /\ ~Covered(a, k)'
            <4>1. \A age \in cache[a] : age >= MinInterval
                BY <1>2, <1>7, <2>2 DEF ProbeCached, Spared
            <4>2. cache' = cache
                BY <1>7 DEF ProbeCached
            <4> QED
                BY <1>2, <4>1, <4>2 DEF Covered
        <3>7. recent'[a][k] = r + 1
            BY <1>7, <2>2 DEF ProbeCached, TypeOK
        <3>8. 2 * r <= f * (f - 1) + 2 * b
            BY <1>1, <3>6 DEF RationedAt
        <3>9. 2 * (r + 1) <= f * (f - 1) + 2 * (b + 1)
            <4> HIDE DEF r, f, b
            <4> QED
                BY <1>2, <1>3, <1>4, <3>8
        <3> QED
            BY <3>4, <3>5, <3>6, <3>7, <3>9 DEF RationedAt
    <2> QED
        BY <2>1, <2>2
<1>8. ASSUME NEW p \in Probers, NEW c \in Accounts, ProbeAsync(p, c) PROVE RationedAt(a, k)'
    <2>1. /\ probe[p].account # a /\ probe'[p] = [account |-> c, age |-> 0, async |-> TRUE]
          /\ \A q \in Probers : q # p => probe'[q] = probe[q]
        BY <1>6, <1>8 DEF ProbeAsync, TypeOK
    <2>2. Slow(a, k)' = Slow(a, k)
        BY <1>2, <2>1 DEF Slow
    <2>3. Begun(a, k)' = Begun(a, k)
        BY <1>2, <2>1 DEF Begun
    <2>4. cache'[a] = cache[a] /\ recent'[a] = recent[a]
        BY <1>8 DEF ProbeAsync
    <2> QED
        BY <1>1, <2>2, <2>3, <2>4, Unmoved
<1>9. ASSUME NEW p \in Probers, Store(p) PROVE RationedAt(a, k)'
    <2> DEFINE age == probe[p].age
    <2>1. CASE probe[p].account # a
        <3>1. probe' = [probe EXCEPT ![p] = IdleProbe] /\ IdleProbe.account # a
            BY <1>9 DEF Store, IdleProbe
        <3>2. Slow(a, k)' = Slow(a, k) /\ Begun(a, k)' = Begun(a, k)
            <4> DEFINE new == IdleProbe
            <4>1. probe' = [probe EXCEPT ![p] = new] /\ new.account # a
                BY <3>1
            <4> HIDE DEF new
            <4> QED
                BY <2>1, <4>1, OthersUnmoved
        <3>3. cache'[a] = cache[a] /\ recent'[a] = recent[a]
            BY <1>9, <2>1 DEF Store, TypeOK
        <3> QED
            BY <1>1, <3>2, <3>3, Unmoved
    <2>2. CASE probe[p].account = a
        <3>1. /\ probe'[p] = IdleProbe /\ IdleProbe.account # a
              /\ \A q \in Probers : q # p => probe'[q] = probe[q]
            BY <1>9 DEF Store, TypeOK, IdleProbe
        <3>2. cache'[a] = {age} /\ recent'[a] = recent[a] /\ age \in 0 .. MinInterval
            BY <1>2, <1>9, <2>2 DEF Store, TypeOK
        <3>3. Slow(a, k)' = Slow(a, k) \ {p}
            BY <3>1 DEF Slow
        <3>4. CASE age <= k
            <4>1. Slow(a, k)' = Slow(a, k)
                BY <1>2, <3>2, <3>3, <3>4 DEF Slow
            <4>2. Free(a, k)' = f
                BY <4>1 DEF Free
            <4>3. Covered(a, k)'
                BY <3>2, <3>4 DEF Covered
            <4> QED
                BY <1>5, <3>2, <4>2, <4>3 DEF RationedAt
        <3>5. CASE age > k
            <4>1. p \in Slow(a, k)
                BY <2>2, <3>5 DEF Slow
            <4>2. Begun(a, k)' = Begun(a, k)
                BY <1>2, <3>1, <3>2, <3>5 DEF Begun
            <4>3. Cardinality(Slow(a, k)') = s - 1
                <5> DEFINE S == Slow(a, k)
                <5>1. S \ {p} = Slow(a, k)' /\ p \in S /\ IsFiniteSet(S)
                    BY <1>3, <3>3, <4>1
                <5> HIDE DEF S
                <5>2. Cardinality(S \ {p}) = Cardinality(S) - 1
                    BY <5>1, FS_RemoveElement
                <5> QED
                    BY <5>1, <5>2 DEF S
            <4>4. Free(a, k)' = f + 1
                <5>1. Free(a, k)' = N - (s - 1)
                    BY <4>3 DEF Free
                <5> HIDE DEF N, s, f
                <5> QED
                    BY <1>3, <5>1
            <4>5. ~Covered(a, k)'
                BY <1>2, <3>2, <3>5 DEF Covered
            <4>6. 2 * r <= (f + 1) * ((f + 1) - 1) + 2 * b
                <5> HIDE DEF r, f, b
                <5> QED
                    BY <1>2, <1>3, <1>4, <1>5
            <4> QED
                BY <3>2, <4>2, <4>4, <4>5, <4>6 DEF RationedAt
        <3> QED
            BY <1>2, <3>2, <3>4, <3>5
    <2> QED
        BY <2>1, <2>2
<1>10. ASSUME NEW p \in Probers, Recovered(p) PROVE RationedAt(a, k)'
    <2>1. /\ probe[p].async /\ probe'[p] = IdleProbe /\ IdleProbe.account # a
          /\ \A q \in Probers : q # p => probe'[q] = probe[q]
        BY <1>10 DEF Recovered, TypeOK, IdleProbe
    <2>2. Begun(a, k)' = Begun(a, k)
        BY <2>1 DEF Begun
    <2>3. Slow(a, k)' \subseteq Slow(a, k)
        BY <2>1 DEF Slow
    <2>4. Free(a, k)' \in Nat /\ f <= Free(a, k)'
        <3> DEFINE S == Slow(a, k)
                   T == Slow(a, k)'
        <3>1. T \subseteq S /\ IsFiniteSet(S) /\ Cardinality(S) = s
            BY <1>3, <2>3
        <3> HIDE DEF S, T
        <3>2. Cardinality(T) \in Nat /\ Cardinality(T) <= Cardinality(S)
            BY <3>1, FS_Subset, FS_CardinalityType
        <3>3. Free(a, k)' = N - Cardinality(T)
            BY DEF Free, T
        <3> HIDE DEF N, s, f
        <3> QED
            BY <1>3, <3>1, <3>2, <3>3
    <2>5. cache' = cache /\ recent' = recent
        BY <1>10 DEF Recovered
    <2>6. Covered(a, k)' <=> Covered(a, k)
        BY <2>5 DEF Covered
    <2> DEFINE g == Free(a, k)'
    <2>7. f * (f + 1) <= g * (g + 1) /\ f * (f - 1) <= g * (g - 1)
        <3> HIDE DEF f, g
        <3>1. f \in Nat /\ g \in Nat /\ f <= g
            BY <1>3, <2>4 DEF f, g
        <3> QED
            BY <3>1, Bursts
    <2>8. g * (g + 1) \in Int /\ g * (g - 1) \in Int
        <3>1. g \in Nat
            BY <2>4
        <3> HIDE DEF g
        <3> QED
            BY <3>1
    <2>9. CASE Covered(a, k)
        <3>1. 2 * r <= g * (g + 1)
            <4> HIDE DEF r, f, g
            <4> QED
                BY <1>2, <1>4, <1>5, <2>7, <2>8
        <3> QED
            BY <2>5, <2>6, <2>9, <3>1 DEF RationedAt
    <2>10. CASE ~Covered(a, k)
        <3>1. 2 * r <= f * (f - 1) + 2 * b
            BY <1>1, <2>10 DEF RationedAt
        <3>2. 2 * r <= g * (g - 1) + 2 * b
            <4> HIDE DEF r, f, g, b
            <4> QED
                BY <1>2, <1>3, <1>4, <2>7, <2>8, <3>1
        <3> QED
            BY <2>2, <2>5, <2>6, <2>10, <3>2 DEF RationedAt
    <2> QED
        BY <2>9, <2>10
<1>11. ASSUME NEW c \in Accounts, Forget(c) PROVE RationedAt(a, k)'
    <2>1. Slow(a, k)' = Slow(a, k) /\ Begun(a, k)' = Begun(a, k)
        BY <1>11 DEF Forget, Slow, Begun
    <2>2. CASE c # a
        <3>1. cache'[a] = cache[a] /\ recent'[a] = recent[a]
            BY <1>11, <2>2 DEF Forget, TypeOK
        <3> QED
            BY <1>1, <2>1, <3>1, Unmoved
    <2>3. CASE c = a
        <3>1. cache'[a] = {} /\ recent'[a][k] = 0
            BY <1>11, <2>3 DEF Forget, TypeOK
        <3>2. ~Covered(a, k)'
            BY <3>1 DEF Covered
        <3>3. Free(a, k)' = f
            BY <2>1 DEF Free
        <3>4. 2 * 0 <= f * (f - 1) + 2 * b
            <4> HIDE DEF f, b
            <4> QED
                BY <1>3, <1>4
        <3> QED
            BY <2>1, <3>1, <3>2, <3>3, <3>4 DEF RationedAt
    <2> QED
        BY <2>2, <2>3
<1>12. CASE Tick
    <2>1. CASE k = 0
        <3>1. recent'[a][k] = 0
            BY <1>12, <2>1 DEF Tick
        <3>2. /\ \A p \in Probers : probe'[p].age \in Int
              /\ k \in Int
            BY <1>2, TypeStep DEF TypeOK, Ages
        <3>3. Free(a, k)' \in Nat /\ Cardinality(Begun(a, k)') \in Nat
            <4>1. /\ Cardinality(Slow(a, k)') \in Nat
                  /\ Cardinality(Begun(a, k)') \in Nat
                  /\ Cardinality(Slow(a, k)') + Cardinality(Begun(a, k)') <= N
                <5>1. /\ Slow(a, k)' \subseteq Probers /\ Begun(a, k)' \subseteq Probers
                      /\ Slow(a, k)' \cap Begun(a, k)' = {}
                    BY <3>2 DEF Slow, Begun
                <5> QED
                    BY <5>1, Counts
            <4>2. Free(a, k)' = N - Cardinality(Slow(a, k)')
                BY DEF Free
            <4> HIDE DEF N
            <4> QED
                BY <1>3, <4>1, <4>2
        <3> DEFINE g == Free(a, k)'
                   c == Cardinality(Begun(a, k)')
        <3>4. 2 * 0 <= g * (g + 1) /\ 2 * 0 <= g * (g - 1) + 2 * c
            <4>1. g \in Nat /\ c \in Nat
                BY <3>3
            <4> HIDE DEF g, c
            <4>2. CASE g = 0
                BY <4>1, <4>2
            <4>3. CASE g # 0
                BY <4>1, <4>3
            <4> QED
                BY <4>2, <4>3
        <3> QED
            BY <3>1, <3>4 DEF RationedAt
    <2>2. CASE k # 0
        <3>1. k - 1 \in Window /\ RationedAt(a, k - 1)
            BY <1>2, <2>2 DEF Rationed, Window
        <3>2. recent'[a][k] = recent[a][k - 1]
            BY <1>12, <2>2 DEF Tick
        <3>3. \A age \in 0 .. MinInterval : Older(age) <= k <=> age <= k - 1
            BY <1>2, <2>2 DEF Older
        <3>4. ASSUME NEW p \in Probers
              PROVE  /\ probe'[p].account = a <=> probe[p].account = a
                     /\ probe[p].account = a =>
                            probe'[p].age = Older(probe[p].age) /\ probe'[p].async = probe[p].async
            <4>1. CASE Idle(p)
                BY <1>6, <1>12, <4>1 DEF Tick
            <4>2. CASE ~Idle(p)
                BY <1>12, <4>2 DEF Tick, TypeOK
            <4> QED
                BY <4>1, <4>2
        <3>5. /\ \A age \in 0 .. MinInterval : Older(age) \in Int /\ (Older(age) > k <=> age > k - 1)
            BY <1>2, <2>2 DEF Older
        <3>6. Slow(a, k)' = Slow(a, k - 1)
            BY <1>2, <3>4, <3>5 DEF Slow
        <3>7. Begun(a, k)' = Begun(a, k - 1)
            BY <1>2, <3>3, <3>4 DEF Begun
        <3>8. Covered(a, k)' <=> Covered(a, k - 1)
            <4>1. cache'[a] = {Older(age) : age \in cache[a]}
                BY <1>12 DEF Tick
            <4> QED
                BY <1>2, <3>3, <4>1 DEF Covered
        <3>9. Free(a, k)' = Free(a, k - 1)
            BY <3>6 DEF Free
        <3> QED
            BY <3>1, <3>2, <3>7, <3>8, <3>9 DEF RationedAt
    <2> QED
        BY <2>1, <2>2
<1>13. CASE UNCHANGED vars
    BY <1>1, <1>13, Unmoved DEF vars, Slow, Begun
<1> QED
    BY <1>7, <1>8, <1>9, <1>10, <1>11, <1>12, <1>13 DEF Next

\* However many pages reload however fast, an account pays for no more than
\* n(n + 1)/2 probes in an interval, n being the probes that can run at once: the
\* reading of a probe, a failed one's too, "keeps a rapid reload from spending a
\* request slot each time" (handleQuotaRoute).
THEOREM ReloadsAreBounded == Spec => []ReloadsAreRationed
<1>1. Init => Rationed
    <2> SUFFICES ASSUME Init, NEW a \in Accounts, NEW k \in Window PROVE RationedAt(a, k)
        BY DEF Rationed
    <2>1. ~Covered(a, k) /\ recent[a][k] = 0
        BY DEF Init, Covered
    <2>2. Slow(a, k) = {} /\ Begun(a, k) = {}
        BY SentinelAssumption DEF Init, Slow, Begun, IdleProbe
    <2> DEFINE N == Cardinality(Probers)
    <2>3. Cardinality({}) = 0 /\ N \in Nat
        BY FS_EmptySet, ProberAssumption, FS_CardinalityType
    <2>4. Free(a, k) = N
        <3>1. Free(a, k) = N - 0
            BY <2>2, <2>3 DEF Free
        <3> HIDE DEF N
        <3> QED
            BY <2>3, <3>1
    <2>5. 2 * 0 <= N * (N - 1) + 2 * 0
        <3> HIDE DEF N
        <3>1. CASE N = 0
            BY <3>1
        <3>2. CASE N # 0
            BY <2>3, <3>2
        <3> QED
            BY <3>1, <3>2
    <2> QED
        BY <2>1, <2>2, <2>3, <2>4, <2>5 DEF RationedAt
<1>2. TypeOK /\ Rationed /\ [Next]_vars => Rationed'
    BY RationedStep DEF Rationed
<1>3. TypeOK /\ Rationed => ReloadsAreRationed
    <2> SUFFICES ASSUME TypeOK, Rationed, NEW a \in Accounts
                 PROVE  recent[a][MinInterval - 1]
                            <= (Cardinality(Probers) * (Cardinality(Probers) + 1)) \div 2
        BY DEF ReloadsAreRationed
    <2> DEFINE k == MinInterval - 1
               n == Cardinality(Probers)
               f == Free(a, k)
               b == Cardinality(Begun(a, k))
               r == recent[a][k]
    <2>1. k \in Window /\ k \in Int
        BY IntervalAssumption DEF Window
    <2>2. RationedAt(a, k) /\ r \in Nat
        BY <2>1 DEF Rationed, TypeOK
    <2>3. n \in Nat /\ f \in Nat /\ b \in Nat /\ f <= n /\ b <= f
        <3> DEFINE s == Cardinality(Slow(a, k))
        <3>1. n \in Nat /\ s \in Nat /\ b \in Nat /\ s + b <= n
            <4>1. /\ Slow(a, k) \subseteq Probers /\ Begun(a, k) \subseteq Probers
                  /\ Slow(a, k) \cap Begun(a, k) = {}
                BY <2>1 DEF TypeOK, Ages, Slow, Begun
            <4> QED
                BY <4>1, Counts
        <3>2. f = n - s
            BY DEF Free
        <3> HIDE DEF n, s, b, f
        <3> QED
            BY <3>1, <3>2
    <2>4. 2 * r <= f * (f + 1) \/ 2 * r <= f * (f - 1) + 2 * b
        BY <2>2 DEF RationedAt
    <2> HIDE DEF k, n, f, b, r
    <2>5. /\ f * (f - 1) + 2 * f = f * (f + 1)
          /\ f * (f + 1) <= n * (n + 1)
        BY <2>3, Bursts
    <2>6. 2 * r <= n * (n + 1)
        <3>1. f * (f + 1) \in Int /\ f * (f - 1) \in Int /\ n * (n + 1) \in Int
            BY <2>3
        <3> QED
            BY <2>2, <2>3, <2>4, <2>5, <3>1
    <2>7. r <= (n * (n + 1)) \div 2
        <3> DEFINE m == n * (n + 1)
        <3>1. m \in Int /\ 2 * r <= m
            BY <2>3, <2>6
        <3> HIDE DEF m
        <3>2. r <= m \div 2
            BY <2>2, <3>1
        <3> QED
            BY <3>2 DEF m
    <2> QED
        BY <2>7 DEF k, n, r
<1> QED
    BY <1>1, <1>2, <1>3, TypeCorrect, PTL DEF Spec
=============================================================================
