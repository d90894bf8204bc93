------------------------- MODULE StreamRelayProofs -------------------------
(***************************************************************************)
(* Theorems about SSEFraming and StreamRelay, for any bytes, any cuts of   *)
(* them and any bounds.                                                    *)
(*                                                                         *)
(* The framing is a recursive function.  Its laws are proved by induction, *)
(* which is stated here as a fact about sets and drawn from the least      *)
(* element of a set of numbers; that a recursive function exists at all is *)
(* the lemma Recursion.                                                    *)
(***************************************************************************)
EXTENDS StreamRelay, SequenceTheorems, WellFoundedInduction, TLAPS

-----------------------------------------------------------------------------
(* Induction and recursion *)

\* What holds of 0, and of n + 1 when it holds of n, holds of every number; as a
\* statement about a set, which the provers can instantiate.
LEMMA NatSetInduction ==
    ASSUME NEW T, 0 \in T, \A n \in Nat : n \in T => n + 1 \in T
    PROVE  Nat \subseteq T
<1> DEFINE R == OpToRel(<, Nat)
           U == Nat \ T
<1>1. SUFFICES ASSUME U # {} PROVE FALSE
    OBVIOUS
<1>2. U \subseteq Nat
    OBVIOUS
<1>3. IsWellFoundedOn(R, Nat)
    BY NatLessThanWellFounded
<1>4. PICK x \in U : \A y \in U : ~ (<<y, x>> \in R)
    <2> HIDE DEF R, U
    <2> QED
        BY <1>1, <1>2, <1>3, WFMin
<1>5. \A y \in U : ~(y < x)
    BY <1>4 DEF OpToRel
<1>6. x # 0
    OBVIOUS
<1>7. x - 1 \in Nat /\ x - 1 < x
    BY <1>6
<1>8. x - 1 \in T
    BY <1>5, <1>7
<1>9. (x - 1) + 1 \in T
    BY <1>7, <1>8
<1> QED
    BY <1>9

\* A set of numbers that is not empty has a least one.
LEMMA LeastElement ==
    ASSUME NEW T \in SUBSET Nat, T # {}
    PROVE  Min(T) \in T /\ \A n \in T : Min(T) <= n
<1> DEFINE R == OpToRel(<, Nat)
<1>1. IsWellFoundedOn(R, Nat)
    BY NatLessThanWellFounded
<1>2. PICK x \in T : \A y \in T : ~ (<<y, x>> \in R)
    <2> HIDE DEF R
    <2> QED
        BY <1>1, WFMin
<1>3. \A y \in T : ~(y < x)
    BY <1>2 DEF OpToRel
<1>4. \E n \in T : \A y \in T : n <= y
    BY <1>3
<1> QED
    BY <1>4, Zenon DEF Min

\* What holds of every s, when it holds of all that m says are smaller.
LEMMA MeasureInduction ==
    ASSUME NEW S, NEW m \in [S -> Nat], NEW T,
           \A s \in S : (\A t \in S : m[t] < m[s] => t \in T) => s \in T
    PROVE  S \subseteq T
<1> DEFINE N == {n \in Nat : \A s \in S : m[s] < n => s \in T}
<1>1. 0 \in N
    OBVIOUS
<1>2. ASSUME NEW n \in Nat, n \in N PROVE n + 1 \in N
    <2>1. SUFFICES ASSUME NEW s \in S, m[s] < n + 1 PROVE s \in T
        OBVIOUS
    <2>2. \A t \in S : m[t] < m[s] => t \in T
        <3>1. \A t \in S : m[t] < m[s] => m[t] < n
            <4>1. m[s] \in Nat /\ \A t \in S : m[t] \in Nat
                OBVIOUS
            <4> QED
                BY <2>1, <4>1
        <3> QED
            BY <1>2, <3>1
    <2> QED
        BY <2>2
<1>3. Nat \subseteq N
    <2> HIDE DEF N
    <2> QED
        BY <1>1, <1>2, NatSetInduction
<1>4. ASSUME NEW s \in S PROVE s \in T
    <2>1. m[s] + 1 \in N /\ m[s] < m[s] + 1
        BY <1>3
    <2> QED
        BY <2>1
<1> QED
    BY <1>4

\* H is a step of a recursion on S with values in X: from s it goes on to d[s],
\* which m says is smaller, or needs no value of it.
Descends(S, X, m, d, H) ==
    /\ m \in [S -> Nat] /\ d \in [S -> S] /\ H \in [S \X X -> X] /\ X # {}
    /\ \A s \in S : \/ m[d[s]] < m[s]
                   \/ \A x, y \in X : H[<<s, x>>] = H[<<s, y>>]

\* A function that is defined by recursion along d, on which a measure m
\* decreases, exists.
LEMMA Recursion ==
    ASSUME NEW S, NEW X, NEW m, NEW d, NEW H, Descends(S, X, m, d, H)
    PROVE  \E f \in [S -> X] : \A s \in S : f[s] = H[<<s, f[d[s]]>>]
<1> USE DEF Descends
<1>0. PICK x0 \in X : TRUE
    OBVIOUS
<1> DEFINE step(f) == [s \in S |-> H[<<s, f[d[s]]>>]]
           Sol(n) == {f \in [S -> X] : \A s \in S : m[s] < n => f[s] = H[<<s, f[d[s]]>>]}
           Some == {n \in Nat : Sol(n) # {}}
           One == {n \in Nat : \A f, g \in Sol(n) : \A s \in S : m[s] < n => f[s] = g[s]}
<1>1. ASSUME NEW f \in [S -> X] PROVE step(f) \in [S -> X]
    OBVIOUS
<1>2. ASSUME NEW n \in Nat, NEW f \in [S -> X], NEW g \in [S -> X],
             \A s \in S : m[s] < n => f[s] = g[s],
             NEW s \in S, m[s] < n + 1
      PROVE  H[<<s, f[d[s]]>>] = H[<<s, g[d[s]]>>]
    <2>1. CASE m[d[s]] < m[s]
        <3>1. m[d[s]] < n /\ d[s] \in S
            <4>1. m[d[s]] \in Nat /\ m[s] \in Nat /\ d[s] \in S
                OBVIOUS
            <4> QED
                BY <1>2, <2>1, <4>1
        <3>2. f[d[s]] = g[d[s]]
            BY <1>2, <3>1
        <3> QED
            BY <3>2
    <2>2. CASE \A x, y \in X : H[<<s, x>>] = H[<<s, y>>]
        <3>1. f[d[s]] \in X /\ g[d[s]] \in X
            OBVIOUS
        <3> QED
            BY <2>2, <3>1
    <2> QED
        BY <2>1, <2>2
<1>3. Nat \subseteq Some
    <2>1. 0 \in Some
        <3>1. [s \in S |-> x0] \in Sol(0)
            OBVIOUS
        <3> HIDE DEF Sol
        <3> QED
            BY <3>1
    <2>2. ASSUME NEW n \in Nat, n \in Some PROVE n + 1 \in Some
        <3>1. PICK f \in Sol(n) : TRUE
            BY <2>2
        <3> DEFINE g == step(f)
        <3>2. f \in [S -> X] /\ g \in [S -> X] /\ \A s \in S : m[s] < n => f[s] = g[s]
            BY <1>1
        <3>3. ASSUME NEW s \in S, m[s] < n + 1 PROVE g[s] = H[<<s, g[d[s]]>>]
            <4>1. g[s] = H[<<s, f[d[s]]>>]
                OBVIOUS
            <4> HIDE DEF g
            <4> QED
                BY <1>2, <3>2, <3>3, <4>1
        <3>4. g \in Sol(n + 1)
            <4> HIDE DEF g
            <4> QED
                BY <3>2, <3>3
        <3>5. Sol(n + 1) # {} /\ n + 1 \in Nat
            <4> HIDE DEF g, Sol
            <4> QED
                BY <3>4
        <3> HIDE DEF Sol
        <3> QED
            BY <3>5
    <2> HIDE DEF Some
    <2> QED
        BY <2>1, <2>2, NatSetInduction
<1>4. Nat \subseteq One
    <2>1. 0 \in One
        OBVIOUS
    <2>2. ASSUME NEW n \in Nat, n \in One PROVE n + 1 \in One
        <3>1. SUFFICES ASSUME NEW f \in Sol(n + 1), NEW g \in Sol(n + 1), NEW s \in S,
                              m[s] < n + 1
                       PROVE  f[s] = g[s]
            OBVIOUS
        <3>2. f \in Sol(n) /\ g \in Sol(n)
            <4>1. \A t \in S : m[t] < n => m[t] < n + 1
                OBVIOUS
            <4> QED
                BY <4>1
        <3>3. \A t \in S : m[t] < n => f[t] = g[t]
            BY <2>2, <3>2
        <3>4. f \in [S -> X] /\ g \in [S -> X]
            OBVIOUS
        <3>5. f[s] = H[<<s, f[d[s]]>>] /\ g[s] = H[<<s, g[d[s]]>>]
            BY <3>1
        <3> QED
            BY <1>2, <3>1, <3>3, <3>4, <3>5
    <2> HIDE DEF One
    <2> QED
        BY <2>1, <2>2, NatSetInduction
<1> DEFINE sol(n) == CHOOSE f : f \in Sol(n)
           F == [s \in S |-> sol(m[s] + 1)[s]]
<1>5. \A n \in Nat : sol(n) \in Sol(n)
    <2> HIDE DEF Sol
    <2> QED
        BY <1>3
<1>6. F \in [S -> X]
    <2>1. ASSUME NEW s \in S PROVE sol(m[s] + 1)[s] \in X
        <3> DEFINE n == m[s] + 1
        <3>1. sol(n) \in Sol(n)
            <4>1. n \in Nat
                OBVIOUS
            <4> HIDE DEF Sol, sol, n
            <4> QED
                BY <1>5, <4>1
        <3> HIDE DEF sol, n
        <3>2. sol(n) \in [S -> X]
            BY <3>1
        <3> QED
            BY <3>2 DEF n
    <2> HIDE DEF sol
    <2> QED
        BY <2>1
<1>7. ASSUME NEW s \in S PROVE F[s] = H[<<s, F[d[s]]>>]
    <2> DEFINE f == sol(m[s] + 1)
               g == sol(m[d[s]] + 1)
    <2>1. f \in Sol(m[s] + 1) /\ g \in Sol(m[d[s]] + 1) /\ F[s] = f[s] /\ F[d[s]] = g[d[s]]
        <3>1. d[s] \in S /\ m[s] + 1 \in Nat /\ m[d[s]] + 1 \in Nat
            OBVIOUS
        <3> HIDE DEF Sol, sol
        <3> QED
            BY <1>5, <3>1
    <2> HIDE DEF f, g, F, sol
    <2>2. f[s] = H[<<s, f[d[s]]>>] /\ f[d[s]] \in X /\ g[d[s]] \in X
        BY <2>1
    <2>3. CASE m[d[s]] < m[s]
        <3>1. m[d[s]] < m[s] /\ m[d[s]] \in Nat /\ m[s] \in Nat /\ d[s] \in S
            BY <2>3
        <3>2. f \in Sol(m[d[s]] + 1)
            <4>1. \A t \in S : m[t] < m[d[s]] + 1 => m[t] < m[s] + 1
                BY <3>1
            <4> QED
                BY <2>1, <4>1
        <3>3. m[d[s]] + 1 \in One
            BY <1>4, <3>1
        <3>4. f[d[s]] = g[d[s]]
            BY <2>1, <3>1, <3>2, <3>3
        <3> QED
            BY <2>1, <2>2, <3>4
    <2>4. CASE \A x, y \in X : H[<<s, x>>] = H[<<s, y>>]
        BY <2>1, <2>2, <2>4
    <2> QED
        BY <2>3, <2>4
<1> QED
    BY <1>6, <1>7

-----------------------------------------------------------------------------
(* Sequences *)

\* A sequence that is not empty is its front and its last element.
LEMMA FrontLast ==
    ASSUME NEW S, NEW s \in Seq(S), s # <<>>
    PROVE  /\ Front(s) \in Seq(S) /\ Len(Front(s)) = Len(s) - 1
           /\ \A i \in 1 .. Len(s) - 1 : Front(s)[i] = s[i]
           /\ Last(s) \in S
           /\ s = Append(Front(s), Last(s))
<1>1. Len(s) \in Nat \ {0} /\ \A i \in 1 .. Len(s) : s[i] \in S
    BY EmptySeq
<1>2. /\ Front(s) \in Seq(S) /\ Len(Front(s)) = Len(s) - 1
      /\ \A i \in 1 .. Len(s) - 1 : Front(s)[i] = s[i]
    <2> DEFINE n == Len(s) - 1
               t == SubSeq(s, 1, n)
    <2>1. n \in Nat /\ \A i \in 1 .. n : s[i] \in S
        BY <1>1
    <2> HIDE DEF n
    <2>2. /\ t \in Seq(S)
          /\ Len(t) = IF 1 <= n THEN n - 1 + 1 ELSE 0
          /\ \A i \in 1 .. n - 1 + 1 : t[i] = s[1 + i - 1]
        BY <2>1, SubSeqProperties
    <2> HIDE DEF t
    <2>3. Len(t) = n
        <3>1. CASE n = 0
            BY <2>2, <3>1
        <3>2. CASE n # 0
            BY <2>1, <2>2, <3>2
        <3> QED
            BY <3>1, <3>2
    <2>4. ASSUME NEW i \in 1 .. n PROVE t[i] = s[i]
        <3>1. i \in 1 .. n - 1 + 1 /\ 1 + i - 1 = i
            BY <2>1
        <3> QED
            BY <2>2, <3>1
    <2>5. Front(s) = t
        BY DEF Front, t, n
    <2> QED
        BY <2>2, <2>3, <2>4, <2>5 DEF n
<1>3. Last(s) \in S
    BY <1>1 DEF Last
<1>4. s = Append(Front(s), Last(s))
    <2> DEFINE t == Append(Front(s), Last(s))
    <2>1. /\ t \in Seq(S) /\ Len(t) = Len(s)
          /\ \A i \in 1 .. Len(s) - 1 : t[i] = Front(s)[i]
          /\ t[Len(s)] = Last(s)
        BY <1>1, <1>2, <1>3, AppendProperties
    <2>2. \A i \in 1 .. Len(s) : t[i] = s[i]
        BY <1>1, <1>2, <2>1 DEF Last
    <2> HIDE DEF t
    <2>3. t = s
        BY <2>1, <2>2, SeqEqual
    <2> QED
        BY <2>3 DEF t
<1> QED
    BY <1>2, <1>3, <1>4

\* Front and Last undo Append.
LEMMA FrontLastOfAppend ==
    ASSUME NEW S, NEW s \in Seq(S), NEW e \in S
    PROVE  Front(Append(s, e)) = s /\ Last(Append(s, e)) = e
<1> DEFINE t == Append(s, e)
<1>1. /\ t \in Seq(S) /\ t # <<>> /\ Len(t) = Len(s) + 1 /\ Len(s) \in Nat
      /\ \A i \in 1 .. Len(s) : t[i] = s[i]
      /\ t[Len(s) + 1] = e
    BY AppendProperties, LenProperties
<1> HIDE DEF t
<1>2. /\ Front(t) \in Seq(S) /\ Len(Front(t)) = Len(s)
      /\ \A i \in 1 .. Len(s) : Front(t)[i] = s[i]
    BY <1>1, FrontLast
<1>3. Front(t) = s
    BY <1>2, SeqEqual
<1>4. Last(t) = e
    BY <1>1 DEF Last
<1> QED
    BY <1>3, <1>4 DEF t

-----------------------------------------------------------------------------
(* The recursive functions of SSEFraming *)

\* The front of a sequence is one, the empty one's too.
LEMMA FrontType ==
    ASSUME NEW S, NEW s \in Seq(S)
    PROVE  Front(s) \in Seq(S)
<1>1. CASE s = <<>>
    <2>1. Front(s) = <<>>
        <3>1. Len(<<>>) - 1 \in Int /\ Len(<<>>) - 1 < 1
            BY EmptySeq
        <3> QED
            BY <1>1, <3>1, SubSeqEmpty DEF Front
    <2> QED
        BY <2>1, EmptySeq
<1>2. CASE s # <<>>
    BY <1>2, FrontLast
<1> QED
    BY <1>1, <1>2

\* f stays in X along d, down to where it is in X already.
Stays(S, X, m, d, f) ==
    /\ m \in [S -> Nat] /\ d \in [S -> S]
    /\ \A s \in S : m[d[s]] < m[s] \/ f[s] \in X
    /\ \A s \in S : f[d[s]] \in X => f[s] \in X

\* A function that stays in X along d has all its values in X.
LEMMA RecursionType ==
    ASSUME NEW S, NEW X, NEW m, NEW d, NEW f, Stays(S, X, m, d, f)
    PROVE  \A s \in S : f[s] \in X
<1> DEFINE T == {s \in S : f[s] \in X}
<1> USE DEF Stays
<1>1. ASSUME NEW s \in S, \A t \in S : m[t] < m[s] => t \in T PROVE s \in T
    BY <1>1
<1>2. S \subseteq T
    <2> HIDE DEF T
    <2> QED
        BY <1>1, MeasureInduction
<1> QED
    BY <1>2

\* WithLF is what its definition says, and gives bytes.
LEMMA WithLFDef ==
    /\ WithLF \in [Seq(Byte) -> Seq(Byte)]
    /\ \A s \in Seq(Byte) :
            WithLF[s] = IF s = <<>> THEN <<>>
                        ELSE IF Last(s) = LF /\ Len(s) > 1 /\ Last(Front(s)) = CR
                        THEN Append(Front(WithLF[Front(s)]), LF)
                        ELSE Append(WithLF[Front(s)], Last(s))
<1> DEFINE S == Seq(Byte)
           h(s, r) == IF s = <<>> THEN <<>>
                      ELSE IF Last(s) = LF /\ Len(s) > 1 /\ Last(Front(s)) = CR
                      THEN Append(Front(r), LF) ELSE Append(r, Last(s))
           m == [s \in S |-> Len(s)]
           d == [s \in S |-> Front(s)]
           H == [p \in S \X S |-> h(p[1], p[2])]
<1>1. m \in [S -> Nat] /\ d \in [S -> S] /\ <<>> \in S
    BY FrontType, LenProperties, EmptySeq
<1>2. ASSUME NEW s \in S, NEW r \in S PROVE h(s, r) \in S
    <2>1. CASE s = <<>>
        BY <2>1, EmptySeq
    <2>2. CASE s # <<>>
        <3>1. LF \in Byte
            BY DEF Byte
        <3>2. Front(r) \in S /\ Last(s) \in Byte
            BY <2>2, FrontType, FrontLast
        <3>3. Append(Front(r), LF) \in S /\ Append(r, Last(s)) \in S
            BY <3>1, <3>2, AppendProperties
        <3> QED
            BY <2>2, <3>3
    <2> QED
        BY <2>1, <2>2
<1>3. H \in [S \X S -> S]
    <2> HIDE DEF h, S
    <2> QED
        BY <1>2
<1>4. ASSUME NEW s \in S, s # <<>> PROVE m[d[s]] < m[s]
    <2>1. Front(s) \in S /\ Len(Front(s)) = Len(s) - 1 /\ Len(s) \in Nat
        BY <1>4, FrontLast, LenProperties
    <2>2. m[d[s]] = Len(Front(s)) /\ m[s] = Len(s)
        BY <2>1
    <2> QED
        BY <2>1, <2>2
<1>5. \E f \in [S -> S] : \A s \in S : f[s] = H[<<s, f[d[s]]>>]
    <2>1. ASSUME NEW s \in S
          PROVE  \/ m[d[s]] < m[s]
                 \/ \A x, y \in S : H[<<s, x>>] = H[<<s, y>>]
        <3>1. CASE s = <<>>
            BY <3>1
        <3>2. CASE s # <<>>
            BY <1>4, <3>2
        <3> QED
            BY <3>1, <3>2
    <2> HIDE DEF S, m, d, H
    <2>2. Descends(S, S, m, d, H)
        BY <1>1, <1>3, <2>1 DEF Descends
    <2> QED
        BY <2>2, Recursion
<1>6. \E f : f = [s \in Seq(Byte) |-> h(s, f[Front(s)])]
    <2>1. PICK f \in [S -> S] : \A s \in S : f[s] = H[<<s, f[d[s]]>>]
        BY <1>5
    <2>2. ASSUME NEW s \in S PROVE f[s] = h(s, f[Front(s)])
        <3>1. d[s] = Front(s) /\ f[Front(s)] \in S
            BY FrontType
        <3> HIDE DEF h
        <3> QED
            BY <2>1, <3>1
    <2> HIDE DEF h
    <2>3. f = [s \in S |-> h(s, f[Front(s)])]
        BY <2>2
    <2> QED
        BY <2>3
<1>7. WithLF = [s \in Seq(Byte) |-> h(s, WithLF[Front(s)])]
    BY <1>6, Zenon DEF WithLF
<1>8. \A s \in S : WithLF[s] \in S
    <2> DEFINE f == WithLF
    <2>1. ASSUME NEW s \in S PROVE f[s] = h(s, f[Front(s)]) /\ d[s] = Front(s)
        BY <1>7
    <2>2. ASSUME NEW s \in S PROVE m[d[s]] < m[s] \/ f[s] \in S
        <3>1. CASE s = <<>>
            BY <1>1, <2>1, <3>1
        <3>2. CASE s # <<>>
            BY <1>4, <3>2
        <3> QED
            BY <3>1, <3>2
    <2>3. ASSUME NEW s \in S, f[d[s]] \in S PROVE f[s] \in S
        <3> HIDE DEF h, f, d
        <3> QED
            BY <1>2, <2>1, <2>3
    <2> HIDE DEF S, m, d, f
    <2>4. Stays(S, S, m, d, f)
        BY <1>1, <2>2, <2>3 DEF Stays
    <2>5. \A s \in S : f[s] \in S
        BY <2>4, RecursionType
    <2> QED
        BY <2>5 DEF f
<1>9. WithLF \in [S -> S]
    <2> HIDE DEF h
    <2> QED
        BY <1>7, <1>8
<1> QED
    BY <1>7, <1>9

\* The elements of a sequence, from its end.
LEMMA ReverseProperties ==
    ASSUME NEW S, NEW s \in Seq(S)
    PROVE  /\ Reverse(s) \in Seq(S) /\ Len(Reverse(s)) = Len(s)
           /\ \A i \in 1 .. Len(s) : Reverse(s)[i] = s[Len(s) - i + 1]
<1> DEFINE n == Len(s)
           r == Reverse(s)
<1>1. n \in Nat /\ \A i \in 1 .. n : s[i] \in S
    BY LenProperties
<1>2. \A i \in 1 .. n : n - i + 1 \in 1 .. n
    BY <1>1
<1>3. r = [i \in 1 .. n |-> s[n - i + 1]]
    BY DEF Reverse
<1> HIDE DEF n, r
<1>4. r \in [1 .. n -> S]
    BY <1>1, <1>2, <1>3
<1>5. r \in Seq(S) /\ DOMAIN r = 1 .. n
    BY <1>1, <1>4, SeqDef
<1>6. Len(r) = n
    <2>1. Len(r) \in Nat /\ DOMAIN r = 1 .. Len(r)
        BY <1>5, LenProperties
    <2> QED
        BY <1>1, <1>5, <2>1
<1> QED
    BY <1>3, <1>5, <1>6 DEF n, r

\* A suffix, from its end.
SameEnd(u, s) ==
    /\ Len(u) <= Len(s)
    /\ \A i \in 1 .. Len(u) : u[Len(u) - i + 1] = s[Len(s) - i + 1]

\* IsSuffix of the community modules compares the last elements.
LEMMA SuffixByElement ==
    ASSUME NEW S, NEW u \in Seq(S), NEW s \in Seq(S)
    PROVE  IsSuffix(u, s) <=> SameEnd(u, s)
<1> DEFINE a == Reverse(u)
           b == Reverse(s)
           k == Len(u)
           n == Len(s)
<1>1. /\ a \in Seq(S) /\ Len(a) = k /\ b \in Seq(S) /\ Len(b) = n
      /\ \A i \in 1 .. k : a[i] = u[k - i + 1]
      /\ \A i \in 1 .. n : b[i] = s[n - i + 1]
      /\ k \in Nat /\ n \in Nat
    BY ReverseProperties, LenProperties
<1>2. IsSuffix(u, s) <=> k <= n /\ SubSeq(a, 1, k) = SubSeq(b, 1, k)
    BY <1>1 DEF IsSuffix, IsPrefix
<1>3. SubSeq(a, 1, k) = a
    BY <1>1, SubSeqFull
<1> HIDE DEF a, b, k, n
<1>4. ASSUME k <= n
      PROVE  SubSeq(b, 1, k) = a <=> \A i \in 1 .. k : a[i] = b[i]
    <2> DEFINE c == SubSeq(b, 1, k)
    <2>1. \A i \in 1 .. k : b[i] \in S
        <3>1. \A i \in 1 .. Len(b) : b[i] \in S
            BY <1>1, ElementOfSeq
        <3> QED
            BY <1>1, <1>4, <3>1
    <2>2. /\ c \in Seq(S)
          /\ Len(c) = IF 1 <= k THEN k - 1 + 1 ELSE 0
          /\ \A i \in 1 .. k - 1 + 1 : c[i] = b[1 + i - 1]
        BY <1>1, <2>1, SubSeqProperties
    <2> HIDE DEF c
    <2>3. Len(c) = k
        <3>1. CASE k = 0
            BY <2>2, <3>1
        <3>2. CASE k # 0
            BY <1>1, <2>2, <3>2
        <3> QED
            BY <3>1, <3>2
    <2>4. ASSUME NEW i \in 1 .. k PROVE c[i] = b[i]
        <3>1. i \in 1 .. k - 1 + 1 /\ 1 + i - 1 = i
            BY <1>1
        <3> QED
            BY <2>2, <3>1
    <2>5. CASE \A i \in 1 .. k : a[i] = b[i]
        <3>1. c = a
            BY <1>1, <2>2, <2>3, <2>4, <2>5, SeqEqual
        <3> QED
            BY <2>5, <3>1 DEF c
    <2>6. CASE ~\A i \in 1 .. k : a[i] = b[i]
        BY <2>4, <2>6 DEF c
    <2> QED
        BY <2>5, <2>6
<1>5. ASSUME k <= n
      PROVE  (\A i \in 1 .. k : a[i] = b[i]) <=> \A i \in 1 .. k : u[k - i + 1] = s[n - i + 1]
    <2>1. \A i \in 1 .. k : a[i] = u[k - i + 1] /\ b[i] = s[n - i + 1]
        <3>1. \A i \in 1 .. k : i \in 1 .. n
            BY <1>1, <1>5
        <3> QED
            BY <1>1, <3>1
    <2> QED
        BY <2>1
<1> QED
    BY <1>2, <1>3, <1>4, <1>5 DEF SameEnd, k, n

\* A suffix of one element.
LEMMA OneSuffix ==
    ASSUME NEW S, NEW s \in Seq(S), NEW u \in Seq(S), Len(u) = 1
    PROVE  IsSuffix(u, s) <=> Len(s) >= 1 /\ s[Len(s)] = u[1]
<1>1. IsSuffix(u, s) <=> SameEnd(u, s)
    BY SuffixByElement
<1>2. Len(s) \in Nat
    BY LenProperties
<1>3. \A i \in 1 .. Len(u) : i = 1 /\ Len(u) - i + 1 = 1 /\ Len(s) - i + 1 = Len(s)
    BY <1>2
<1>4. 1 \in 1 .. Len(u)
    OBVIOUS
<1>5. ASSUME IsSuffix(u, s) PROVE Len(s) >= 1 /\ s[Len(s)] = u[1]
    <2>1. Len(u) <= Len(s) /\ \A i \in 1 .. Len(u) : u[Len(u) - i + 1] = s[Len(s) - i + 1]
        BY <1>1, <1>5 DEF SameEnd
    <2> QED
        BY <1>2, <1>3, <1>4, <2>1
<1>6. ASSUME Len(s) >= 1 /\ s[Len(s)] = u[1] PROVE IsSuffix(u, s)
    <2>1. ASSUME NEW i \in 1 .. Len(u) PROVE u[Len(u) - i + 1] = s[Len(s) - i + 1]
        BY <1>3, <1>6
    <2> QED
        BY <1>1, <1>2, <1>6, <2>1 DEF SameEnd
<1> QED
    BY <1>5, <1>6

\* A suffix of two elements.
LEMMA TwoSuffix ==
    ASSUME NEW S, NEW s \in Seq(S), NEW u \in Seq(S), Len(u) = 2
    PROVE  IsSuffix(u, s) <=> Len(s) >= 2 /\ s[Len(s)] = u[2] /\ s[Len(s) - 1] = u[1]
<1>1. IsSuffix(u, s) <=> SameEnd(u, s)
    BY SuffixByElement
<1>2. Len(s) \in Nat
    BY LenProperties
<1>3. \A i \in 1 .. Len(u) : \/ i = 1 /\ Len(u) - i + 1 = 2 /\ Len(s) - i + 1 = Len(s)
                             \/ i = 2 /\ Len(u) - i + 1 = 1 /\ Len(s) - i + 1 = Len(s) - 1
    BY <1>2
<1>4. 1 \in 1 .. Len(u) /\ 2 \in 1 .. Len(u)
    OBVIOUS
<1>5. ASSUME IsSuffix(u, s) PROVE Len(s) >= 2 /\ s[Len(s)] = u[2] /\ s[Len(s) - 1] = u[1]
    <2>1. Len(u) <= Len(s) /\ \A i \in 1 .. Len(u) : u[Len(u) - i + 1] = s[Len(s) - i + 1]
        BY <1>1, <1>5 DEF SameEnd
    <2> QED
        BY <1>2, <1>3, <1>4, <2>1
<1>6. ASSUME Len(s) >= 2 /\ s[Len(s)] = u[2] /\ s[Len(s) - 1] = u[1] PROVE IsSuffix(u, s)
    <2>1. ASSUME NEW i \in 1 .. Len(u) PROVE u[Len(u) - i + 1] = s[Len(s) - i + 1]
        BY <1>3, <1>6
    <2> QED
        BY <1>1, <1>2, <1>6, <2>1 DEF SameEnd
<1> QED
    BY <1>5, <1>6

\* What normalizeSSEEvent asks of an event.
LEMMA NewlineSuffix ==
    ASSUME NEW s \in Seq(Byte)
    PROVE  /\ IsSuffix(<<LF>>, s) <=> s # <<>> /\ Last(s) = LF
           /\ IsSuffix(<<LF, LF>>, s) <=> Len(s) > 1 /\ s[Len(s)] = LF /\ s[Len(s) - 1] = LF
<1> DEFINE one == <<LF>>
           two == <<LF, LF>>
<1>1. Len(s) \in Nat /\ (s # <<>> <=> Len(s) > 0)
    BY LenProperties, EmptySeq
<1>2. one \in Seq(Byte) /\ Len(one) = 1 /\ one[1] = LF
    BY DEF Byte
<1>3. two \in Seq(Byte) /\ Len(two) = 2 /\ two[1] = LF /\ two[2] = LF
    BY DEF Byte
<1> HIDE DEF one, two
<1>4. IsSuffix(one, s) <=> Len(s) >= 1 /\ s[Len(s)] = LF
    BY <1>2, OneSuffix
<1>5. IsSuffix(two, s) <=> Len(s) >= 2 /\ s[Len(s)] = LF /\ s[Len(s) - 1] = LF
    BY <1>3, TwoSuffix
<1>6. IsSuffix(one, s) <=> s # <<>> /\ Last(s) = LF
    BY <1>1, <1>4 DEF Last
<1> QED
    BY <1>1, <1>5, <1>6 DEF one, two

\* What holds of the empty sequence, and of one more element when it holds.
LEMMA SeqInduction ==
    ASSUME NEW S, NEW T, <<>> \in T,
           \A s \in Seq(S) : s \in T => \A x \in S : Append(s, x) \in T
    PROVE  Seq(S) \subseteq T
<1> DEFINE Q == Seq(S)
           m == [s \in Q |-> Len(s)]
<1>1. m \in [Q -> Nat]
    BY LenProperties
<1>2. ASSUME NEW s \in Q, \A t \in Q : m[t] < m[s] => t \in T PROVE s \in T
    <2>1. CASE s # <<>>
        <3>1. /\ Front(s) \in Q /\ Len(Front(s)) = Len(s) - 1 /\ Last(s) \in S
              /\ s = Append(Front(s), Last(s)) /\ Len(s) \in Nat
            BY <2>1, FrontLast, LenProperties
        <3>2. m[Front(s)] < m[s]
            BY <3>1
        <3> QED
            BY <1>2, <3>1, <3>2
    <2> QED
        BY <2>1
<1> HIDE DEF Q, m
<1>3. Q \subseteq T
    BY <1>1, <1>2, MeasureInduction
<1> QED
    BY <1>3 DEF Q

\* The three kinds of byte are different.
LEMMA Bytes == CR \in Byte /\ LF \in Byte /\ Text \in Byte /\ CR # LF /\ CR # Text /\ LF # Text
BY DEF Byte, CR, LF, Text

\* WithLF gives bytes.
LEMMA WithLFType == \A s \in Seq(Byte) : WithLF[s] \in Seq(Byte)
BY WithLFDef

\* WithLF, byte by byte.
LEMMA WithLFAppend ==
    ASSUME NEW s \in Seq(Byte), NEW x \in Byte
    PROVE  WithLF[Append(s, x)] = IF x = LF /\ s # <<>> /\ Last(s) = CR
                                  THEN Append(Front(WithLF[s]), LF)
                                  ELSE Append(WithLF[s], x)
<1> DEFINE t == Append(s, x)
<1>1. /\ t \in Seq(Byte) /\ t # <<>> /\ Len(t) = Len(s) + 1 /\ Front(t) = s /\ Last(t) = x
      /\ Len(s) \in Nat /\ (s # <<>> <=> Len(s) > 0)
    BY AppendProperties, FrontLastOfAppend, LenProperties, EmptySeq
<1> HIDE DEF t
<1>2. WithLF[t] = IF Last(t) = LF /\ Len(t) > 1 /\ Last(Front(t)) = CR
                  THEN Append(Front(WithLF[Front(t)]), LF)
                  ELSE Append(WithLF[Front(t)], Last(t))
    BY <1>1, WithLFDef
<1> QED
    BY <1>1, <1>2 DEF t

\* The next byte x completes an event.
Closes(s, x) ==
    /\ x = LF
    /\ s # <<>>
    /\ Last(s) = LF \/ (Len(s) > 1 /\ Last(s) = CR /\ s[Len(s) - 1] = LF)

\* One more byte adds at most one end of an event.
LEMMA EndsAppend ==
    ASSUME NEW s \in Seq(Byte), NEW x \in Byte
    PROVE  /\ Ends(s) \subseteq 2 .. Len(s)
           /\ Closes(s, x) => Ends(Append(s, x)) = Ends(s) \cup {Len(s) + 1}
           /\ ~Closes(s, x) => Ends(Append(s, x)) = Ends(s)
<1> DEFINE t == Append(s, x)
           n == Len(s)
<1>1. /\ t \in Seq(Byte) /\ Len(t) = n + 1 /\ n \in Nat /\ (s # <<>> <=> n > 0)
      /\ \A i \in 1 .. n : t[i] = s[i]
      /\ t[n + 1] = x
    BY AppendProperties, LenProperties, EmptySeq
<1>2. Closes(s, x) <=> x = LF /\ n > 0 /\ (s[n] = LF \/ (n > 1 /\ s[n] = CR /\ s[n - 1] = LF))
    BY <1>1 DEF Closes, Last
<1> HIDE DEF t, n
<1> DEFINE ends(u, i) == u[i] = LF /\ (u[i - 1] = LF \/ (i > 2 /\ u[i - 1] = CR /\ u[i - 2] = LF))
<1>3. Ends(s) = {i \in 2 .. n : ends(s, i)} /\ Ends(t) = {i \in 2 .. n + 1 : ends(t, i)}
    BY <1>1 DEF Ends, n
<1>4. ASSUME NEW i \in 2 .. n PROVE ends(t, i) <=> ends(s, i)
    <2>1. t[i] = s[i] /\ t[i - 1] = s[i - 1] /\ (i > 2 => t[i - 2] = s[i - 2])
        <3>1. i \in 1 .. n /\ i - 1 \in 1 .. n /\ (i > 2 => i - 2 \in 1 .. n)
            BY <1>1
        <3> QED
            BY <1>1, <3>1
    <2> QED
        BY <2>1
<1>5. ASSUME n + 1 \in 2 .. n + 1 PROVE ends(t, n + 1) <=> Closes(s, x)
    <2>1. n > 0
        BY <1>1, <1>5
    <2>2. t[n + 1] = x /\ t[n] = s[n] /\ (n > 1 => t[n - 1] = s[n - 1])
        <3>1. n \in 1 .. n /\ (n > 1 => n - 1 \in 1 .. n)
            BY <1>1, <2>1
        <3> QED
            BY <1>1, <3>1
    <2>3. (n + 1) - 1 = n /\ (n + 1) - 2 = n - 1 /\ (n + 1 > 2 <=> n > 1)
        BY <1>1
    <2> QED
        BY <1>2, <2>1, <2>2, <2>3
<1> HIDE DEF ends
<1>6. Closes(s, x) => n + 1 \in 2 .. n + 1
    BY <1>1, <1>2
<1>7. \A i \in 2 .. n + 1 : i \in 2 .. n \/ i = n + 1
    BY <1>1
<1>8. \A i \in 2 .. n : i \in 2 .. n + 1 /\ i # n + 1
    BY <1>1
<1>9. Closes(s, x) => Ends(t) = Ends(s) \cup {n + 1}
    BY <1>3, <1>4, <1>5, <1>6, <1>7, <1>8
<1>10. ~Closes(s, x) => Ends(t) = Ends(s)
    BY <1>3, <1>4, <1>5, <1>6, <1>7, <1>8
<1>11. Ends(s) \subseteq 2 .. n
    BY <1>3
<1> QED
    BY <1>9, <1>10, <1>11 DEF t, n

\* indexAfterBlankLine is the first end of an event, if there is one.
LEMMA IndexAfter ==
    ASSUME NEW s \in Seq(Byte)
    PROVE  /\ indexAfterBlankLine(s) = 0 <=> Ends(s) = {}
           /\ Ends(s) # {} => /\ indexAfterBlankLine(s) \in Ends(s)
                              /\ indexAfterBlankLine(s) \in 2 .. Len(s)
                              /\ \A i \in Ends(s) : indexAfterBlankLine(s) <= i
<1>1. Ends(s) \in SUBSET Nat /\ Ends(s) \subseteq 2 .. Len(s) /\ Len(s) \in Nat
    BY LenProperties DEF Ends
<1>2. Ends(s) # {} => Min(Ends(s)) \in Ends(s) /\ \A i \in Ends(s) : Min(Ends(s)) <= i
    BY <1>1, LeastElement
<1> QED
    BY <1>1, <1>2 DEF indexAfterBlankLine

\* One more byte matters to indexAfterBlankLine only if there was no end before.
LEMMA IndexAfterAppend ==
    ASSUME NEW s \in Seq(Byte), NEW x \in Byte
    PROVE  indexAfterBlankLine(Append(s, x)) =
                IF Ends(s) # {} THEN indexAfterBlankLine(s)
                ELSE IF Closes(s, x) THEN Len(s) + 1 ELSE 0
<1> DEFINE t == Append(s, x)
           i == indexAfterBlankLine(s)
           j == indexAfterBlankLine(t)
<1>1. t \in Seq(Byte) /\ Len(s) \in Nat
    BY AppendProperties, LenProperties
<1>2. /\ Closes(s, x) => Ends(t) = Ends(s) \cup {Len(s) + 1}
      /\ ~Closes(s, x) => Ends(t) = Ends(s)
      /\ Ends(s) \subseteq 2 .. Len(s)
    BY EndsAppend
<1> HIDE DEF t, i, j
<1>3. /\ j = 0 <=> Ends(t) = {}
      /\ Ends(t) # {} => j \in Ends(t) /\ \A k \in Ends(t) : j <= k
    BY <1>1, IndexAfter DEF j
<1>4. CASE Ends(s) # {}
    <2>1. i \in Ends(s) /\ i \in 2 .. Len(s) /\ \A k \in Ends(s) : i <= k
        BY <1>4, IndexAfter DEF i
    <2>2. j \in Ends(t) /\ j <= i /\ (j \in Ends(s) \/ j = Len(s) + 1)
        BY <1>2, <1>3, <2>1
    <2>3. j \in Int /\ j = i
        BY <1>1, <1>2, <2>1, <2>2
    <2> QED
        BY <1>4, <2>3 DEF i, j, t
<1>5. CASE Ends(s) = {} /\ Closes(s, x)
    <2>1. j = Len(s) + 1
        BY <1>2, <1>3, <1>5
    <2> QED
        BY <1>5, <2>1 DEF j, t
<1>6. CASE Ends(s) = {} /\ ~Closes(s, x)
    <2>1. j = 0
        BY <1>2, <1>3, <1>6
    <2> QED
        BY <1>6, <2>1 DEF j, t
<1> QED
    BY <1>4, <1>5, <1>6

\* What normalizeSSEEvent makes of the lines of an event.
Completed(s) ==
    IF s = <<>> \/ Last(s) # LF THEN s \o <<LF, LF>>
    ELSE IF Len(s) > 1 /\ s[Len(s) - 1] = LF THEN s
    ELSE Append(s, LF)

\* normalizeSSEEvent, without its suffixes.
LEMMA NormalizedValue ==
    ASSUME NEW e \in Seq(Byte)
    PROVE  normalizeSSEEvent(e) = Completed(WithLF[e])
<1> DEFINE s == WithLF[e]
           one == IsSuffix(<<LF>>, s)
           two == IsSuffix(<<LF, LF>>, s)
<1>1. s \in Seq(Byte)
    BY WithLFType
<1>2. normalizeSSEEvent(e) = CASE two -> s [] one /\ ~two -> Append(s, LF) [] OTHER -> s \o <<LF, LF>>
    BY DEF normalizeSSEEvent
<1> HIDE DEF s
<1>3. /\ one <=> s # <<>> /\ Last(s) = LF
      /\ two <=> Len(s) > 1 /\ s[Len(s)] = LF /\ s[Len(s) - 1] = LF
    BY <1>1, NewlineSuffix
<1>4. Len(s) \in Nat /\ (s # <<>> <=> Len(s) > 0)
    BY <1>1, LenProperties, EmptySeq
<1>5. two <=> s # <<>> /\ Last(s) = LF /\ Len(s) > 1 /\ s[Len(s) - 1] = LF
    BY <1>3, <1>4 DEF Last
<1> HIDE DEF one, two
<1>6. /\ two => normalizeSSEEvent(e) = s
      /\ one /\ ~two => normalizeSSEEvent(e) = Append(s, LF)
      /\ ~one /\ ~two => normalizeSSEEvent(e) = s \o <<LF, LF>>
    BY <1>2
<1>7. normalizeSSEEvent(e) = Completed(s)
    BY <1>3, <1>5, <1>6 DEF Completed
<1> QED
    BY <1>7 DEF s

\* A normalised event is a sequence of bytes.
LEMMA NormalizedType == \A e \in Seq(Byte) : normalizeSSEEvent(e) \in Seq(Byte)
<1> SUFFICES ASSUME NEW e \in Seq(Byte) PROVE normalizeSSEEvent(e) \in Seq(Byte)
    OBVIOUS
<1> DEFINE s == WithLF[e]
           two == <<LF, LF>>
<1>1. s \in Seq(Byte) /\ normalizeSSEEvent(e) = Completed(s)
    BY WithLFType, NormalizedValue
<1>2. two \in Seq(Byte)
    BY Bytes
<1> HIDE DEF s, two
<1>3. s \o two \in Seq(Byte) /\ Append(s, LF) \in Seq(Byte)
    BY <1>1, <1>2, Bytes, ConcatProperties, AppendProperties
<1> QED
    BY <1>1, <1>3 DEF Completed, two

-----------------------------------------------------------------------------
(* takeSSEEvents *)

\* What takeSSEEvents returns.
Framed == [events : Seq(Seq(Byte)), tail : Seq(Byte)]

\* What takeSSEEvents leaves at each turn of its loop.
Leftover(s) == SubSeq(s, indexAfterBlankLine(s) + 1, Len(s))

\* The loop of takeSSEEvents goes on with less.
LEMMA LeftoverType ==
    ASSUME NEW s \in Seq(Byte)
    PROVE  /\ Leftover(s) \in Seq(Byte)
           /\ SubSeq(s, 1, indexAfterBlankLine(s)) \in Seq(Byte)
           /\ indexAfterBlankLine(s) # 0 => Len(Leftover(s)) < Len(s)
<1> DEFINE i == indexAfterBlankLine(s)
           n == Len(s)
<1>1. n \in Nat /\ i \in 0 .. n /\ \A k \in 1 .. n : s[k] \in Byte
    <2>1. CASE Ends(s) = {}
        BY <2>1, IndexAfter, LenProperties, ElementOfSeq
    <2>2. CASE Ends(s) # {}
        BY <2>2, IndexAfter, LenProperties, ElementOfSeq
    <2> QED
        BY <2>1, <2>2
<1> HIDE DEF i, n
<1>2. SubSeq(s, 1, i) \in Seq(Byte)
    BY <1>1, SubSeqProperties
<1>3. /\ SubSeq(s, i + 1, n) \in Seq(Byte)
      /\ Len(SubSeq(s, i + 1, n)) = IF i + 1 <= n THEN n - (i + 1) + 1 ELSE 0
    BY <1>1, SubSeqProperties
<1>4. i # 0 => Len(SubSeq(s, i + 1, n)) < n
    BY <1>1, <1>3
<1> QED
    BY <1>2, <1>3, <1>4 DEF i, n, Leftover

\* Types of lists of events.
LEMMA EventSequences ==
    /\ <<>> \in Seq(Seq(Byte)) /\ <<>> \in Seq(Byte)
    /\ \A e \in Seq(Byte), es \in Seq(Seq(Byte)) :
            <<e>> \o es \in Seq(Seq(Byte)) /\ <<e>> \in Seq(Seq(Byte)) /\ Append(es, e) \in Seq(Seq(Byte))
<1>1. ASSUME NEW e \in Seq(Byte), NEW es \in Seq(Seq(Byte))
      PROVE  <<e>> \o es \in Seq(Seq(Byte)) /\ <<e>> \in Seq(Seq(Byte)) /\ Append(es, e) \in Seq(Seq(Byte))
    <2> DEFINE S == Seq(Byte)
               one == <<e>>
    <2>1. one \in Seq(S)
        OBVIOUS
    <2> HIDE DEF S, one
    <2>2. one \o es \in Seq(S) /\ Append(es, e) \in Seq(S)
        BY <2>1, ConcatProperties, AppendProperties DEF S
    <2> QED
        BY <2>1, <2>2 DEF S, one
<1> QED
    BY <1>1, EmptySeq

\* The loop of takeSSEEvents is what its definition says, and has its type.
LEMMA TakenDef ==
    /\ Taken \in [Seq(Byte) -> Framed]
    /\ \A s \in Seq(Byte) :
            Taken[s] = IF indexAfterBlankLine(s) = 0
                       THEN [events |-> <<>>, tail |-> s]
                       ELSE [events |-> <<normalizeSSEEvent(SubSeq(s, 1, indexAfterBlankLine(s)))>>
                                            \o Taken[Leftover(s)].events,
                             tail |-> Taken[Leftover(s)].tail]
<1> DEFINE S == Seq(Byte)
           X == Framed
           h(s, r) == IF indexAfterBlankLine(s) = 0
                      THEN [events |-> <<>>, tail |-> s]
                      ELSE [events |-> <<normalizeSSEEvent(SubSeq(s, 1, indexAfterBlankLine(s)))>> \o r.events,
                            tail |-> r.tail]
           m == [s \in S |-> Len(s)]
           d == [s \in S |-> Leftover(s)]
           H == [p \in S \X X |-> h(p[1], p[2])]
<1>1. m \in [S -> Nat] /\ d \in [S -> S] /\ [events |-> <<>>, tail |-> <<>>] \in X
    BY LeftoverType, LenProperties, EventSequences DEF Framed
<1>2. ASSUME NEW s \in S, NEW r \in X PROVE h(s, r) \in X
    <2>1. CASE indexAfterBlankLine(s) = 0
        BY <2>1, EventSequences DEF Framed
    <2>2. CASE indexAfterBlankLine(s) # 0
        <3> DEFINE e == normalizeSSEEvent(SubSeq(s, 1, indexAfterBlankLine(s)))
        <3>1. e \in Seq(Byte) /\ r.events \in Seq(Seq(Byte)) /\ r.tail \in Seq(Byte)
            BY NormalizedType, LeftoverType DEF Framed
        <3>2. h(s, r) = [events |-> <<e>> \o r.events, tail |-> r.tail]
            BY <2>2
        <3> HIDE DEF e, h
        <3>3. <<e>> \o r.events \in Seq(Seq(Byte))
            BY <3>1, EventSequences
        <3> QED
            BY <3>1, <3>2, <3>3 DEF Framed
    <2> QED
        BY <2>1, <2>2
<1>3. H \in [S \X X -> X]
    <2> HIDE DEF h, S, X
    <2> QED
        BY <1>2
<1>4. ASSUME NEW s \in S, indexAfterBlankLine(s) # 0 PROVE m[d[s]] < m[s]
    <2>1. Leftover(s) \in S /\ Len(Leftover(s)) < Len(s)
        BY <1>4, LeftoverType
    <2>2. m[d[s]] = Len(Leftover(s)) /\ m[s] = Len(s)
        BY <2>1
    <2> QED
        BY <2>1, <2>2
<1>5. \E f \in [S -> X] : \A s \in S : f[s] = H[<<s, f[d[s]]>>]
    <2>1. ASSUME NEW s \in S
          PROVE  \/ m[d[s]] < m[s]
                 \/ \A x, y \in X : H[<<s, x>>] = H[<<s, y>>]
        <3>1. CASE indexAfterBlankLine(s) = 0
            BY <3>1
        <3>2. CASE indexAfterBlankLine(s) # 0
            BY <1>4, <3>2
        <3> QED
            BY <3>1, <3>2
    <2> HIDE DEF S, X, m, d, H
    <2>2. Descends(S, X, m, d, H)
        BY <1>1, <1>3, <2>1 DEF Descends
    <2> QED
        BY <2>2, Recursion
<1>6. \E f : f = [s \in Seq(Byte) |-> h(s, f[Leftover(s)])]
    <2>1. PICK f \in [S -> X] : \A s \in S : f[s] = H[<<s, f[d[s]]>>]
        BY <1>5
    <2>2. ASSUME NEW s \in S PROVE f[s] = h(s, f[Leftover(s)])
        <3>1. d[s] = Leftover(s) /\ f[Leftover(s)] \in X
            BY LeftoverType
        <3> HIDE DEF h
        <3> QED
            BY <2>1, <3>1
    <2> HIDE DEF h
    <2>3. f = [s \in S |-> h(s, f[Leftover(s)])]
        BY <2>2
    <2> QED
        BY <2>3
<1>7. Taken = [s \in Seq(Byte) |-> h(s, Taken[Leftover(s)])]
    BY <1>6, Zenon DEF Taken, Leftover
<1>8. \A s \in S : Taken[s] \in X
    <2> DEFINE f == Taken
    <2>1. ASSUME NEW s \in S PROVE f[s] = h(s, f[Leftover(s)]) /\ d[s] = Leftover(s)
        BY <1>7
    <2>2. ASSUME NEW s \in S PROVE m[d[s]] < m[s] \/ f[s] \in X
        <3>1. CASE indexAfterBlankLine(s) = 0
            <4>1. f[s] = [events |-> <<>>, tail |-> s]
                BY <2>1, <3>1
            <4> QED
                BY <4>1, EventSequences DEF Framed
        <3>2. CASE indexAfterBlankLine(s) # 0
            BY <1>4, <3>2
        <3> QED
            BY <3>1, <3>2
    <2>3. ASSUME NEW s \in S, f[d[s]] \in X PROVE f[s] \in X
        <3> HIDE DEF h, f, d
        <3> QED
            BY <1>2, <2>1, <2>3
    <2> HIDE DEF S, X, m, d, f
    <2>4. Stays(S, X, m, d, f)
        BY <1>1, <2>2, <2>3 DEF Stays
    <2>5. \A s \in S : f[s] \in X
        BY <2>4, RecursionType
    <2> QED
        BY <2>5 DEF f
<1>9. Taken \in [S -> X]
    <2> HIDE DEF h
    <2> QED
        BY <1>7, <1>8
<1> QED
    BY <1>7, <1>9

-----------------------------------------------------------------------------
(* By lines *)

\* The states of ByLines.
ReadSoFar == [events : Seq(Seq(Byte)), event : Seq(Byte), line : Seq(Byte)]

\* A line without its carriage return is a sequence of bytes.
LEMMA StrippedType == \A s \in Seq(Byte) : Stripped(s) \in Seq(Byte)
BY FrontType DEF Stripped

\* What the newline of a line does.
LineEnds(at) ==
    LET line == Append(Stripped(at.line), LF)
    IN  IF line = <<LF>> /\ at.event # <<>>
        THEN [events |-> Append(at.events, at.event \o line), event |-> <<>>, line |-> <<>>]
        ELSE [events |-> at.events, event |-> at.event \o line, line |-> <<>>]

\* What the next byte does, a newline or another one, and its type.
LEMMA ReadByteValue ==
    ASSUME NEW at \in ReadSoFar, NEW b \in Byte
    PROVE  /\ b = LF => ReadByte(at, b) = LineEnds(at)
           /\ b # LF => ReadByte(at, b) = [events |-> at.events, event |-> at.event,
                                           line |-> Append(at.line, b)]
           /\ ReadByte(at, b) \in ReadSoFar
<1>1. /\ at.events \in Seq(Seq(Byte)) /\ at.event \in Seq(Byte) /\ at.line \in Seq(Byte)
      /\ at = [events |-> at.events, event |-> at.event, line |-> at.line]
    BY DEF ReadSoFar
<1> DEFINE es == at.events
           e == at.event
           l == at.line
           line == Append(Stripped(l), LF)
<1>2. /\ line \in Seq(Byte) /\ e \o line \in Seq(Byte) /\ Append(l, b) \in Seq(Byte)
      /\ Append(es, e \o line) \in Seq(Seq(Byte))
    <2>1. line \in Seq(Byte)
        BY <1>1, Bytes, StrippedType, AppendProperties
    <2> HIDE DEF line
    <2>2. e \o line \in Seq(Byte)
        BY <1>1, <2>1, ConcatProperties
    <2> QED
        BY <1>1, <2>1, <2>2, AppendProperties, EventSequences
<1>3. \A v : [at EXCEPT !.line = v] = [events |-> es, event |-> e, line |-> v]
    BY DEF ReadSoFar
<1>5. b = LF => ReadByte(at, b) = LineEnds(at)
    BY DEF ReadByte, LineEnds
<1>6. b # LF => ReadByte(at, b) = [events |-> es, event |-> e, line |-> Append(l, b)]
    BY <1>3 DEF ReadByte
<1>7. LineEnds(at) \in ReadSoFar
    <2>1. LineEnds(at) = IF line = <<LF>> /\ e # <<>>
                         THEN [events |-> Append(es, e \o line), event |-> <<>>, line |-> <<>>]
                         ELSE [events |-> es, event |-> e \o line, line |-> <<>>]
        BY DEF LineEnds
    <2> HIDE DEF line
    <2> QED
        BY <1>1, <1>2, <2>1, EventSequences DEF ReadSoFar
<1>8. [events |-> es, event |-> e, line |-> Append(l, b)] \in ReadSoFar
    BY <1>1, <1>2 DEF ReadSoFar
<1> QED
    BY <1>5, <1>6, <1>7, <1>8

\* ByLines reads one byte after the other, and has its type.
LEMMA ByLinesDef ==
    /\ ByLines[<<>>] = [events |-> <<>>, event |-> <<>>, line |-> <<>>]
    /\ \A s \in Seq(Byte) : ByLines[s] \in ReadSoFar
    /\ \A s \in Seq(Byte), x \in Byte : ByLines[Append(s, x)] = ReadByte(ByLines[s], x)
<1> DEFINE S == Seq(Byte)
           X == ReadSoFar
           first == [events |-> <<>>, event |-> <<>>, line |-> <<>>]
           h(s, r) == IF s = <<>> THEN first ELSE ReadByte(r, Last(s))
           m == [s \in S |-> Len(s)]
           d == [s \in S |-> Front(s)]
           H == [p \in S \X X |-> h(p[1], p[2])]
<1>1. m \in [S -> Nat] /\ d \in [S -> S] /\ first \in X /\ <<>> \in S
    BY FrontType, LenProperties, EventSequences DEF ReadSoFar
<1>2. ASSUME NEW s \in S, NEW r \in X PROVE h(s, r) \in X
    <2>1. CASE s = <<>>
        BY <1>1, <2>1
    <2>2. CASE s # <<>>
        <3>1. Last(s) \in Byte
            BY <2>2, FrontLast
        <3> QED
            BY <2>2, <3>1, ReadByteValue
    <2> QED
        BY <2>1, <2>2
<1>3. H \in [S \X X -> X]
    <2> HIDE DEF h, S, X
    <2> QED
        BY <1>2
<1>4. ASSUME NEW s \in S, s # <<>> PROVE m[d[s]] < m[s]
    <2>1. Front(s) \in S /\ Len(Front(s)) = Len(s) - 1 /\ Len(s) \in Nat
        BY <1>4, FrontLast, LenProperties
    <2>2. m[d[s]] = Len(Front(s)) /\ m[s] = Len(s)
        BY <2>1
    <2> QED
        BY <2>1, <2>2
<1>5. \E f \in [S -> X] : \A s \in S : f[s] = H[<<s, f[d[s]]>>]
    <2>1. ASSUME NEW s \in S
          PROVE  \/ m[d[s]] < m[s]
                 \/ \A x, y \in X : H[<<s, x>>] = H[<<s, y>>]
        <3>1. CASE s = <<>>
            BY <3>1
        <3>2. CASE s # <<>>
            BY <1>4, <3>2
        <3> QED
            BY <3>1, <3>2
    <2> HIDE DEF S, X, m, d, H
    <2>2. Descends(S, X, m, d, H)
        BY <1>1, <1>3, <2>1 DEF Descends
    <2> QED
        BY <2>2, Recursion
<1>6. \E f : f = [s \in Seq(Byte) |-> h(s, f[Front(s)])]
    <2>1. PICK f \in [S -> X] : \A s \in S : f[s] = H[<<s, f[d[s]]>>]
        BY <1>5
    <2>2. ASSUME NEW s \in S PROVE f[s] = h(s, f[Front(s)])
        <3>1. d[s] = Front(s) /\ f[Front(s)] \in X
            BY FrontType
        <3> HIDE DEF h
        <3> QED
            BY <2>1, <3>1
    <2> HIDE DEF h
    <2>3. f = [s \in S |-> h(s, f[Front(s)])]
        BY <2>2
    <2> QED
        BY <2>3
<1>7. ByLines = [s \in Seq(Byte) |-> h(s, ByLines[Front(s)])]
    BY <1>6, Zenon DEF ByLines
<1>8. \A s \in S : ByLines[s] \in X
    <2> DEFINE f == ByLines
    <2>1. ASSUME NEW s \in S PROVE f[s] = h(s, f[Front(s)]) /\ d[s] = Front(s)
        BY <1>7
    <2>2. ASSUME NEW s \in S PROVE m[d[s]] < m[s] \/ f[s] \in X
        <3>1. CASE s = <<>>
            <4>1. f[s] = first
                BY <2>1, <3>1
            <4> QED
                BY <1>1, <4>1
        <3>2. CASE s # <<>>
            BY <1>4, <3>2
        <3> QED
            BY <3>1, <3>2
    <2>3. ASSUME NEW s \in S, f[d[s]] \in X PROVE f[s] \in X
        <3> HIDE DEF h, f, d
        <3> QED
            BY <1>2, <2>1, <2>3
    <2> HIDE DEF S, X, m, d, f
    <2>4. Stays(S, X, m, d, f)
        BY <1>1, <2>2, <2>3 DEF Stays
    <2>5. \A s \in S : f[s] \in X
        BY <2>4, RecursionType
    <2> QED
        BY <2>5 DEF f
<1>9. ByLines[<<>>] = first
    BY <1>1, <1>7
<1>10. ASSUME NEW s \in S, NEW x \in Byte PROVE ByLines[Append(s, x)] = ReadByte(ByLines[s], x)
    <2> DEFINE t == Append(s, x)
    <2>1. t \in S /\ t # <<>> /\ Front(t) = s /\ Last(t) = x
        BY AppendProperties, FrontLastOfAppend
    <2> HIDE DEF t
    <2>2. ByLines[t] = h(t, ByLines[Front(t)])
        BY <1>7, <2>1
    <2> QED
        BY <2>1, <2>2 DEF t
<1> QED
    BY <1>8, <1>9, <1>10

\* Append to the second of two sequences is Append to both.
LEMMA ConcatAppend ==
    ASSUME NEW S, NEW a \in Seq(S), NEW b \in Seq(S), NEW y \in S
    PROVE  a \o Append(b, y) = Append(a \o b, y)
<1> DEFINE one == <<y>>
<1>1. one \in Seq(S)
    OBVIOUS
<1>2. Append(b, y) = b \o one
    BY AppendIsConcat
<1>3. a \o b \in Seq(S)
    BY ConcatProperties
<1>4. Append(a \o b, y) = (a \o b) \o one
    BY <1>3, AppendIsConcat
<1> HIDE DEF one
<1> QED
    BY <1>1, <1>2, <1>4, ConcatAssociative

\* The first i elements stay when one is appended, and what follows them gets it.
LEMMA SubSeqAppend ==
    ASSUME NEW S, NEW s \in Seq(S), NEW x \in S, NEW i \in 1 .. Len(s)
    PROVE  /\ SubSeq(Append(s, x), 1, i) = SubSeq(s, 1, i)
           /\ SubSeq(Append(s, x), i + 1, Len(s) + 1) = Append(SubSeq(s, i + 1, Len(s)), x)
<1> DEFINE t == Append(s, x)
           n == Len(s)
<1>1. /\ t \in Seq(S) /\ Len(t) = n + 1 /\ n \in Nat
      /\ \A k \in 1 .. n : t[k] = s[k] /\ s[k] \in S
      /\ t[n + 1] = x
    BY AppendProperties, LenProperties, ElementOfSeq
<1> HIDE DEF t, n
<1>2. i \in 1 .. n
    BY DEF n
<1> DEFINE a == SubSeq(t, 1, i)
           b == SubSeq(s, 1, i)
           c == SubSeq(t, i + 1, n + 1)
           l == SubSeq(s, i + 1, n)
           e == Append(l, x)
<1>3. \A k \in 1 .. n + 1 : t[k] \in S
    BY <1>1
<1>4. /\ a \in Seq(S) /\ Len(a) = IF 1 <= i THEN i - 1 + 1 ELSE 0
      /\ \A k \in 1 .. i - 1 + 1 : a[k] = t[1 + k - 1]
    BY <1>1, <1>2, <1>3, SubSeqProperties
<1>5. /\ b \in Seq(S) /\ Len(b) = IF 1 <= i THEN i - 1 + 1 ELSE 0
      /\ \A k \in 1 .. i - 1 + 1 : b[k] = s[1 + k - 1]
    BY <1>1, <1>2, SubSeqProperties
<1>6. /\ c \in Seq(S) /\ Len(c) = IF i + 1 <= n + 1 THEN (n + 1) - (i + 1) + 1 ELSE 0
      /\ \A k \in 1 .. (n + 1) - (i + 1) + 1 : c[k] = t[(i + 1) + k - 1]
    BY <1>1, <1>2, <1>3, SubSeqProperties
<1>7. /\ l \in Seq(S) /\ Len(l) = IF i + 1 <= n THEN n - (i + 1) + 1 ELSE 0
      /\ \A k \in 1 .. n - (i + 1) + 1 : l[k] = s[(i + 1) + k - 1]
    BY <1>1, <1>2, SubSeqProperties
<1> HIDE DEF a, b, c, l
<1>8. Len(l) = n - i
    <2>1. CASE i = n
        BY <1>1, <1>2, <1>7, <2>1
    <2>2. CASE i # n
        BY <1>1, <1>2, <1>7, <2>2
    <2> QED
        BY <2>1, <2>2
<1>9. /\ e \in Seq(S) /\ Len(e) = n - i + 1
      /\ \A k \in 1 .. n - i : e[k] = l[k]
      /\ e[n - i + 1] = x
    BY <1>7, <1>8, AppendProperties
<1> HIDE DEF e
<1>10. a = b
    <2>1. Len(a) = i /\ Len(b) = i
        BY <1>2, <1>4, <1>5
    <2>2. ASSUME NEW k \in 1 .. i PROVE a[k] = b[k]
        <3>1. 1 + k - 1 = k /\ k \in 1 .. i - 1 + 1 /\ k \in 1 .. n
            BY <1>1, <1>2
        <3> QED
            BY <1>1, <1>4, <1>5, <3>1
    <2> QED
        BY <1>4, <1>5, <2>1, <2>2, SeqEqual
<1>11. c = e
    <2>1. Len(c) = n - i + 1
        BY <1>1, <1>2, <1>6
    <2>2. ASSUME NEW k \in 1 .. n - i + 1 PROVE c[k] = e[k]
        <3>1. k \in 1 .. (n + 1) - (i + 1) + 1 /\ (i + 1) + k - 1 = i + k
            BY <1>1, <1>2
        <3>2. c[k] = t[i + k]
            BY <1>6, <3>1
        <3>3. CASE k = n - i + 1
            <4>1. i + k = n + 1
                BY <1>1, <1>2, <3>3
            <4> QED
                BY <1>1, <1>9, <3>2, <3>3, <4>1
        <3>4. CASE k # n - i + 1
            <4>1. k \in 1 .. n - i /\ k \in 1 .. n - (i + 1) + 1 /\ i + k \in 1 .. n
                BY <1>1, <1>2, <3>4
            <4>2. e[k] = s[i + k]
                BY <1>7, <1>9, <3>1, <4>1
            <4> QED
                BY <1>1, <3>2, <4>1, <4>2
        <3> QED
            BY <3>3, <3>4
    <2> QED
        BY <1>6, <1>9, <2>1, <2>2, SeqEqual
<1> QED
    BY <1>10, <1>11 DEF a, b, c, e, l, t, n

\* What one more byte makes of what takeSSEEvents has returned.
OneMore(taken, x) ==
    IF Closes(taken.tail, x)
    THEN [events |-> Append(taken.events, normalizeSSEEvent(Append(taken.tail, x))), tail |-> <<>>]
    ELSE [events |-> taken.events, tail |-> Append(taken.tail, x)]

ByteByByte(s) ==
    /\ Ends(Taken[s].tail) = {}
    /\ \A x \in Byte : Taken[Append(s, x)] = OneMore(Taken[s], x)

\* Of nothing nothing is taken.
LEMMA TakenEmpty == Taken[<<>>] = [events |-> <<>>, tail |-> <<>>]
<1>1. <<>> \in Seq(Byte) /\ Len(<<>>) = 0
    BY EmptySeq
<1>2. indexAfterBlankLine(<<>>) = 0
    BY <1>1 DEF indexAfterBlankLine, Ends
<1> QED
    BY <1>1, <1>2, TakenDef

\* The framing is that of a machine that reads one byte at a time: where the
\* buffer is cut does not matter to it.
LEMMA TakenByByte == \A s \in Seq(Byte) : ByteByByte(s)
<1> DEFINE S == Seq(Byte)
           m == [s \in S |-> Len(s)]
           T == {s \in S : ByteByByte(s)}
<1>1. m \in [S -> Nat]
    BY LenProperties
<1>2. ASSUME NEW s \in S, \A t \in S : m[t] < m[s] => t \in T PROVE s \in T
    <2>1. CASE Ends(s) = {}
        <3>1. Taken[s] = [events |-> <<>>, tail |-> s]
            BY <2>1, IndexAfter, TakenDef
        <3>2. ASSUME NEW x \in Byte PROVE Taken[Append(s, x)] = OneMore(Taken[s], x)
            <4> DEFINE t == Append(s, x)
                       n == Len(s)
            <4>1. t \in Seq(Byte) /\ Len(t) = n + 1 /\ n \in Nat
                BY AppendProperties, LenProperties
            <4>2. indexAfterBlankLine(t) = IF Closes(s, x) THEN n + 1 ELSE 0
                BY <2>1, IndexAfterAppend
            <4>3. OneMore(Taken[s], x) = IF Closes(s, x)
                        THEN [events |-> Append(<<>>, normalizeSSEEvent(t)), tail |-> <<>>]
                        ELSE [events |-> <<>>, tail |-> t]
                BY <3>1 DEF OneMore
            <4> HIDE DEF t, n
            <4>4. CASE Closes(s, x)
                <5> DEFINE e == normalizeSSEEvent(t)
                <5>1. SubSeq(t, 1, indexAfterBlankLine(t)) = t /\ indexAfterBlankLine(t) # 0
                    BY <4>1, <4>2, <4>4, SubSeqFull
                <5>2. Leftover(t) = <<>>
                    <6>1. Len(t) < (n + 1) + 1 /\ n + 1 + 1 \in Int /\ Len(t) \in Int
                        BY <4>1
                    <6>2. SubSeq(t, (n + 1) + 1, Len(t)) = <<>>
                        BY <6>1, SubSeqEmpty
                    <6> QED
                        BY <4>2, <4>4, <6>2 DEF Leftover
                <5>3. Taken[t] = [events |-> <<e>> \o <<>>, tail |-> <<>>]
                    <6>1. Taken[t] =
                            [events |-> <<normalizeSSEEvent(SubSeq(t, 1, indexAfterBlankLine(t)))>>
                                            \o Taken[Leftover(t)].events,
                             tail |-> Taken[Leftover(t)].tail]
                        BY <4>1, <5>1, TakenDef
                    <6>2. Taken[Leftover(t)].events = <<>> /\ Taken[Leftover(t)].tail = <<>>
                        BY <5>2, TakenEmpty
                    <6> QED
                        BY <5>1, <6>1, <6>2
                <5>4. e \in Seq(Byte)
                    BY <4>1, NormalizedType
                <5> HIDE DEF e
                <5>5. <<e>> \o <<>> = <<e>> /\ Append(<<>>, e) = <<e>>
                    OBVIOUS
                <5> QED
                    BY <4>3, <4>4, <5>3, <5>5 DEF e, t
            <4>5. CASE ~Closes(s, x)
                <5>1. Taken[t] = [events |-> <<>>, tail |-> t]
                    BY <4>1, <4>2, <4>5, TakenDef
                <5> QED
                    BY <4>3, <4>5, <5>1 DEF t
            <4> QED
                BY <4>4, <4>5
        <3> QED
            BY <2>1, <3>1, <3>2 DEF ByteByByte
    <2>2. CASE Ends(s) # {}
        <3> DEFINE i == indexAfterBlankLine(s)
                   l == Leftover(s)
                   e == normalizeSSEEvent(SubSeq(s, 1, i))
        <3>1. i \in 1 .. Len(s) /\ i # 0 /\ Len(s) \in Nat
            BY <2>2, IndexAfter, LenProperties
        <3>2. l \in Seq(Byte) /\ Len(l) < Len(s) /\ e \in Seq(Byte)
            BY <3>1, LeftoverType, NormalizedType
        <3>3. ByteByByte(l)
            <4>1. m[l] < m[s]
                BY <3>2
            <4> HIDE DEF m, l
            <4> QED
                BY <1>2, <3>2, <4>1
        <3>4. Taken[s] = [events |-> <<e>> \o Taken[l].events, tail |-> Taken[l].tail]
            BY <3>1, TakenDef
        <3>5. Taken[l].events \in Seq(Seq(Byte)) /\ Taken[l].tail \in Seq(Byte)
            BY <3>2, TakenDef DEF Framed
        <3>6. ASSUME NEW x \in Byte PROVE Taken[Append(s, x)] = OneMore(Taken[s], x)
            <4> DEFINE t == Append(s, x)
                       es == Taken[l].events
                       u == Taken[l].tail
                       last == normalizeSSEEvent(Append(u, x))
            <4>1. t \in Seq(Byte) /\ Len(t) = Len(s) + 1
                BY AppendProperties
            <4>2. indexAfterBlankLine(t) = i
                BY <2>2, IndexAfterAppend
            <4>3. SubSeq(t, 1, i) = SubSeq(s, 1, i) /\ Leftover(t) = Append(l, x)
                <5>1. /\ SubSeq(t, 1, i) = SubSeq(s, 1, i)
                      /\ SubSeq(t, i + 1, Len(s) + 1) = Append(SubSeq(s, i + 1, Len(s)), x)
                    <6> HIDE DEF i
                    <6> QED
                        BY <3>1, SubSeqAppend
                <5> QED
                    BY <4>1, <4>2, <5>1 DEF Leftover
            <4>4. Taken[t] = [events |-> <<e>> \o Taken[Append(l, x)].events,
                              tail |-> Taken[Append(l, x)].tail]
                BY <3>1, <4>1, <4>2, <4>3, TakenDef
            <4>5. Taken[Append(l, x)] = OneMore(Taken[l], x)
                BY <3>3 DEF ByteByByte
            <4> HIDE DEF t, l, e
            <4>6. CASE Closes(u, x)
                <5>1. last \in Seq(Byte)
                    BY <3>5, AppendProperties, NormalizedType
                <5>2. Taken[t] = [events |-> <<e>> \o Append(es, last), tail |-> <<>>]
                    BY <4>4, <4>5, <4>6 DEF OneMore
                <5>3. OneMore(Taken[s], x) = [events |-> Append(<<e>> \o es, last), tail |-> <<>>]
                    BY <3>4, <4>6 DEF OneMore
                <5>4. <<e>> \o Append(es, last) = Append(<<e>> \o es, last)
                    <6> DEFINE one == <<e>>
                    <6>1. one \in Seq(Seq(Byte)) /\ es \in Seq(Seq(Byte))
                        BY <3>2, <3>5
                    <6> HIDE DEF one, es, last
                    <6>2. one \o Append(es, last) = Append(one \o es, last)
                        BY <5>1, <6>1, ConcatAppend
                    <6> QED
                        BY <6>2 DEF one
                <5> QED
                    BY <5>2, <5>3, <5>4 DEF t
            <4>7. CASE ~Closes(u, x)
                <5>1. Taken[t] = [events |-> <<e>> \o es, tail |-> Append(u, x)]
                    BY <4>4, <4>5, <4>7 DEF OneMore
                <5>2. OneMore(Taken[s], x) = [events |-> <<e>> \o es, tail |-> Append(u, x)]
                    BY <3>4, <4>7 DEF OneMore
                <5> QED
                    BY <5>1, <5>2 DEF t
            <4> QED
                BY <4>6, <4>7
        <3>7. Ends(Taken[s].tail) = {}
            BY <3>3, <3>4 DEF ByteByByte
        <3> QED
            BY <3>6, <3>7 DEF ByteByByte
    <2> QED
        BY <2>1, <2>2
<1>3. S \subseteq T
    <2> HIDE DEF S, m, T
    <2> QED
        BY <1>1, <1>2, MeasureInduction
<1> QED
    BY <1>3

\* takeSSEEvents gives events and a tail.
LEMMA TakenType ==
    ASSUME NEW s \in Seq(Byte)
    PROVE  /\ Taken[s].events \in Seq(Seq(Byte)) /\ Taken[s].tail \in Seq(Byte)
           /\ Taken[s] = [events |-> Taken[s].events, tail |-> Taken[s].tail]
<1>1. Taken[s] \in Framed
    BY TakenDef
<1> QED
    BY <1>1 DEF Framed

\* To takeSSEEvents it does not matter where the bytes are cut: they give the
\* events that were taken before, and those of what it left, with the next block.
THEOREM CutsDoNotMatter ==
    \A s, b \in Seq(Byte) :
        LET before == takeSSEEvents(s)
            after == takeSSEEvents(before.tail \o b)
        IN  takeSSEEvents(s \o b) = [events |-> before.events \o after.events,
                                     tail |-> after.tail]
<1> SUFFICES ASSUME NEW s \in Seq(Byte)
             PROVE  \A b \in Seq(Byte) :
                        Taken[s \o b] = [events |-> Taken[s].events \o Taken[Taken[s].tail \o b].events,
                                         tail |-> Taken[Taken[s].tail \o b].tail]
    BY DEF takeSSEEvents
<1> DEFINE u == Taken[s].tail
           es == Taken[s].events
           T == {b \in Seq(Byte) : Taken[s \o b] = [events |-> es \o Taken[u \o b].events,
                                                    tail |-> Taken[u \o b].tail]}
<1>1. u \in Seq(Byte) /\ es \in Seq(Seq(Byte)) /\ Taken[s] = [events |-> es, tail |-> u]
    BY TakenType
<1>2. <<>> \in T
    <2>1. s \o <<>> = s /\ u \o <<>> = u /\ es \o <<>> = es
        BY <1>1, ConcatEmptySeq
    <2>2. Taken[u] = [events |-> <<>>, tail |-> u]
        <3>1. Ends(u) = {}
            BY TakenByByte DEF ByteByByte
        <3> HIDE DEF u
        <3> QED
            BY <1>1, <3>1, IndexAfter, TakenDef
    <2>3. Taken[s \o <<>>] = [events |-> es \o Taken[u \o <<>>].events, tail |-> Taken[u \o <<>>].tail]
        <3> HIDE DEF u, es
        <3>1. Taken[u].events = <<>> /\ Taken[u].tail = u
            BY <2>2
        <3> QED
            BY <1>1, <2>1, <3>1, Zenon
    <2> QED
        BY <2>3, EmptySeq
<1>3. ASSUME NEW b \in Seq(Byte), b \in T, NEW x \in Byte PROVE Append(b, x) \in T
    <2>1. /\ Append(b, x) \in Seq(Byte)
          /\ s \o b \in Seq(Byte) /\ u \o b \in Seq(Byte)
          /\ s \o Append(b, x) = Append(s \o b, x)
          /\ u \o Append(b, x) = Append(u \o b, x)
        <3> HIDE DEF u
        <3> QED
            BY <1>1, AppendProperties, ConcatProperties, ConcatAppend
    <2> DEFINE v == Taken[u \o b].tail
               fs == Taken[u \o b].events
               e == normalizeSSEEvent(Append(v, x))
    <2>2. /\ v \in Seq(Byte) /\ fs \in Seq(Seq(Byte)) /\ Taken[u \o b] = [events |-> fs, tail |-> v]
          /\ Taken[s \o b] = [events |-> es \o fs, tail |-> v]
        <3> HIDE DEF u, es
        <3>1. Taken[s \o b] = [events |-> es \o fs, tail |-> v]
            BY <1>3
        <3> QED
            BY <2>1, <3>1, TakenType
    <2>3. /\ Taken[Append(s \o b, x)] = OneMore(Taken[s \o b], x)
          /\ Taken[Append(u \o b, x)] = OneMore(Taken[u \o b], x)
        BY <2>1, TakenByByte DEF ByteByByte
    <2>4. e \in Seq(Byte)
        <3> HIDE DEF v
        <3> QED
            BY <2>2, AppendProperties, NormalizedType
    <2>5. es \o Append(fs, e) = Append(es \o fs, e)
        <3> DEFINE S == Seq(Byte)
        <3>1. es \in Seq(S) /\ fs \in Seq(S) /\ e \in S
            BY <1>1, <2>2, <2>4
        <3> HIDE DEF es, fs, e, S
        <3> QED
            BY <3>1, ConcatAppend
    <2> HIDE DEF u, es, v, fs, e
    <2>6. Taken[Append(s \o b, x)] = [events |-> es \o Taken[Append(u \o b, x)].events,
                                      tail |-> Taken[Append(u \o b, x)].tail]
        <3>1. CASE Closes(v, x)
            <4>1. /\ OneMore(Taken[s \o b], x) = [events |-> Append(es \o fs, e), tail |-> <<>>]
                  /\ OneMore(Taken[u \o b], x) = [events |-> Append(fs, e), tail |-> <<>>]
                BY <2>2, <3>1 DEF OneMore, e
            <4>2. /\ Taken[Append(u \o b, x)].events = Append(fs, e)
                  /\ Taken[Append(u \o b, x)].tail = <<>>
                BY <2>3, <4>1
            <4> QED
                BY <2>3, <2>5, <4>1, <4>2, Zenon
        <3>2. CASE ~Closes(v, x)
            <4>1. /\ OneMore(Taken[s \o b], x) = [events |-> es \o fs, tail |-> Append(v, x)]
                  /\ OneMore(Taken[u \o b], x) = [events |-> fs, tail |-> Append(v, x)]
                BY <2>2, <3>2 DEF OneMore
            <4> QED
                BY <2>3, <4>1
        <3> QED
            BY <3>1, <3>2
    <2> QED
        BY <2>1, <2>6 DEF u, es
<1>4. Seq(Byte) \subseteq T
    <2> HIDE DEF T
    <2> QED
        BY <1>2, <1>3, SeqInduction
<1> QED
    BY <1>4

\* The last elements of two sequences in a row.
LEMMA ConcatLast ==
    ASSUME NEW S, NEW a \in Seq(S), NEW b \in Seq(S), b # <<>>
    PROVE  /\ a \o b \in Seq(S) /\ a \o b # <<>> /\ Len(a \o b) = Len(a) + Len(b)
           /\ Last(a \o b) = Last(b)
           /\ Front(a \o b) = a \o Front(b)
           /\ Len(b) > 1 => (a \o b)[Len(a \o b) - 1] = b[Len(b) - 1]
           /\ Len(b) = 1 /\ a # <<>> => (a \o b)[Len(a \o b) - 1] = Last(a)
<1> DEFINE c == a \o b
<1>1. /\ c \in Seq(S) /\ Len(c) = Len(a) + Len(b) /\ Len(a) \in Nat /\ Len(b) \in Nat /\ Len(b) > 0
      /\ \A i \in 1 .. Len(a) + Len(b) : c[i] = IF i <= Len(a) THEN a[i] ELSE b[i - Len(a)]
      /\ a # <<>> => Len(a) > 0
    BY ConcatProperties, LenProperties, EmptySeq
<1>2. /\ Front(b) \in Seq(S) /\ Last(b) \in S /\ b = Append(Front(b), Last(b))
    BY FrontLast
<1>3. c = Append(a \o Front(b), Last(b)) /\ a \o Front(b) \in Seq(S)
    <2> DEFINE f == Front(b)
               l == Last(b)
    <2>1. f \in Seq(S) /\ l \in S /\ b = Append(f, l)
        BY <1>2
    <2> HIDE DEF f, l
    <2>2. a \o Append(f, l) = Append(a \o f, l) /\ a \o f \in Seq(S)
        BY <2>1, ConcatAppend, ConcatProperties
    <2> QED
        BY <2>1, <2>2 DEF f, l
<1>4. Front(c) = a \o Front(b) /\ Last(c) = Last(b)
    <2> DEFINE g == a \o Front(b)
               l == Last(b)
    <2>1. g \in Seq(S) /\ l \in S /\ c = Append(g, l)
        BY <1>2, <1>3
    <2> HIDE DEF c, g, l
    <2>2. Front(Append(g, l)) = g /\ Last(Append(g, l)) = l
        BY <2>1, FrontLastOfAppend
    <2> QED
        BY <2>1, <2>2 DEF g, l
<1> HIDE DEF c
<1>5. c # <<>>
    BY <1>1, EmptySeq
<1>6. ASSUME Len(b) > 1 PROVE c[Len(c) - 1] = b[Len(b) - 1]
    <2>1. Len(c) - 1 \in 1 .. Len(a) + Len(b) /\ ~(Len(c) - 1 <= Len(a))
          /\ (Len(c) - 1) - Len(a) = Len(b) - 1
        BY <1>1, <1>6
    <2> QED
        BY <1>1, <2>1
<1>7. ASSUME Len(b) = 1, a # <<>> PROVE c[Len(c) - 1] = Last(a)
    <2>1. Len(c) - 1 = Len(a) /\ Len(a) \in 1 .. Len(a) + Len(b)
        BY <1>1, <1>7
    <2> QED
        BY <1>1, <2>1 DEF Last
<1> QED
    BY <1>1, <1>4, <1>5, <1>6, <1>7 DEF c

\* Blank, byte by byte.
LEMMA BlankAppend ==
    ASSUME NEW s \in Seq(Byte), NEW x \in Byte
    PROVE  Blank(Append(s, x)) <=> Blank(s) /\ x # Text
<1> DEFINE t == Append(s, x)
<1>1. /\ Len(t) = Len(s) + 1 /\ Len(s) \in Nat /\ DOMAIN s = 1 .. Len(s) /\ DOMAIN t = 1 .. Len(t)
      /\ \A i \in 1 .. Len(s) : t[i] = s[i]
      /\ t[Len(s) + 1] = x
    BY AppendProperties, LenProperties
<1> HIDE DEF t
<1>2. \A i \in DOMAIN s : i \in DOMAIN t /\ t[i] = s[i]
    BY <1>1
<1>3. \A i \in DOMAIN t : i \in DOMAIN s \/ i = Len(s) + 1
    BY <1>1
<1>4. Len(s) + 1 \in DOMAIN t
    BY <1>1
<1> QED
    BY <1>1, <1>2, <1>3, <1>4 DEF Blank, t

\* WithLF keeps the last byte, and what is blank.
LEMMA WithLFKeeps ==
    ASSUME NEW s \in Seq(Byte)
    PROVE  Blank(WithLF[s]) <=> Blank(s)
<1> DEFINE T == {t \in Seq(Byte) :
                    /\ Blank(WithLF[t]) <=> Blank(t)
                    /\ t # <<>> => WithLF[t] # <<>> /\ Last(WithLF[t]) = Last(t)}
<1>1. <<>> \in T
    BY WithLFDef, EmptySeq
<1>2. ASSUME NEW t \in Seq(Byte), t \in T, NEW x \in Byte PROVE Append(t, x) \in T
    <2> DEFINE r == WithLF[t]
    <2>1. r \in Seq(Byte) /\ (Blank(r) <=> Blank(t)) /\ (t # <<>> => r # <<>> /\ Last(r) = Last(t))
        BY <1>2, WithLFType
    <2>2. Append(t, x) \in Seq(Byte) /\ Last(Append(t, x)) = x
        BY AppendProperties, FrontLastOfAppend
    <2>3. Blank(Append(t, x)) <=> Blank(t) /\ x # Text
        BY BlankAppend
    <2> HIDE DEF r
    <2>4. CASE x = LF /\ t # <<>> /\ Last(t) = CR
        <3> DEFINE f == Front(r)
        <3>1. WithLF[Append(t, x)] = Append(f, LF)
            BY <2>4, WithLFAppend DEF r
        <3>2. r = Append(f, CR) /\ f \in Seq(Byte)
            BY <2>1, <2>4, FrontLast
        <3>3. Blank(r) <=> Blank(f)
            BY <3>2, Bytes, BlankAppend
        <3> HIDE DEF f
        <3>4. Blank(Append(f, LF)) <=> Blank(f)
            BY <3>2, Bytes, BlankAppend
        <3>5. Append(f, LF) # <<>> /\ Last(Append(f, LF)) = LF
            BY <3>2, Bytes, AppendProperties, FrontLastOfAppend
        <3> QED
            BY <2>1, <2>2, <2>3, <2>4, <3>1, <3>3, <3>4, <3>5, Bytes
    <2>5. CASE ~(x = LF /\ t # <<>> /\ Last(t) = CR)
        <3>1. WithLF[Append(t, x)] = Append(r, x)
            BY <2>5, WithLFAppend DEF r
        <3>2. Blank(Append(r, x)) <=> Blank(r) /\ x # Text
            BY <2>1, BlankAppend
        <3>3. Append(r, x) # <<>> /\ Last(Append(r, x)) = x
            BY <2>1, AppendProperties, FrontLastOfAppend
        <3> QED
            BY <2>1, <2>2, <2>3, <3>1, <3>2, <3>3
    <2> QED
        BY <2>4, <2>5
<1>3. Seq(Byte) \subseteq T
    <2> HIDE DEF T
    <2> QED
        BY <1>1, <1>2, SeqInduction
<1> QED
    BY <1>3

\* The length and the last byte.
LEMMA LastBytes ==
    ASSUME NEW s \in Seq(Byte)
    PROVE  /\ Len(s) \in Nat /\ (s = <<>> <=> Len(s) = 0)
           /\ s # <<>> => Last(s) \in Byte /\ Last(s) = s[Len(s)]
<1>1. Len(s) \in Nat /\ (s = <<>> <=> Len(s) = 0)
    BY LenProperties, EmptySeq
<1>2. s # <<>> => Last(s) \in Byte
    BY FrontLast
<1>3. Last(s) = s[Len(s)]
    BY DEF Last
<1> QED
    BY <1>1, <1>2, <1>3

\* The start of a line.
NoNewline(line) == \A i \in 1 .. Len(line) : line[i] # LF

\* The bytes u that are not framed, as the whole lines of an event, normalised,
\* and the start of a line.
Lines(u, event, line) ==
    /\ WithLF[u] = event \o line
    /\ NoNewline(line)
    /\ event # <<>> => Last(event) = LF
    /\ Len(event) > 1 => event[Len(event) - 1] # LF
    /\ \E e \in Seq(Byte) :
        /\ u = e \o line
        /\ e = <<>> <=> event = <<>>
        /\ e # <<>> => Last(e) = LF

\* At the beginning there are no lines.
LEMMA NoLines == Lines(<<>>, <<>>, <<>>)
<1>1. <<>> \in Seq(Byte) /\ <<>> \o <<>> = <<>> /\ Len(<<>>) = 0 /\ WithLF[<<>>] = <<>>
    BY EmptySeq, ConcatEmptySeq, WithLFDef
<1>2. NoNewline(<<>>)
    BY <1>1 DEF NoNewline
<1>3. ~(Len(<<>>) > 1)
    BY <1>1
<1> DEFINE o == <<>>
<1>4. WithLF[o] = o \o o /\ o \in Seq(Byte) /\ o = o \o o /\ o = <<>> /\ ~(Len(o) > 1) /\ NoNewline(o)
    BY <1>1, <1>2, <1>3
<1> HIDE DEF o
<1>5. Lines(o, o, o)
    BY <1>4, Zenon DEF Lines
<1> QED
    BY <1>5 DEF o

\* A line goes on.
LEMMA LinesByText ==
    ASSUME NEW u \in Seq(Byte), NEW event \in Seq(Byte), NEW line \in Seq(Byte),
           Lines(u, event, line), NEW x \in Byte, x # LF
    PROVE  Lines(Append(u, x), event, Append(line, x))
<1>1. WithLF[Append(u, x)] = event \o Append(line, x)
    <2>1. WithLF[Append(u, x)] = Append(WithLF[u], x)
        BY WithLFAppend
    <2>2. event \o Append(line, x) = Append(event \o line, x)
        BY ConcatAppend
    <2>3. WithLF[u] = event \o line
        BY DEF Lines
    <2> QED
        BY <2>1, <2>2, <2>3
<1>2. NoNewline(Append(line, x))
    <2>1. /\ Len(Append(line, x)) = Len(line) + 1 /\ Len(line) \in Nat
          /\ \A i \in 1 .. Len(line) : Append(line, x)[i] = line[i]
          /\ Append(line, x)[Len(line) + 1] = x
        BY AppendProperties, LenProperties
    <2>2. ASSUME NEW i \in 1 .. Len(Append(line, x)) PROVE Append(line, x)[i] # LF
        <3>1. i \in 1 .. Len(line) \/ i = Len(line) + 1
            BY <2>1
        <3>2. \A j \in 1 .. Len(line) : line[j] # LF
            BY DEF Lines, NoNewline
        <3> QED
            BY <2>1, <3>1, <3>2
    <2> QED
        BY <2>2 DEF NoNewline
<1>3. PICK e \in Seq(Byte) : u = e \o line /\ (e = <<>> <=> event = <<>>) /\ (e # <<>> => Last(e) = LF)
    BY DEF Lines
<1>4. Append(u, x) = e \o Append(line, x)
    <2>1. e \o Append(line, x) = Append(e \o line, x)
        BY ConcatAppend
    <2> QED
        BY <1>3, <2>1, Zenon
<1>5. (event # <<>> => Last(event) = LF) /\ (Len(event) > 1 => event[Len(event) - 1] # LF)
    BY DEF Lines
<1> QED
    BY <1>1, <1>2, <1>3, <1>4, <1>5 DEF Lines

\* A line with its newline.
Ended(line) == Append(Stripped(line), LF)

\* A line that ends has one newline, its last byte.
LEMMA EndedLine ==
    ASSUME NEW line \in Seq(Byte), NoNewline(line)
    PROVE  /\ Stripped(line) \in Seq(Byte) /\ Ended(line) \in Seq(Byte)
           /\ Ended(line) # <<>> /\ Last(Ended(line)) = LF
           /\ Ended(line) = <<LF>> <=> Stripped(line) = <<>>
           /\ Len(Ended(line)) > 1 => Ended(line)[Len(Ended(line)) - 1] # LF
           /\ line # <<>> => Last(line) # LF /\ (Len(line) > 1 => line[Len(line) - 1] # LF)
           /\ line # <<>> => Front(line) \in Seq(Byte) /\ (Front(line) = <<>> <=> Len(line) = 1)
<1> DEFINE st == Stripped(line)
           n == Ended(line)
<1>1. st \in Seq(Byte) /\ LF \in Byte
    BY StrippedType, Bytes
<1>2. n = Append(st, LF)
    BY DEF Ended
<1>3. Len(line) \in Nat /\ (line = <<>> <=> Len(line) = 0)
    BY LastBytes
<1>4. line # <<>> => Front(line) \in Seq(Byte) /\ Len(Front(line)) = Len(line) - 1
                     /\ \A i \in 1 .. Len(line) - 1 : Front(line)[i] = line[i]
    BY FrontLast
<1>5. line # <<>> => (Front(line) = <<>> <=> Len(line) = 1)
    <2> SUFFICES ASSUME line # <<>> PROVE Front(line) = <<>> <=> Len(line) = 1
        OBVIOUS
    <2> DEFINE f == Front(line)
    <2>1. f \in Seq(Byte) /\ Len(f) = Len(line) - 1
        BY <1>4
    <2> HIDE DEF f
    <2>2. f = <<>> <=> Len(f) = 0
        BY <2>1, LastBytes
    <2>3. Len(f) = 0 <=> Len(line) = 1
        BY <1>3, <2>1
    <2> QED
        BY <2>2, <2>3 DEF f
<1>6. line # <<>> => Last(line) # LF /\ (Len(line) > 1 => line[Len(line) - 1] # LF)
    <2>1. line # <<>> => Len(line) \in 1 .. Len(line)
        BY <1>3
    <2>2. Len(line) > 1 => Len(line) - 1 \in 1 .. Len(line)
        BY <1>3
    <2>3. Last(line) = line[Len(line)]
        BY DEF Last
    <2>4. \A i \in 1 .. Len(line) : line[i] # LF
        BY DEF NoNewline
    <2> QED
        BY <2>1, <2>2, <2>3, <2>4
<1>7. NoNewline(st)
    <2>1. CASE st = line
        BY <2>1
    <2>2. CASE st # line
        <3>1. line # <<>> /\ st = Front(line)
            BY <2>2 DEF Stripped
        <3>2. Len(Front(line)) = Len(line) - 1 /\ \A i \in 1 .. Len(line) - 1 : Front(line)[i] = line[i]
            BY <1>4, <3>1
        <3>3. \A i \in 1 .. Len(line) - 1 : i \in 1 .. Len(line)
            BY <1>3
        <3> HIDE DEF st
        <3> QED
            BY <3>1, <3>2, <3>3 DEF NoNewline
    <2> QED
        BY <2>1, <2>2
<1> HIDE DEF st, n
<1>8. /\ n \in Seq(Byte) /\ Len(n) = Len(st) + 1 /\ Len(st) \in Nat /\ (st = <<>> <=> Len(st) = 0)
      /\ \A i \in 1 .. Len(st) : n[i] = st[i]
    BY <1>1, <1>2, AppendProperties, LastBytes
<1>9. n # <<>>
    BY <1>8, LastBytes
<1>10. Last(n) = LF
    BY <1>1, <1>2, FrontLastOfAppend
<1>11. n = <<LF>> <=> st = <<>>
    <2>1. st = <<>> => n = <<LF>>
        BY <1>2
    <2>2. n = <<LF>> => Len(n) = 1
        OBVIOUS
    <2> QED
        BY <1>8, <2>1, <2>2
<1>12. Len(n) > 1 => n[Len(n) - 1] # LF
    <2>1. Len(n) > 1 => Len(n) - 1 = Len(st) /\ Len(st) \in 1 .. Len(st)
        BY <1>8
    <2>2. \A i \in 1 .. Len(st) : st[i] # LF
        BY <1>7 DEF NoNewline
    <2> QED
        BY <1>8, <2>1, <2>2
<1> QED
    BY <1>1, <1>4, <1>5, <1>6, <1>8, <1>9, <1>10, <1>11, <1>12 DEF st, n

\* A line ends.
LEMMA LinesByNewline ==
    ASSUME NEW u \in Seq(Byte), NEW event \in Seq(Byte), NEW line \in Seq(Byte),
           Lines(u, event, line)
    PROVE  /\ WithLF[Append(u, LF)] = event \o Ended(line)
           /\ Closes(u, LF) <=> Ended(line) = <<LF>> /\ event # <<>>
           /\ ~Closes(u, LF) => Lines(Append(u, LF), event \o Ended(line), <<>>)
<1> DEFINE st == Stripped(line)
           n == Ended(line)
<1>1. PICK e \in Seq(Byte) : u = e \o line /\ (e = <<>> <=> event = <<>>) /\ (e # <<>> => Last(e) = LF)
    BY DEF Lines
<1>2. WithLF[u] = event \o line /\ NoNewline(line)
    BY DEF Lines
<1>3. LF \in Byte /\ CR \in Byte /\ CR # LF
    BY Bytes
<1>4. /\ st \in Seq(Byte) /\ n \in Seq(Byte) /\ n # <<>> /\ Last(n) = LF
      /\ n = <<LF>> <=> st = <<>>
      /\ Len(n) > 1 => n[Len(n) - 1] # LF
      /\ line # <<>> => Last(line) # LF /\ (Len(line) > 1 => line[Len(line) - 1] # LF)
      /\ line # <<>> => Front(line) \in Seq(Byte) /\ (Front(line) = <<>> <=> Len(line) = 1)
    BY <1>2, EndedLine
<1>5. /\ Len(line) \in Nat /\ (line = <<>> <=> Len(line) = 0)
      /\ Len(n) \in Nat /\ (n = <<>> <=> Len(n) = 0)
      /\ Len(u) \in Nat /\ (u = <<>> <=> Len(u) = 0)
    BY <1>4, LastBytes
<1>6. /\ u # <<>> /\ Last(u) = CR => WithLF[Append(u, LF)] = Append(Front(event \o line), LF)
      /\ ~(u # <<>> /\ Last(u) = CR) => WithLF[Append(u, LF)] = Append(event \o line, LF)
    BY <1>2, <1>3, WithLFAppend
<1>7. event \o n = Append(event \o st, LF)
    <2>1. n = Append(st, LF)
        BY DEF Ended
    <2> HIDE DEF n, st
    <2>2. event \o Append(st, LF) = Append(event \o st, LF)
        BY <1>3, <1>4, ConcatAppend
    <2> QED
        BY <2>1, <2>2
<1>8. st = IF line # <<>> /\ Last(line) = CR THEN Front(line) ELSE line
    BY DEF Stripped
<1>9. Closes(u, LF) <=> u # <<>> /\ (Last(u) = LF \/ (Len(u) > 1 /\ Last(u) = CR /\ u[Len(u) - 1] = LF))
    BY DEF Closes
<1> HIDE DEF n, st
<1>10. /\ WithLF[Append(u, LF)] = event \o n
       /\ Closes(u, LF) <=> n = <<LF>> /\ event # <<>>
    <2>1. CASE line = <<>>
        <3>1. u = e /\ event \o line = event /\ event \o st = event /\ st = <<>>
            BY <1>1, <1>8, <2>1, ConcatEmptySeq
        <3>2. WithLF[Append(u, LF)] = event \o n
            BY <1>1, <1>3, <1>6, <1>7, <3>1
        <3>3. Closes(u, LF) <=> event # <<>>
            BY <1>1, <1>3, <1>9, <3>1
        <3> QED
            BY <1>4, <3>1, <3>2, <3>3
    <2>2. CASE line # <<>>
        <3>1. /\ u # <<>> /\ Last(u) = Last(line) /\ Len(u) = Len(e) + Len(line)
              /\ Len(line) > 1 => u[Len(u) - 1] = line[Len(line) - 1]
              /\ Len(line) = 1 /\ e # <<>> => u[Len(u) - 1] = Last(e)
            BY <1>1, <2>2, ConcatLast
        <3>2. Front(event \o line) = event \o Front(line)
            BY <2>2, ConcatLast
        <3>3. CASE Last(line) = CR
            <4>1. st = Front(line)
                BY <1>8, <2>2, <3>3
            <4>2. WithLF[Append(u, LF)] = event \o n
                BY <1>6, <1>7, <3>1, <3>2, <3>3, <4>1
            <4>3. Closes(u, LF) <=> Len(u) > 1 /\ u[Len(u) - 1] = LF
                BY <1>3, <1>9, <3>1, <3>3
            <4>4. Len(u) > 1 /\ u[Len(u) - 1] = LF <=> Len(line) = 1 /\ e # <<>>
                <5>1. CASE Len(line) = 1
                    <6>1. Len(e) \in Nat /\ (e = <<>> <=> Len(e) = 0)
                        BY LastBytes
                    <6>2. Len(u) > 1 <=> e # <<>>
                        BY <1>5, <3>1, <5>1, <6>1
                    <6>3. e # <<>> => u[Len(u) - 1] = LF
                        BY <1>1, <3>1, <5>1
                    <6> QED
                        BY <5>1, <6>2, <6>3, Zenon
                <5>2. CASE Len(line) # 1
                    <6>1. Len(line) > 1
                        <7>1. Len(line) \in Nat /\ Len(line) # 0
                            BY <2>2, LastBytes
                        <7>2. \A k \in Nat : k # 0 /\ k # 1 => k > 1
                            OBVIOUS
                        <7> QED
                            BY <5>2, <7>1, <7>2
                    <6> QED
                        BY <1>4, <2>2, <3>1, <5>2, <6>1
                <5> QED
                    BY <5>1, <5>2
            <4>5. n = <<LF>> <=> Len(line) = 1
                BY <1>4, <2>2, <4>1
            <4> QED
                BY <1>1, <4>2, <4>3, <4>4, <4>5
        <3>4. CASE Last(line) # CR
            <4>1. st = line
                BY <1>8, <3>4
            <4>2. WithLF[Append(u, LF)] = event \o n
                BY <1>6, <1>7, <3>1, <3>4, <4>1
            <4>3. ~Closes(u, LF)
                BY <1>4, <1>9, <2>2, <3>1, <3>4
            <4>4. n # <<LF>>
                BY <1>4, <2>2, <4>1
            <4> QED
                BY <4>2, <4>3, <4>4
        <3> QED
            BY <3>3, <3>4
    <2> QED
        BY <2>1, <2>2
<1>11. ASSUME ~Closes(u, LF) PROVE Lines(Append(u, LF), event \o n, <<>>)
    <2> DEFINE v == Append(u, LF)
               w == event \o n
    <2>1. v \in Seq(Byte) /\ v # <<>> /\ Last(v) = LF
        <3>1. LF \in Byte
            BY <1>3
        <3>2. v \in Seq(Byte) /\ v # <<>>
            BY <3>1, AppendProperties
        <3>3. Last(v) = LF
            BY <3>1, FrontLastOfAppend
        <3> QED
            BY <3>2, <3>3
    <2>2. /\ w \in Seq(Byte) /\ w # <<>> /\ Last(w) = LF
          /\ Len(w) = Len(event) + Len(n)
          /\ Len(n) > 1 => w[Len(w) - 1] = n[Len(n) - 1]
        <3>1. n \in Seq(Byte) /\ n # <<>> /\ Last(n) = LF
            BY <1>4
        <3> QED
            BY <3>1, ConcatLast
    <2>3. Len(w) > 1 => w[Len(w) - 1] # LF
        <3>1. CASE n = <<LF>>
            <4>1. event = <<>> /\ Len(event) = 0 /\ Len(n) = 1
                BY <1>10, <1>11, <3>1, EmptySeq
            <4> QED
                BY <2>2, <4>1
        <3>2. CASE n # <<LF>>
            <4>1. Len(n) > 1
                <5>1. Len(n) # 1
                    <6>0. n = Append(st, LF)
                        BY DEF n, Ended, st
                    <6>1. Len(n) = Len(st) + 1
                        BY <1>3, <1>4, <6>0, AppendProperties
                    <6>2. Len(st) \in Nat /\ (st = <<>> <=> Len(st) = 0)
                        BY <1>4, LastBytes
                    <6> QED
                        BY <1>4, <3>2, <6>1, <6>2
                <5>2. Len(n) \in Nat /\ Len(n) # 0
                    <6>1. n \in Seq(Byte) /\ n # <<>>
                        BY <1>4
                    <6> QED
                        BY <6>1, LastBytes
                <5>3. \A k \in Nat : k # 0 /\ k # 1 => k > 1
                    OBVIOUS
                <5> QED
                    BY <5>1, <5>2, <5>3
            <4> QED
                BY <1>4, <2>2, <4>1
        <3> QED
            BY <3>1, <3>2
    <2>4. WithLF[v] = w \o <<>> /\ v = v \o <<>>
        <3>1. v \o <<>> = v /\ w \o <<>> = w
            BY <2>1, <2>2, ConcatEmptySeq
        <3> QED
            BY <1>10, <3>1
    <2>5. NoNewline(<<>>)
        BY NoLines DEF Lines
    <2> HIDE DEF v, w
    <2>6. Lines(v, w, <<>>)
        BY <2>1, <2>2, <2>3, <2>4, <2>5, Zenon DEF Lines
    <2> QED
        BY <2>6 DEF v, w
<1> QED
    BY <1>10, <1>11 DEF n

\* What takeSSEEvents has taken, and kept, is what the lines say.
Follows(s) ==
    /\ Taken[s].events = ByLines[s].events
    /\ Lines(Taken[s].tail, ByLines[s].event, ByLines[s].line)

\* One more byte: a line goes on, or ends, or ends the event.
LEMMA FollowsStep ==
    ASSUME NEW s \in Seq(Byte), Follows(s), NEW x \in Byte
    PROVE  Follows(Append(s, x))
<1> DEFINE es == Taken[s].events
           u == Taken[s].tail
           at == ByLines[s]
           event == at.event
           line == at.line
           n == Ended(line)
           t == Append(s, x)
<1>1. es \in Seq(Seq(Byte)) /\ u \in Seq(Byte) /\ Taken[s] = [events |-> es, tail |-> u]
    BY TakenType
<1>2. at \in ReadSoFar /\ event \in Seq(Byte) /\ line \in Seq(Byte)
    BY ByLinesDef DEF ReadSoFar
<1>3. es = at.events /\ Lines(u, event, line)
    BY DEF Follows
<1>4. Taken[t] = OneMore(Taken[s], x)
    BY TakenByByte DEF ByteByByte
<1>5. ByLines[t] = ReadByte(at, x)
    BY ByLinesDef
<1>6. LF \in Byte
    BY Bytes
<1> HIDE DEF es, u, t
<1>7. CASE x # LF
    <2>1. ByLines[t] = [events |-> at.events, event |-> event, line |-> Append(line, x)]
        <3> HIDE DEF at
        <3> QED
            BY <1>2, <1>5, <1>7, ReadByteValue
    <2>2. ~Closes(u, x)
        BY <1>7 DEF Closes
    <2>3. Taken[t] = [events |-> es, tail |-> Append(u, x)]
        BY <1>1, <1>4, <2>2 DEF OneMore
    <2>4. Lines(Append(u, x), event, Append(line, x))
        <3> HIDE DEF at, event, line
        <3> QED
            BY <1>1, <1>2, <1>3, <1>7, LinesByText
    <2> HIDE DEF at, event, line
    <2>5. Taken[t].events = es /\ Taken[t].tail = Append(u, x)
        BY <2>3
    <2>6. ByLines[t].events = at.events /\ ByLines[t].event = event /\ ByLines[t].line = Append(line, x)
        BY <2>1
    <2>7. Follows(t)
        BY <1>3, <2>4, <2>5, <2>6, Zenon DEF Follows
    <2> QED
        BY <2>7 DEF t
<1>8. CASE x = LF
    <2>1. ByLines[t] = LineEnds(at)
        <3> HIDE DEF at
        <3> QED
            BY <1>2, <1>5, <1>8, <1>6, ReadByteValue
    <2>2. /\ n = <<LF>> /\ event # <<>> => ByLines[t] =
                [events |-> Append(at.events, event \o n), event |-> <<>>, line |-> <<>>]
          /\ ~(n = <<LF>> /\ event # <<>>) => ByLines[t] =
                [events |-> at.events, event |-> event \o n, line |-> <<>>]
        BY <2>1 DEF LineEnds, Ended
    <2> HIDE DEF at, event, line, n
    <2>3. /\ WithLF[Append(u, LF)] = event \o n
          /\ Closes(u, LF) <=> n = <<LF>> /\ event # <<>>
          /\ ~Closes(u, LF) => Lines(Append(u, LF), event \o n, <<>>)
        BY <1>1, <1>2, <1>3, LinesByNewline DEF n
    <2>4. CASE Closes(u, LF)
        <3> DEFINE e == event \o n
                   v == Append(u, LF)
        <3>1. n = <<LF>> /\ event # <<>>
            BY <2>3, <2>4
        <3>2. normalizeSSEEvent(v) = e
            <4>1. n \in Seq(Byte) /\ n # <<>> /\ Len(n) = 1 /\ Last(n) = LF
                BY <1>6, <3>1 DEF Last
            <4>2. Len(event) \in Nat /\ Len(event) # 0
                <5>1. Len(event) \in Nat /\ (event = <<>> <=> Len(event) = 0)
                    BY <1>2, LastBytes
                <5> QED
                    BY <3>1, <5>1
            <4>3. Last(event) = LF
                BY <1>3, <3>1 DEF Lines
            <4>4. /\ e # <<>> /\ Len(e) = Len(event) + Len(n) /\ Last(e) = LF
                  /\ e[Len(e) - 1] = Last(event)
                <5>1. n \in Seq(Byte) /\ n # <<>> /\ Len(n) = 1 /\ event # <<>> /\ event \in Seq(Byte)
                    BY <1>2, <3>1, <4>1
                <5>2. /\ e # <<>> /\ Len(e) = Len(event) + Len(n) /\ Last(e) = Last(n)
                      /\ Len(n) = 1 /\ event # <<>> => e[Len(e) - 1] = Last(event)
                    <6>1. n \in Seq(Byte) /\ n # <<>> /\ event \in Seq(Byte)
                        BY <5>1
                    <6> QED
                        BY <6>1, ConcatLast
                <5> QED
                    BY <4>1, <5>1, <5>2
            <4> HIDE DEF e
            <4>5. Len(e) > 1
                BY <4>1, <4>2, <4>4
            <4>6. Completed(e) = e
                BY <4>3, <4>4, <4>5 DEF Completed
            <4>7. v \in Seq(Byte)
                BY <1>1, <1>6, AppendProperties
            <4> HIDE DEF v
            <4>8. normalizeSSEEvent(v) = Completed(WithLF[v])
                BY <4>7, NormalizedValue
            <4> QED
                BY <2>3, <4>6, <4>8 DEF e, v
        <3>3. Taken[t] = [events |-> Append(es, normalizeSSEEvent(v)), tail |-> <<>>]
            BY <1>1, <1>4, <1>8, <2>4 DEF OneMore
        <3> HIDE DEF e, v
        <3>4. Taken[t].events = Append(es, e) /\ Taken[t].tail = <<>>
            BY <3>2, <3>3
        <3>5. ByLines[t].events = Append(at.events, e) /\ ByLines[t].event = <<>> /\ ByLines[t].line = <<>>
            BY <2>2, <3>1 DEF e
        <3>6. Follows(t)
            BY <1>3, <3>4, <3>5, NoLines, Zenon DEF Follows
        <3> QED
            BY <3>6 DEF t
    <2>5. CASE ~Closes(u, LF)
        <3> DEFINE e == event \o n
                   v == Append(u, LF)
        <3>1. Taken[t] = [events |-> es, tail |-> v]
            BY <1>1, <1>4, <1>8, <2>5 DEF OneMore
        <3>2. ~(n = <<LF>> /\ event # <<>>)
            BY <2>3, <2>5
        <3>3. Lines(v, e, <<>>)
            BY <2>3, <2>5
        <3>4. ByLines[t] = [events |-> at.events, event |-> e, line |-> <<>>]
            BY <2>2, <3>2
        <3> HIDE DEF e, v
        <3>5. Taken[t].events = es /\ Taken[t].tail = v
            BY <3>1
        <3>6. ByLines[t].events = at.events /\ ByLines[t].event = e /\ ByLines[t].line = <<>>
            BY <3>4
        <3>7. Follows(t)
            BY <1>3, <3>3, <3>5, <3>6, Zenon DEF Follows
        <3> QED
            BY <3>7 DEF t
    <2> QED
        BY <2>4, <2>5
<1> QED
    BY <1>7, <1>8

\* The two definitions go together over all bytes.
LEMMA AllFollow == \A s \in Seq(Byte) : Follows(s)
<1> DEFINE T == {s \in Seq(Byte) : Follows(s)}
<1>1. <<>> \in T
    <2> DEFINE o == <<>>
    <2>1. /\ Taken[o] = [events |-> <<>>, tail |-> o]
          /\ ByLines[o] = [events |-> <<>>, event |-> o, line |-> o]
          /\ Lines(o, o, o) /\ o \in Seq(Byte)
        BY TakenEmpty, ByLinesDef, NoLines, EmptySeq
    <2> HIDE DEF o
    <2>2. Taken[o].events = <<>> /\ Taken[o].tail = o
        BY <2>1
    <2>3. ByLines[o].events = <<>> /\ ByLines[o].event = o /\ ByLines[o].line = o
        BY <2>1
    <2>4. Follows(o)
        BY <2>1, <2>2, <2>3, Zenon DEF Follows
    <2> QED
        BY <2>1, <2>4 DEF o
<1>2. ASSUME NEW s \in Seq(Byte), s \in T, NEW x \in Byte PROVE Append(s, x) \in T
    BY <1>2, FollowsStep, AppendProperties
<1>3. Seq(Byte) \subseteq T
    <2> HIDE DEF T
    <2> QED
        BY <1>1, <1>2, SeqInduction
<1> QED
    BY <1>3

\* takeSSEEvents and splitSSEEvents find, in any bytes at all, the events that
\* reading them line by line finds.
THEOREM FramingIsByLines ==
    \A body \in Seq(Byte) :
        /\ takeSSEEvents(body).events = EventsOf(body)
        /\ splitSSEEvents(body) = AllEventsOf(body)
<1> SUFFICES ASSUME NEW body \in Seq(Byte)
             PROVE  Taken[body].events = EventsOf(body) /\ splitSSEEvents(body) = AllEventsOf(body)
    BY DEF takeSSEEvents
<1> DEFINE es == Taken[body].events
           u == Taken[body].tail
           event == ByLines[body].event
           line == ByLines[body].line
           w == event \o line
<1>1. es = EventsOf(body) /\ es = ByLines[body].events /\ Lines(u, event, line)
    BY AllFollow DEF Follows, EventsOf
<1>2. es \in Seq(Seq(Byte)) /\ u \in Seq(Byte) /\ event \in Seq(Byte) /\ line \in Seq(Byte)
    BY TakenType, ByLinesDef DEF ReadSoFar
<1>3. splitSSEEvents(body) = IF Blank(u) THEN es ELSE Append(es, normalizeSSEEvent(u))
    BY DEF splitSSEEvents, takeSSEEvents
<1>4. AllEventsOf(body) = IF Blank(w) THEN es
                          ELSE IF line = <<>> THEN Append(es, Append(event, LF))
                          ELSE Append(es, w \o <<LF, LF>>)
    BY <1>1 DEF AllEventsOf
<1> HIDE DEF es, u, event, line, w
<1>5. /\ WithLF[u] = w /\ NoNewline(line)
      /\ event # <<>> => Last(event) = LF
      /\ Len(event) > 1 => event[Len(event) - 1] # LF
    BY <1>1 DEF Lines, w
<1>6. Blank(u) <=> Blank(w)
    BY <1>2, <1>5, WithLFKeeps
<1>7. normalizeSSEEvent(u) = Completed(w)
    BY <1>2, <1>5, NormalizedValue
<1>8. CASE line = <<>>
    <2>1. w = event
        BY <1>2, <1>8, ConcatEmptySeq DEF w
    <2>2. ~Blank(w) => w # <<>>
        BY EmptySeq DEF Blank
    <2>3. ~Blank(w) => Completed(w) = Append(event, LF)
        BY <1>5, <2>1, <2>2 DEF Completed
    <2>4. splitSSEEvents(body) = AllEventsOf(body)
        <3>1. CASE Blank(u)
            BY <1>3, <1>4, <1>6, <3>1
        <3>2. CASE ~Blank(u)
            BY <1>3, <1>4, <1>6, <1>7, <1>8, <2>3, <3>2
        <3> QED
            BY <3>1, <3>2
    <2> QED
        BY <1>1, <2>4 DEF es
<1>9. CASE line # <<>>
    <2>1. Last(w) = Last(line)
        BY <1>2, <1>9, ConcatLast DEF w
    <2>2. Last(line) # LF
        BY <1>2, <1>5, <1>9, EndedLine
    <2>3. Completed(w) = w \o <<LF, LF>>
        BY <2>1, <2>2 DEF Completed
    <2>4. splitSSEEvents(body) = AllEventsOf(body)
        <3>1. CASE Blank(u)
            BY <1>3, <1>4, <1>6, <3>1
        <3>2. CASE ~Blank(u)
            BY <1>3, <1>4, <1>6, <1>7, <1>9, <2>3, <3>2
        <3> QED
            BY <3>1, <3>2
    <2> QED
        BY <1>1, <2>4 DEF es
<1> QED
    BY <1>8, <1>9

-----------------------------------------------------------------------------
(* What the calls of StreamRelay need of the framing *)

\* A block is a sequence of bytes within its bound.
LEMMA BlockType ==
    ASSUME NEW block \in Blocks
    PROVE  block \in Seq(Byte) /\ Len(block) \in Nat /\ Len(block) <= MaxChunk
<1>1. MaxChunk \in Nat
    BY BoundAssumption
<1>2. PICK m \in 0 .. MaxChunk : block \in [1 .. m -> Byte]
    BY DEF Blocks, BoundedSeq, SeqOf
<1>3. m \in Nat /\ m <= MaxChunk
    BY <1>1, <1>2
<1>4. block \in Seq(Byte)
    BY <1>2, <1>3, SeqDef
<1>5. Len(block) = m
    <2>1. Len(block) \in Nat /\ DOMAIN block = 1 .. Len(block)
        BY <1>4, LenProperties
    <2>2. DOMAIN block = 1 .. m
        BY <1>2
    <2> DEFINE n == Len(block)
    <2>3. n \in Nat /\ 1 .. n = 1 .. m
        BY <2>1, <2>2
    <2> HIDE DEF n
    <2>4. ~(n < m)
        <3>1. n < m => m \in 1 .. m /\ m \notin 1 .. n
            BY <1>3, <2>3
        <3> QED
            BY <2>3, <3>1
    <2>5. ~(m < n)
        <3>1. m < n => n \in 1 .. n /\ n \notin 1 .. m
            BY <1>3, <2>3
        <3> QED
            BY <2>3, <3>1
    <2> QED
        BY <1>3, <2>3, <2>4, <2>5 DEF n
<1> QED
    BY <1>3, <1>4, <1>5

\* The buffer of the goroutine holds no complete event once it was framed.
LEMMA NothingLeft ==
    /\ indexAfterBlankLine(<<>>) = 0
    /\ \A s \in Seq(Byte) :
        /\ indexAfterBlankLine(Taken[s].tail) = 0
        /\ Taken[Taken[s].tail] = [events |-> <<>>, tail |-> Taken[s].tail]
<1>1. <<>> \in Seq(Byte) /\ Taken[<<>>].tail = <<>>
    BY TakenEmpty, EmptySeq
<1>2. ASSUME NEW s \in Seq(Byte)
      PROVE  /\ indexAfterBlankLine(Taken[s].tail) = 0
             /\ Taken[Taken[s].tail] = [events |-> <<>>, tail |-> Taken[s].tail]
    <2> DEFINE u == Taken[s].tail
    <2>1. u \in Seq(Byte) /\ Ends(u) = {}
        BY TakenType, TakenByByte DEF ByteByByte
    <2> HIDE DEF u
    <2>2. indexAfterBlankLine(u) = 0
        BY <2>1, IndexAfter
    <2> QED
        BY <2>1, <2>2, TakenDef DEF u
<1> QED
    BY <1>1, <1>2

\* splitSSEEvents gives events.
LEMMA SplitType ==
    ASSUME NEW s \in Seq(Byte)
    PROVE  splitSSEEvents(s) \in Seq(Seq(Byte))
<1> DEFINE es == Taken[s].events
           e == normalizeSSEEvent(Taken[s].tail)
<1>1. es \in Seq(Seq(Byte)) /\ e \in Seq(Byte)
    BY TakenType, NormalizedType
<1>2. splitSSEEvents(s) = IF Blank(Taken[s].tail) THEN es ELSE Append(es, e)
    BY DEF splitSSEEvents, takeSSEEvents
<1> HIDE DEF es, e
<1> QED
    BY <1>1, <1>2, EventSequences

\* What is flushed are the events that the bytes end with.
LEMMA FlushedAll ==
    ASSUME NEW s \in Seq(Byte)
    PROVE  Taken[s].events \o splitSSEEvents(Taken[s].tail) = splitSSEEvents(s)
<1> DEFINE S == Seq(Byte)
           es == Taken[s].events
           u == Taken[s].tail
           e == normalizeSSEEvent(u)
<1>1. es \in Seq(S) /\ u \in S /\ e \in S /\ <<>> \in Seq(S)
    BY TakenType, NormalizedType, EmptySeq
<1>2. Taken[u].events = <<>> /\ Taken[u].tail = u
    <2>1. Taken[u] = [events |-> <<>>, tail |-> u]
        BY NothingLeft
    <2> HIDE DEF u
    <2> QED
        BY <2>1
<1>3. splitSSEEvents(s) = IF Blank(u) THEN es ELSE Append(es, e)
    BY DEF splitSSEEvents, takeSSEEvents
<1>4. splitSSEEvents(u) = IF Blank(u) THEN <<>> ELSE Append(<<>>, e)
    BY <1>2 DEF splitSSEEvents, takeSSEEvents
<1> HIDE DEF es, u, e, S
<1>5. es \o <<>> = es /\ es \o Append(<<>>, e) = Append(es \o <<>>, e)
    BY <1>1, ConcatEmptySeq, ConcatAppend
<1>6. es \o splitSSEEvents(u) = splitSSEEvents(s)
    <2>1. CASE Blank(u)
        BY <1>3, <1>4, <1>5, <2>1
    <2>2. CASE ~Blank(u)
        BY <1>3, <1>4, <1>5, <2>2
    <2> QED
        BY <2>1, <2>2
<1> QED
    BY <1>6 DEF es, u

\* The first of two sequences in a row is a prefix.
LEMMA PrefixOfConcat ==
    ASSUME NEW S, NEW a \in Seq(S), NEW b \in Seq(S)
    PROVE  IsPrefix(a, a \o b)
<1> DEFINE c == a \o b
           n == Len(a)
           d == SubSeq(c, 1, n)
<1>1. /\ c \in Seq(S) /\ Len(c) = n + Len(b) /\ n \in Nat /\ Len(b) \in Nat
      /\ \A i \in 1 .. n + Len(b) : c[i] = IF i <= n THEN a[i] ELSE b[i - n]
      /\ \A i \in 1 .. n : a[i] \in S
      /\ SubSeq(a, 1, n) = a
    BY ConcatProperties, LenProperties, ElementOfSeq, SubSeqFull
<1> HIDE DEF c, n
<1>2. \A i \in 1 .. n : c[i] = a[i] /\ c[i] \in S
    BY <1>1
<1>3. /\ d \in Seq(S) /\ Len(d) = IF 1 <= n THEN n - 1 + 1 ELSE 0
      /\ \A i \in 1 .. n - 1 + 1 : d[i] = c[1 + i - 1]
    BY <1>1, <1>2, SubSeqProperties
<1> HIDE DEF d
<1>4. Len(d) = n
    <2>1. CASE n = 0
        BY <1>3, <2>1
    <2>2. CASE n # 0
        BY <1>1, <1>3, <2>2
    <2> QED
        BY <2>1, <2>2
<1>5. ASSUME NEW i \in 1 .. n PROVE d[i] = a[i]
    <2>1. i \in 1 .. n - 1 + 1 /\ 1 + i - 1 = i
        BY <1>1
    <2> QED
        BY <1>2, <1>3, <2>1
<1>6. d = a
    BY <1>1, <1>3, <1>4, <1>5, SeqEqual DEF n
<1>7. n <= Len(c)
    BY <1>1
<1>8. SubSeq(a, 1, n) = SubSeq(c, 1, n)
    BY <1>1, <1>6 DEF d
<1>9. IsPrefix(a, c)
    BY <1>7, <1>8 DEF IsPrefix, n
<1> QED
    BY <1>9 DEF c

\* An event that is emitted is still one of those that were framed.
LEMMA EmittedNext ==
    ASSUME NEW S, NEW a \in Seq(S), NEW q \in Seq(S), q # <<>>
    PROVE  /\ Append(a, Head(q)) \in Seq(S) /\ Tail(q) \in Seq(S)
           /\ Append(a, Head(q)) \o Tail(q) = a \o q
<1> DEFINE h == Head(q)
           one == <<h>>
           t == Tail(q)
<1>1. h \in S /\ t \in Seq(S) /\ Len(t) = Len(q) - 1 /\ (\A i \in 1 .. Len(t) : t[i] = q[i + 1])
      /\ Len(q) \in Nat
    BY HeadTailProperties, LenProperties
<1>2. one \in Seq(S) /\ Len(one) = 1 /\ one[1] = h
    BY <1>1
<1>3. h = q[1]
    OBVIOUS
<1> HIDE DEF h, t, one
<1>4. one \o t = q
    <2> DEFINE c == one \o t
    <2>1. /\ c \in Seq(S) /\ Len(c) = 1 + Len(t)
          /\ \A i \in 1 .. 1 + Len(t) : c[i] = IF i <= 1 THEN one[i] ELSE t[i - 1]
        <3>1. one \in Seq(S) /\ t \in Seq(S) /\ Len(one) = 1
            BY <1>1, <1>2
        <3>2. /\ c \in Seq(S) /\ Len(c) = Len(one) + Len(t)
              /\ \A i \in 1 .. Len(one) + Len(t) : c[i] = IF i <= Len(one) THEN one[i] ELSE t[i - Len(one)]
            BY <3>1, ConcatProperties
        <3> HIDE DEF c
        <3> QED
            BY <3>1, <3>2
    <2> HIDE DEF c
    <2>2. Len(c) = Len(q)
        BY <1>1, <2>1
    <2>3. ASSUME NEW i \in 1 .. Len(q) PROVE c[i] = q[i]
        <3>1. i \in 1 .. 1 + Len(t)
            BY <1>1
        <3>2. CASE i = 1
            BY <1>2, <1>3, <2>1, <3>1, <3>2
        <3>3. CASE i # 1
            <4>1. ~(i <= 1) /\ i - 1 \in 1 .. Len(t) /\ (i - 1) + 1 = i
                BY <1>1, <3>3
            <4> QED
                BY <1>1, <2>1, <3>1, <4>1
        <3> QED
            BY <3>2, <3>3
    <2>4. c = q
        BY <2>1, <2>2, <2>3, SeqEqual
    <2> QED
        BY <2>4 DEF c
<1>5. Append(a, h) = a \o one
    BY <1>1, AppendIsConcat DEF one
<1>6. (a \o one) \o t = a \o (one \o t)
    <2>1. one \in Seq(S) /\ t \in Seq(S)
        BY <1>1, <1>2
    <2> QED
        BY <2>1, ConcatAssociative
<1>7. Append(a, h) \in Seq(S)
    BY <1>1, AppendProperties
<1> QED
    BY <1>1, <1>4, <1>5, <1>6, <1>7 DEF h, t

\* What was emitted of the events of a response is a prefix of them all.
LEMMA EmittedIsPrefix ==
    ASSUME NEW s \in Seq(Byte), NEW a \in Seq(Seq(Byte)), NEW q \in Seq(Seq(Byte)),
           a \o q = Taken[s].events \/ a \o q = splitSSEEvents(s)
    PROVE  IsPrefix(a, splitSSEEvents(s))
<1> DEFINE S == Seq(Byte)
           es == Taken[s].events
           e == normalizeSSEEvent(Taken[s].tail)
<1>1. e \in S
    BY TakenType, NormalizedType
<1>2. splitSSEEvents(s) = es \/ splitSSEEvents(s) = Append(es, e)
    BY DEF splitSSEEvents, takeSSEEvents
<1>3. a \in Seq(S) /\ q \in Seq(S)
    OBVIOUS
<1> HIDE DEF S, es, e
<1>4. Append(q, e) \in Seq(S) /\ a \o Append(q, e) = Append(a \o q, e)
    BY <1>1, <1>3, AppendProperties, ConcatAppend
<1>5. IsPrefix(a, a \o q) /\ IsPrefix(a, a \o Append(q, e))
    BY <1>3, <1>4, PrefixOfConcat
<1>6. CASE a \o q = es
    BY <1>2, <1>4, <1>5, <1>6
<1>7. CASE a \o q = splitSSEEvents(s)
    BY <1>5, <1>7
<1> QED
    BY <1>6, <1>7 DEF es

-----------------------------------------------------------------------------
(* The inductive invariant of StreamRelay *)

\* Where the call is, by what becomes of the response.
Phases ==
    /\ phase = "opening" => goal = "none"
    /\ phase = "draining" => goal \in {"error", "inline"}
    /\ phase \in {"reading", "emitting", "flushing", "stopping", "leaving"} => goal = "pump"

\* Before the response is open, or when it could not be opened, there is nothing.
NotOpened ==
    goal = "none" => upstream = "none" /\ queue = <<>> /\ emitted = <<>> /\ ~failure /\ ~refused

\* The buffer of a drained response holds all of it,
Whole == phase = "draining" => buffer = received

\* and the answer is made of that.
Drained == phase = "returned" /\ goal = "inline" => emitted = splitSSEEvents(received)

\* Of a pumped response the buffer holds what no event has taken,
Framing ==
    phase \in {"reading", "emitting"} =>
        /\ buffer = Taken[received].tail
        /\ emitted \o queue = Taken[received].events
        /\ phase = "reading" => queue = <<>>

\* and then the queue what is left of the whole.
Flushing == phase = "flushing" => done /\ emitted \o queue = splitSSEEvents(received)

\* While it goes on, nothing has gone wrong.
GoingOn == phase \in {"reading", "emitting", "flushing"} => ~failure /\ ~refused

\* What the consumer has had, by how the pump ended.
Over ==
    goal = "pump" /\ phase \in {"stopping", "leaving", "returned"} =>
        /\ failure => ~refused /\ emitted = Taken[received].events
        /\ refused => IsPrefix(emitted, splitSSEEvents(received))
        /\ ~failure /\ ~refused => done /\ emitted = splitSSEEvents(received)

\* The executor stream is closed last but one, and tells of a failure.
Closed ==
    executor \in {"ended", "failed"} =>
        /\ goal = "pump" /\ phase \in {"leaving", "returned"}
        /\ executor = "failed" <=> failure

RelayInv ==
    /\ Phases /\ NotOpened /\ Whole /\ Drained /\ ErrorBodyIsBounded
    /\ Framing /\ Flushing /\ GoingOn /\ Over /\ Closed

-----------------------------------------------------------------------------
(* The types *)

\* The types hold at first.
LEMMA TypeInit == Init => TypeOK
<1> SUFFICES ASSUME Init PROVE TypeOK
    OBVIOUS
<1>1. <<>> \in Seq(Byte) /\ <<>> \in Seq(Seq(Byte))
    BY EmptySeq
<1> QED
    BY <1>1 DEF Init, TypeOK

\* Every step keeps the types.
LEMMA TypeStep == TypeOK /\ Phases /\ [Next]_vars => TypeOK'
<1> SUFFICES ASSUME TypeOK, Phases, [Next]_vars PROVE TypeOK'
    OBVIOUS
<1> USE DEF TypeOK
<1>1. CASE Rest
    <2>1. CASE OpenFails
        BY <2>1 DEF OpenFails
    <2>2. CASE Opens
        <3>1. PICK open \in BOOLEAN, ok \in BOOLEAN, body \in Blocks :
                /\ open => body = <<>>
                /\ upstream' = IF open THEN "open" ELSE "none"
                /\ goal' = IF ~ok THEN "error"
                           ELSE IF open /\ executor = "open" THEN "pump" ELSE "inline"
                /\ phase' = IF goal' = "pump" THEN "reading" ELSE "draining"
                /\ buffer' = body /\ received' = body
                /\ done' = ~open
            BY <2>2 DEF Opens
        <3>2. body \in Seq(Byte)
            BY BlockType
        <3>3. goal' = "pump" => buffer' = <<>>
            BY <3>1
        <3>4. goal' = "pump" => indexAfterBlankLine(buffer') = 0
            BY <3>3, NothingLeft
        <3>5. UNCHANGED <<executor, queue, failure, emitted, refused>>
            BY <2>2 DEF Opens
        <3>6. done' \in BOOLEAN
            BY <3>1
        <3>7. phase' \in {"reading", "draining"} /\ goal' \in {"error", "inline", "pump"}
              /\ upstream' \in {"open", "none"}
            BY <3>1
        <3> QED
            BY <3>1, <3>2, <3>4, <3>5, <3>6, <3>7
    <2>3. CASE DrainFails
        BY <2>3 DEF DrainFails
    <2>4. CASE DrainEnds
        <3>1. emitted' \in Seq(Seq(Byte))
            BY <2>4, SplitType DEF DrainEnds
        <3> QED
            BY <2>4, <3>1 DEF DrainEnds
    <2>5. CASE ReadFails
        BY <2>5 DEF ReadFails
    <2>6. CASE Emit
        <3>1. emitted' \in Seq(Seq(Byte)) /\ queue' \in Seq(Seq(Byte))
            BY <2>6, EmittedNext DEF Emit
        <3> QED
            BY <2>6, <3>1 DEF Emit
    <2>7. CASE EmitRefused
        BY <2>7 DEF EmitRefused
    <2>8. CASE BlockEmitted
        <3>1. queue' \in Seq(Seq(Byte))
            BY <2>8, SplitType DEF BlockEmitted
        <3>2. phase' \in {"flushing", "reading"}
            BY <2>8 DEF BlockEmitted
        <3> QED
            BY <2>8, <3>1, <3>2 DEF BlockEmitted
    <2>9. CASE Flushed
        BY <2>9 DEF Flushed
    <2>10. CASE CloseExecutor
        BY <2>10 DEF CloseExecutor
    <2>11. CASE CloseUpstream
        BY <2>11 DEF CloseUpstream
    <2> QED
        BY <1>1, <2>1, <2>2, <2>3, <2>4, <2>5, <2>6, <2>7, <2>8, <2>9, <2>10, <2>11 DEF Rest
<1>2. ASSUME NEW block \in Blocks, NEW last \in BOOLEAN, DrainBlock(block, last)
      PROVE  TypeOK'
    <2>1. received \o block \in Seq(Byte) /\ buffer \o block \in Seq(Byte)
        BY BlockType, ConcatProperties
    <2>2. goal # "pump"
        BY <1>2 DEF DrainBlock, Draining, Phases
    <2> QED
        BY <1>2, <2>1, <2>2 DEF DrainBlock
<1>3. ASSUME NEW block \in Blocks, NEW last \in BOOLEAN, ReadBlock(block, last)
      PROVE  TypeOK'
    <2>1. received \o block \in Seq(Byte) /\ buffer \o block \in Seq(Byte)
        BY BlockType, ConcatProperties
    <2> DEFINE s == buffer \o block
    <2>2. queue' = Taken[s].events /\ buffer' = Taken[s].tail
        BY <1>3 DEF ReadBlock, takeSSEEvents
    <2>3. queue' \in Seq(Seq(Byte)) /\ buffer' \in Seq(Byte) /\ indexAfterBlankLine(buffer') = 0
        <3> HIDE DEF s
        <3>1. s \in Seq(Byte)
            BY <2>1 DEF s
        <3> QED
            BY <2>2, <3>1, TakenType, NothingLeft
    <2> QED
        BY <1>3, <2>1, <2>3 DEF ReadBlock
<1>4. CASE UNCHANGED vars
    BY <1>4 DEF vars
<1> QED
    BY <1>1, <1>2, <1>3, <1>4 DEF Next, Read

\* The invariant holds at first.
LEMMA RelayInit == Init => RelayInv
<1> SUFFICES ASSUME Init PROVE RelayInv
    OBVIOUS
<1>1. Phases /\ NotOpened /\ Whole /\ Drained /\ ErrorBodyIsBounded
    BY DEF Init, Phases, NotOpened, Whole, Drained, ErrorBodyIsBounded
<1>2. Framing /\ Flushing /\ GoingOn /\ Over /\ Closed
    BY DEF Init, Framing, Flushing, GoingOn, Over, Closed
<1> QED
    BY <1>1, <1>2 DEF RelayInv

\* Every step keeps the invariant; a block that is read is CutsDoNotMatter.
LEMMA RelayStep == TypeOK /\ RelayInv /\ [Next]_vars => RelayInv'
<1> SUFFICES ASSUME TypeOK, RelayInv, [Next]_vars PROVE RelayInv'
    OBVIOUS
<1> USE DEF RelayInv
<1>0. /\ executor \in {"none", "open", "ended", "failed"} /\ goal \in {"none", "error", "inline", "pump"}
      /\ buffer \in Seq(Byte) /\ received \in Seq(Byte)
      /\ queue \in Seq(Seq(Byte)) /\ emitted \in Seq(Seq(Byte))
      /\ \A a \in Seq(Seq(Byte)) : a \o <<>> = a
    BY ConcatEmptySeq DEF TypeOK
<1>1. CASE OpenFails
    BY <1>1 DEF OpenFails, Phases, NotOpened, Whole, Drained, ErrorBodyIsBounded, Framing, Flushing,
                GoingOn, Over, Closed
<1>2. CASE Opens
    <2>1. PICK open \in BOOLEAN, ok \in BOOLEAN, body \in Blocks :
            /\ open => body = <<>>
            /\ upstream' = IF open THEN "open" ELSE "none"
            /\ goal' = IF ~ok THEN "error"
                       ELSE IF open /\ executor = "open" THEN "pump" ELSE "inline"
            /\ phase' = IF goal' = "pump" THEN "reading" ELSE "draining"
            /\ buffer' = body /\ received' = body
            /\ done' = ~open
        BY <1>2 DEF Opens
    <2>2. phase = "opening" /\ UNCHANGED <<executor, queue, failure, emitted, refused>>
        BY <1>2 DEF Opens
    <2>3. goal = "none" /\ queue = <<>> /\ emitted = <<>> /\ ~failure /\ ~refused
        BY <2>2 DEF Phases, NotOpened
    <2>4. Phases' /\ NotOpened' /\ Whole' /\ Drained'
        BY <2>1, <2>2 DEF Phases, NotOpened, Whole, Drained
    <2>5. ErrorBodyIsBounded'
        <3>1. upstream' # "none" => received' = <<>>
            BY <2>1
        <3>2. Len(<<>>) = 0 /\ 0 < MaxErrorBody + MaxChunk
            BY BoundAssumption
        <3> QED
            BY <3>1, <3>2 DEF ErrorBodyIsBounded
    <2>6. Framing'
        <3> SUFFICES ASSUME phase' \in {"reading", "emitting"} PROVE Framing'
            BY DEF Framing
        <3>1. buffer' = <<>> /\ received' = <<>> /\ queue' = <<>> /\ emitted' = <<>>
            BY <2>1, <2>2, <2>3
        <3>2. Taken[<<>>].tail = <<>> /\ Taken[<<>>].events = <<>> /\ <<>> \o <<>> = <<>>
            BY TakenEmpty
        <3> QED
            BY <3>1, <3>2, Zenon DEF Framing
    <2>7. Flushing' /\ GoingOn' /\ Over' /\ Closed'
        BY <2>1, <2>2, <2>3 DEF Flushing, GoingOn, Over, Closed
    <2> QED
        BY <2>4, <2>5, <2>6, <2>7
<1>3. CASE DrainFails
    BY <1>3 DEF DrainFails, Draining, Phases, NotOpened, Whole, Drained, ErrorBodyIsBounded, Framing,
                Flushing, GoingOn, Over, Closed
<1>4. CASE DrainEnds
    <2>1. Drained'
        BY <1>4 DEF DrainEnds, Whole, Drained
    <2>2. ErrorBodyIsBounded'
        BY <1>4 DEF DrainEnds, ErrorBodyIsBounded
    <2> QED
        BY <1>0, <1>4, <2>1, <2>2 DEF DrainEnds, Phases, NotOpened, Whole, Framing, Flushing, GoingOn, Over, Closed
<1>5. CASE ReadFails
    <2>1. emitted = Taken[received].events /\ ~refused
        BY <1>0, <1>5 DEF ReadFails, Framing, GoingOn
    <2> QED
        BY <1>5, <2>1 DEF ReadFails, Phases, NotOpened, Whole, Drained, ErrorBodyIsBounded, Framing,
                Flushing, GoingOn, Over, Closed
<1>6. CASE Emit
    <2>1. emitted' \o queue' = emitted \o queue
        BY <1>0, <1>6, EmittedNext DEF Emit
    <2> QED
        BY <1>6, <2>1 DEF Emit, Phases, NotOpened, Whole, Drained, ErrorBodyIsBounded, Framing,
                Flushing, GoingOn, Over, Closed
<1>7. CASE EmitRefused
    <2>1. IsPrefix(emitted, splitSSEEvents(received))
        BY <1>0, <1>7, EmittedIsPrefix DEF EmitRefused, Framing, Flushing
    <2> QED
        BY <1>7, <2>1 DEF EmitRefused, Phases, NotOpened, Whole, Drained, ErrorBodyIsBounded, Framing,
                Flushing, GoingOn, Over, Closed
<1>8. CASE BlockEmitted
    <2>1. emitted = Taken[received].events /\ buffer = Taken[received].tail
        BY <1>0, <1>8 DEF BlockEmitted, Framing
    <2>2. done => Flushing'
        <3>1. Taken[received].events \o splitSSEEvents(Taken[received].tail) = splitSSEEvents(received)
            BY <1>0, FlushedAll
        <3> QED
            BY <1>8, <2>1, <3>1 DEF BlockEmitted, Flushing
    <2>3. ~done => Flushing'
        BY <1>8 DEF BlockEmitted, Flushing
    <2>4. Framing'
        BY <1>8 DEF BlockEmitted, Framing
    <2> QED
        BY <1>8, <2>2, <2>3, <2>4 DEF BlockEmitted, Phases, NotOpened, Whole, Drained, ErrorBodyIsBounded,
                GoingOn, Over, Closed
<1>9. CASE Flushed
    <2>1. done /\ emitted = splitSSEEvents(received)
        BY <1>0, <1>9 DEF Flushed, Flushing
    <2> QED
        BY <1>9, <2>1 DEF Flushed, Phases, NotOpened, Whole, Drained, ErrorBodyIsBounded, Framing,
                Flushing, GoingOn, Over, Closed
<1>10. CASE CloseExecutor
    BY <1>10 DEF CloseExecutor, Phases, NotOpened, Whole, Drained, ErrorBodyIsBounded, Framing,
                Flushing, GoingOn, Over, Closed
<1>11. CASE CloseUpstream
    BY <1>11 DEF CloseUpstream, Phases, NotOpened, Whole, Drained, ErrorBodyIsBounded, Framing,
                Flushing, GoingOn, Over, Closed
<1>12. ASSUME NEW block \in Blocks, NEW last \in BOOLEAN, DrainBlock(block, last)
       PROVE  RelayInv'
    <2>1. goal \in {"error", "inline"} /\ buffer = received
        BY <1>12 DEF DrainBlock, Draining, Phases, Whole
    <2>2. ErrorBodyIsBounded'
        <3> SUFFICES ASSUME goal = "error" PROVE Len(received') < MaxErrorBody + MaxChunk
            BY <1>12 DEF DrainBlock, ErrorBodyIsBounded
        <3>1. ~(Len(received) >= MaxErrorBody) /\ received' = received \o block
            BY <1>12, <2>1 DEF DrainBlock, Draining, ReadEnough
        <3>2. /\ Len(received') = Len(received) + Len(block) /\ Len(received) \in Nat
              /\ Len(block) \in Nat /\ Len(block) <= MaxChunk
            BY <1>0, <3>1, BlockType, ConcatProperties, LenProperties
        <3>3. MaxChunk \in Nat /\ MaxErrorBody \in Nat
            BY BoundAssumption
        <3>4. Len(received) < MaxErrorBody
            BY <3>1, <3>2, <3>3
        <3> QED
            BY <3>2, <3>3, <3>4
    <2> QED
        BY <1>12, <2>1, <2>2 DEF DrainBlock, Draining, Phases, NotOpened, Whole, Drained, Framing,
                Flushing, GoingOn, Over, Closed
<1>13. ASSUME NEW block \in Blocks, NEW last \in BOOLEAN, ReadBlock(block, last)
       PROVE  RelayInv'
    <2> DEFINE s == received \o block
    <2>1. queue' = Taken[buffer \o block].events /\ buffer' = Taken[buffer \o block].tail
        BY <1>13 DEF ReadBlock, takeSSEEvents
    <2>2. emitted = Taken[received].events /\ buffer = Taken[received].tail
        BY <1>0, <1>13 DEF ReadBlock, Framing
    <2>3. Taken[s] = [events |-> Taken[received].events \o Taken[buffer \o block].events,
                      tail |-> Taken[buffer \o block].tail]
        <3>1. received \in Seq(Byte) /\ block \in Seq(Byte)
            BY <1>0, BlockType
        <3>2. Taken[received \o block] =
                [events |-> Taken[received].events \o Taken[Taken[received].tail \o block].events,
                 tail |-> Taken[Taken[received].tail \o block].tail]
            BY <3>1, CutsDoNotMatter, Zenon DEF takeSSEEvents
        <3>3. Taken[received].tail = buffer
            BY <2>2
        <3> QED
            BY <3>2, <3>3, Zenon
    <2> HIDE DEF s
    <2>4. Taken[s].events = emitted \o queue' /\ Taken[s].tail = buffer'
        <3> DEFINE all == Taken[received].events \o Taken[buffer \o block].events
                   left == Taken[buffer \o block].tail
        <3>1. Taken[s] = [events |-> all, tail |-> left] /\ all = emitted \o queue' /\ left = buffer'
            BY <2>1, <2>2, <2>3, Zenon
        <3> HIDE DEF all, left
        <3>2. Taken[s].events = all /\ Taken[s].tail = left
            BY <3>1
        <3> QED
            BY <3>1, <3>2, Zenon
    <2>5. received' = s /\ emitted' = emitted /\ phase' = "emitting" /\ phase = "reading"
        BY <1>13 DEF ReadBlock, s
    <2>6. Framing'
        BY <2>4, <2>5 DEF Framing
    <2> QED
        BY <1>13, <2>5, <2>6 DEF ReadBlock, Phases, NotOpened, Whole, Drained, ErrorBodyIsBounded,
                Flushing, GoingOn, Over, Closed
<1>14. CASE UNCHANGED vars
    BY <1>14 DEF vars, Phases, NotOpened, Whole, Drained, ErrorBodyIsBounded, Framing,
                Flushing, GoingOn, Over, Closed
<1> QED
    BY <1>1, <1>2, <1>3, <1>4, <1>5, <1>6, <1>7, <1>8, <1>9, <1>10, <1>11, <1>12, <1>13, <1>14
       DEF Next, Read, Rest

\* The invariant holds always.
LEMMA Relayed == Spec => [](TypeOK /\ RelayInv)
<1>1. TypeOK /\ RelayInv /\ [Next]_vars => TypeOK' /\ RelayInv'
    BY TypeStep, RelayStep DEF RelayInv
<1> QED
    BY TypeInit, RelayInit, <1>1, PTL DEF Spec

-----------------------------------------------------------------------------

\* The state has its types, and the buffer of the goroutine of relayStream holds
\* no complete event once takeSSEEvents was through with it.
THEOREM TypeCorrect == Spec => []TypeOK
BY Relayed, PTL

\* relayStream gives its consumer the events of the byte stream, one for one and
\* in order, wherever upstream cuts the bytes: any bytes, cut in any way.
THEOREM EventsSurvive == Spec => []EventsSurviveTheCuts
<1>1. TypeOK /\ RelayInv => EventsSurviveTheCuts
    <2> SUFFICES ASSUME TypeOK, RelayInv, goal = "pump"
                 PROVE  /\ IsPrefix(emitted, AllEventsOf(received))
                        /\ phase \in {"reading", "emitting"} => emitted \o queue = EventsOf(received)
        BY DEF EventsSurviveTheCuts
    <2>1. /\ received \in Seq(Byte) /\ queue \in Seq(Seq(Byte)) /\ emitted \in Seq(Seq(Byte))
          /\ <<>> \in Seq(Seq(Byte)) /\ emitted \o <<>> = emitted
        BY EmptySeq, ConcatEmptySeq DEF TypeOK
    <2>2. Taken[received].events = EventsOf(received) /\ splitSSEEvents(received) = AllEventsOf(received)
        BY <2>1, FramingIsByLines DEF takeSSEEvents
    <2>3. CASE phase \in {"reading", "emitting"}
        <3>1. emitted \o queue = Taken[received].events
            BY <2>3 DEF RelayInv, Framing
        <3> QED
            BY <2>1, <2>2, <3>1, EmittedIsPrefix
    <2>4. CASE phase = "flushing"
        <3>1. emitted \o queue = splitSSEEvents(received)
            BY <2>4 DEF RelayInv, Flushing
        <3> QED
            BY <2>1, <2>2, <2>4, <3>1, EmittedIsPrefix
    <2>5. CASE phase \in {"stopping", "leaving", "returned"}
        <3>1. \/ emitted \o <<>> = Taken[received].events
              \/ emitted \o <<>> = splitSSEEvents(received)
              \/ IsPrefix(emitted, splitSSEEvents(received))
            BY <2>1, <2>5 DEF RelayInv, Over
        <3>2. IsPrefix(emitted, splitSSEEvents(received))
            BY <2>1, <3>1, EmittedIsPrefix
        <3> QED
            BY <2>2, <2>5, <3>2
    <2> QED
        BY <2>3, <2>4, <2>5 DEF TypeOK, RelayInv, Phases
<1> QED
    BY <1>1, Relayed, PTL

\* When CloseExecutor ends the executor stream without an error, the consumer has
\* gone or has had the whole response; with one, what was complete of it.
THEOREM EndIsTrue == Spec => []EndTellsTheTruth
<1>1. TypeOK /\ RelayInv => EndTellsTheTruth
    <2> SUFFICES ASSUME TypeOK, RelayInv PROVE EndTellsTheTruth
        OBVIOUS
    <2>1. received \in Seq(Byte)
        BY DEF TypeOK
    <2>2. Taken[received].events = EventsOf(received) /\ splitSSEEvents(received) = AllEventsOf(received)
        BY <2>1, FramingIsByLines DEF takeSSEEvents
    <2> QED
        BY <2>2 DEF EndTellsTheTruth, RelayInv, Closed, Over
<1> QED
    BY <1>1, Relayed, PTL

\* The buffered answer of ExecuteStream is every event of the bytes that it read,
\* by the definition by lines, an unfinished last one rounded off: also when the
\* reading ended in a failure, where a pumped answer stops at the complete events.
THEOREM InlineAnswers == Spec => []InlineHasEveryEvent
<1>1. TypeOK /\ RelayInv => InlineHasEveryEvent
    BY FramingIsByLines DEF TypeOK, InlineHasEveryEvent, RelayInv, Drained
<1> QED
    BY <1>1, Relayed, PTL

\* ExecuteStream reads less than a block more than maxStreamErrorBody of an error.
THEOREM ErrorBodiesAreBounded == Spec => []ErrorBodyIsBounded
<1>1. RelayInv => ErrorBodyIsBounded
    BY DEF RelayInv
<1> QED
    BY <1>1, Relayed, PTL

\* No call of ExecuteStream, and no goroutine that it leaves, returns with a stream
\* open that it has to close: the upstream one, and the executor one of a pump.
THEOREM NothingLeftOpen ==
    Spec => [](phase = "returned" =>
                    /\ upstream # "open"
                    /\ goal = "pump" => executor \in {"ended", "failed"})
<1> DEFINE Left == /\ phase = "returned" => upstream # "open"
                   /\ goal = "pump" /\ phase \in {"leaving", "returned"} =>
                            executor \in {"ended", "failed"}
<1>1. Init => Left
    BY DEF Init
<1>2. TypeOK /\ RelayInv /\ Left /\ [Next]_vars => Left'
    <2> SUFFICES ASSUME TypeOK, RelayInv, Left, [Next]_vars PROVE Left'
        OBVIOUS
    <2>1. Phases /\ NotOpened
        BY DEF RelayInv
    <2>2. CASE OpenFails
        BY <2>1, <2>2 DEF OpenFails, Phases, NotOpened
    <2>3. CASE DrainEnds
        BY <2>1, <2>3 DEF DrainEnds, Phases
    <2>4. CASE Opens
        <3>1. phase' \in {"reading", "draining"}
            BY <2>4 DEF Opens
        <3> QED
            BY <3>1
    <2>5. CASE DrainFails \/ ReadFails \/ Emit \/ EmitRefused \/ BlockEmitted \/ Flushed
        <3>1. phase' \notin {"leaving", "returned"}
            BY <2>5 DEF DrainFails, Draining, ReadFails, Emit, EmitRefused, BlockEmitted, Flushed
        <3> QED
            BY <3>1
    <2>6. CASE CloseExecutor
        BY <2>6 DEF CloseExecutor
    <2>7. CASE CloseUpstream
        BY <2>7 DEF CloseUpstream
    <2>8. CASE Read
        <3>1. phase' \notin {"leaving", "returned"}
            BY <2>8 DEF Read, DrainBlock, Draining, ReadBlock
        <3> QED
            BY <3>1
    <2>9. CASE UNCHANGED vars
        BY <2>9 DEF vars
    <2> QED
        BY <2>2, <2>3, <2>4, <2>5, <2>6, <2>7, <2>8, <2>9 DEF Next, Rest
<1>3. Left => (phase = "returned" =>
                    /\ upstream # "open"
                    /\ goal = "pump" => executor \in {"ended", "failed"})
    OBVIOUS
<1> HIDE DEF Left
<1> QED
    BY <1>1, <1>2, <1>3, Relayed, PTL DEF Spec

=============================================================================
