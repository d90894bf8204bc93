-------------------------- MODULE DeviceKeyProofs --------------------------
(* Theorems about DeviceKey, for any number of callers and keys. *)
EXTENDS DeviceKey, TLAPS

\* Who has the mutex is alone, has found no identity in the cache, and has made a
\* key only because the file held none or could not be read.
OneHolder ==
    \A c, d \in Callers :
        caller[c].stage # "idle" /\ caller[d].stage # "idle" => c = d

HolderFoundNone == \A c \in Callers : caller[c].stage # "idle" => cachedID = NoKey

Making == {"generated", "opened", "written"}

MakerHadReason ==
    \A c \in Callers :
        caller[c].stage \in Making /\ file \in Keys => caller[c].missed = file

IInv ==
    /\ TypeOK
    /\ OneHolder /\ HolderFoundNone /\ MakerHadReason
    /\ OneDevice /\ KeyIsWhole

LEMMA InitIInv == Init => IInv
  BY BoundAssumption
  DEF Init, IInv, TypeOK, OneHolder, HolderFoundNone, MakerHadReason, OneDevice,
      KeyIsWhole, IdleCaller, Contents, Keys, NoKey, Torn, Making

LEMMA StepIInv == IInv /\ [Next]_vars => IInv'
<1> USE BoundAssumption
        DEF IInv, TypeOK, OneHolder, HolderFoundNone, MakerHadReason, OneDevice,
            KeyIsWhole, IdleCaller, Contents, Keys, NoKey, Torn, Making
<1> SUFFICES ASSUME IInv, [Next]_vars PROVE IInv'
  OBVIOUS
<1>1. ASSUME NEW c \in Callers, Cached(c) PROVE IInv'
  BY <1>1 DEF Cached, Free
<1>2. ASSUME NEW c \in Callers, Lock(c) PROVE IInv'
  BY <1>2 DEF Lock, Free
<1>3. ASSUME NEW c \in Callers, ReadKey(c) PROVE IInv'
  BY <1>3 DEF ReadKey, Return, Legible
<1>4. ASSUME NEW c \in Callers, Generate(c) PROVE IInv'
  <2>1. /\ caller[c].stage = "reading" /\ made' \in Keys /\ made' \in 0 .. MaxKeys
        /\ UNCHANGED <<file, temp, cachedID, used>>
    BY <1>4 DEF Generate
  <2>2. \A d \in Callers \ {c} : caller'[d] = caller[d] /\ caller[d].stage = "idle"
    BY <1>4 DEF Generate
  <2>3. caller'[c] = [stage |-> "generated", key |-> made',
                      missed |-> IF file \in Keys THEN file ELSE NoKey]
    BY <1>4 DEF Generate, Legible
  <2>4. DOMAIN caller' = Callers /\ caller' = [d \in Callers |-> caller'[d]]
    BY <1>4 DEF Generate
  <2>5. TypeOK'
    BY <2>1, <2>2, <2>3, <2>4
  <2>6. OneHolder' /\ HolderFoundNone' /\ MakerHadReason' /\ OneDevice' /\ KeyIsWhole'
    BY <2>1, <2>2, <2>3
  <2>7. QED
    BY <2>5, <2>6
<1>5. ASSUME NEW c \in Callers, GenerateFails(c) PROVE IInv'
  BY <1>5 DEF GenerateFails
<1>6. ASSUME NEW c \in Callers, OpenTemp(c) PROVE IInv'
  BY <1>6 DEF OpenTemp
<1>7. ASSUME NEW c \in Callers, WriteTemp(c) PROVE IInv'
  BY <1>7 DEF WriteTemp
<1>8. ASSUME NEW c \in Callers, Rename(c) PROVE IInv'
  <2>1. /\ caller[c].stage = "written" /\ caller[c].key \in Keys
        /\ cachedID = NoKey /\ used = {}
    BY <1>8 DEF Rename
  <2>2. /\ cachedID' = caller[c].key /\ used' = {caller[c].key} /\ UNCHANGED made
        /\ file' = caller[c].key /\ temp' = NoKey
    BY <1>8, <2>1 DEF Rename, Return
  <2>3. caller' = [caller EXCEPT ![c] = IdleCaller]
    BY <1>8 DEF Rename, Return
  <2>4. \A d \in Callers : caller'[d].stage = "idle"
    BY <2>1, <2>3
  <2>5. caller' \in [Callers -> [stage : {"idle", "reading"} \cup Making,
                               key : Keys \cup {NoKey}, missed : Keys \cup {NoKey}]]
    BY <2>3
  <2>6. TypeOK'
    BY <2>1, <2>2, <2>4, <2>5
  <2>7. OneHolder' /\ HolderFoundNone' /\ MakerHadReason' /\ OneDevice' /\ KeyIsWhole'
    BY <2>1, <2>2, <2>4
  <2>8. QED
    BY <2>6, <2>7
<1>9. ASSUME NEW c \in Callers, NotPersisted(c) PROVE IInv'
  <2>1. /\ caller[c].stage \in Making /\ caller[c].key \in Keys
        /\ cachedID = NoKey /\ used = {}
    BY <1>9 DEF NotPersisted
  <2>2. /\ cachedID' = caller[c].key /\ used' = {caller[c].key} /\ UNCHANGED made
        /\ UNCHANGED <<file, temp>>
    BY <1>9, <2>1 DEF NotPersisted, Return
  <2>3. caller' = [caller EXCEPT ![c] = IdleCaller]
    BY <1>9 DEF NotPersisted, Return
  <2>4. \A d \in Callers : caller'[d].stage = "idle"
    BY <2>1, <2>3
  <2>5. caller' \in [Callers -> [stage : {"idle", "reading"} \cup Making,
                               key : Keys \cup {NoKey}, missed : Keys \cup {NoKey}]]
    BY <2>3
  <2>6. TypeOK'
    BY <2>1, <2>2, <2>4, <2>5
  <2>7. OneHolder' /\ HolderFoundNone' /\ MakerHadReason' /\ OneDevice' /\ KeyIsWhole'
    BY <2>1, <2>2, <2>4
  <2>8. QED
    BY <2>6, <2>7
<1>10. CASE Crash
  BY <1>10 DEF Crash
<1>11. CASE UNCHANGED vars
  BY <1>11 DEF vars
<1>12. QED
  BY <1>1, <1>2, <1>3, <1>4, <1>5, <1>6, <1>7, <1>8, <1>9, <1>10, <1>11
  DEF Next, CallerStep

LEMMA Inductive == Spec => []IInv
  BY InitIInv, StepIInv, PTL DEF Spec

-----------------------------------------------------------------------------

\* The state has its types, and what a call has written to the temporary file is
\* its own key.
THEOREM TypeCorrect == Spec => []TypeOK
  BY Inductive, PTL DEF IInv

\* A process signs and mints as one device, whatever its callers do and however
\* its disk fails.
THEOREM OneIdentity == Spec => []OneDevice
  BY Inductive, PTL DEF IInv

\* No crash leaves a truncated key in the file.
THEOREM WholeKey == Spec => []KeyIsWhole
  BY Inductive, PTL DEF IInv

\* A key that was saved stays until a call cannot read it, over any restarts.
THEOREM KeyOutlivesCrashes == Spec => KeySurvives
<1>1. IInv /\ [Next]_vars
        => [file' # file /\ file \in Keys => \E c \in Callers : caller[c].missed = file]_vars
  <2> SUFFICES ASSUME IInv, [Next]_vars, file' # file, file \in Keys
               PROVE \E c \in Callers : caller[c].missed = file
    OBVIOUS
  <2>1. PICK c \in Callers : Rename(c)
    BY DEF Next, CallerStep, vars, Cached, Lock, ReadKey, Generate, GenerateFails, OpenTemp,
           WriteTemp, NotPersisted, Return, Crash
  <2>2. QED
    BY <2>1 DEF Rename, IInv, MakerHadReason, Making
<1>2. QED
  BY <1>1, Inductive, PTL DEF Spec, KeySurvives

=============================================================================
