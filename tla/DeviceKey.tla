----------------------------- MODULE DeviceKey -----------------------------
(***************************************************************************)
(* The device key (internal/relaysig/relaysig.go): loadIdentity reads it   *)
(* from its file, or makes one and writes it there through a temporary     *)
(* file, and caches it for the life of the process.  Requests and mints    *)
(* call it at the same time; the proxy may crash at any step, and the disk *)
(* may fail at any.  One process at a time uses the path.                  *)
(***************************************************************************)
EXTENDS Integers, FiniteSets

CONSTANTS
    Callers,    \* requests and mints at once
    MaxKeys     \* bound on the keys made

ASSUME BoundAssumption == MaxKeys \in Nat \ {0}

VARIABLES
    file,       \* what is in the file at deviceKeyPath
    temp,       \* what is in the temporary file beside it
    cachedID,   \* the identity of the process, 0 before there is one
    caller,     \* where each call of loadIdentity is
    made,       \* how many keys were made
    used        \* the identities handed out since the process started

vars == <<file, temp, cachedID, caller, made, used>>

Keys == 1 .. MaxKeys
NoKey == 0
Torn == -1
Contents == Keys \cup {NoKey, Torn}

IdleCaller == [stage |-> "idle", key |-> NoKey, missed |-> NoKey]

Init ==
    /\ file = NoKey /\ temp = NoKey
    /\ cachedID = NoKey
    /\ caller = [c \in Callers |-> IdleCaller]
    /\ made = 0
    /\ used = {}

\* Mutant: there is no mutex.
Unlocked == TRUE

\* identityMu is held from the first look at the cache to the return.
Free == \A c \in Callers : caller[c].stage = "idle"

Cached(c) ==
    /\ Free /\ cachedID # NoKey
    /\ used' = used \cup {cachedID}
    /\ UNCHANGED <<file, temp, cachedID, caller, made>>

Lock(c) ==
    /\ caller[c].stage = "idle"
    /\ Free /\ cachedID = NoKey
    /\ caller' = [caller EXCEPT ![c].stage = "reading"]
    /\ UNCHANGED <<file, temp, cachedID, made, used>>

Return(c, id) ==
    /\ cachedID' = id
    /\ used' = used \cup {id}
    /\ caller' = [caller EXCEPT ![c] = IdleCaller]

\* Mutant: the key is not recognised when it is read back.
NeverLegible(content) == FALSE

Legible(content) == content \in Keys

ReadKey(c) ==
    /\ caller[c].stage = "reading"
    /\ Legible(file)
    /\ Return(c, file)
    /\ UNCHANGED <<file, temp, made>>

\* There is no legible key, or the file that holds one could not be read.
Generate(c) ==
    /\ caller[c].stage = "reading"
    /\ made < MaxKeys
    /\ made' = made + 1
    /\ caller' = [caller EXCEPT ![c] = [stage |-> "generated", key |-> made',
                                        missed |-> IF Legible(file) THEN file ELSE NoKey]]
    /\ UNCHANGED <<file, temp, cachedID, used>>

\* No randomness: the request goes out unsigned, or the mint fails.
GenerateFails(c) ==
    /\ caller[c].stage = "reading"
    /\ caller' = [caller EXCEPT ![c] = IdleCaller]
    /\ UNCHANGED <<file, temp, cachedID, made, used>>

\* Mutant: the file itself is opened and truncated.
OpenInPlace(c) ==
    /\ caller[c].stage = "generated"
    /\ file' = Torn
    /\ caller' = [caller EXCEPT ![c].stage = "opened"]
    /\ UNCHANGED <<temp, cachedID, made, used>>

OpenTemp(c) ==
    /\ caller[c].stage = "generated"
    /\ temp' = Torn
    /\ caller' = [caller EXCEPT ![c].stage = "opened"]
    /\ UNCHANGED <<file, cachedID, made, used>>

WriteTemp(c) ==
    /\ caller[c].stage = "opened"
    /\ temp' = caller[c].key
    /\ caller' = [caller EXCEPT ![c].stage = "written"]
    /\ UNCHANGED <<file, cachedID, made, used>>

Rename(c) ==
    /\ caller[c].stage = "written"
    /\ file' = temp /\ temp' = NoKey
    /\ Return(c, caller[c].key)
    /\ UNCHANGED made

\* There is no path, or the directory, the temporary file or the rename fails:
\* the key is used all the same.
NotPersisted(c) ==
    /\ caller[c].stage \in {"generated", "opened", "written"}
    /\ Return(c, caller[c].key)
    /\ UNCHANGED <<file, temp, made>>

\* The proxy goes down, and comes up again.
Crash ==
    /\ cachedID' = NoKey
    /\ caller' = [c \in Callers |-> IdleCaller]
    /\ used' = {}
    /\ UNCHANGED <<file, temp, made>>

CallerStep(c) ==
    \/ Cached(c) \/ Lock(c) \/ ReadKey(c) \/ Generate(c) \/ GenerateFails(c)
    \/ OpenTemp(c) \/ WriteTemp(c) \/ Rename(c) \/ NotPersisted(c)

Next == (\E c \in Callers : CallerStep(c)) \/ Crash

Spec == Init /\ [][Next]_vars

-----------------------------------------------------------------------------

\* The state has its types, and the temporary file of a call that has written it
\* holds the key of that call.
TypeOK ==
    /\ file \in Contents /\ temp \in Contents
    /\ cachedID \in Keys \cup {NoKey}
    /\ caller \in [Callers -> [stage : {"idle", "reading", "generated", "opened", "written"},
                               key : Keys \cup {NoKey}, missed : Keys \cup {NoKey}]]
    /\ made \in 0 .. MaxKeys
    /\ used \subseteq Keys
    /\ \A c \in Callers :
        /\ caller[c].stage \in {"generated", "opened", "written"} => caller[c].key \in Keys
        /\ caller[c].stage = "written" => temp = caller[c].key

\* All that a process signs and mints, it signs and mints as one device, which
\* is the one in its cache: the ticket of one key is never used with another.
OneDevice == used \subseteq {cachedID}

\* "A crash mid-write cannot leave a truncated key that would be discarded on the
\* next start" (writeDeviceKey).
KeyIsWhole == file # Torn

\* The device survives restarts: a key that was saved is replaced only by a call
\* that could not read it.
KeySurvives ==
    [][file' # file /\ file \in Keys => \E c \in Callers : caller[c].missed = file]_vars

=============================================================================
