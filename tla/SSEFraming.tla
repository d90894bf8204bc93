----------------------------- MODULE SSEFraming ----------------------------
(***************************************************************************)
(* The framing of server-sent events in internal/executor/sse.go, byte by  *)
(* byte, and a reference definition by lines to compare it with.  Of the   *)
(* bytes only the carriage return, the newline, other white space and      *)
(* anything else are told apart.                                           *)
(***************************************************************************)
EXTENDS Integers, Sequences, FiniteSets, SequencesExt

CR == "\r"
LF == "\n"
Space == " "
Text == "x"
Byte == {CR, LF, Space, Text}

\* bytes.TrimSpace leaves nothing of it.
Blank(s) == \A i \in DOMAIN s : s[i] # Text

\* Every CR LF becomes LF.
WithLF[s \in Seq(Byte)] ==
    IF s = <<>> THEN <<>>
    ELSE IF Last(s) = LF /\ Len(s) > 1 /\ Last(Front(s)) = CR
    THEN Append(Front(WithLF[Front(s)]), LF)
    ELSE Append(WithLF[Front(s)], Last(s))

normalizeSSEEvent(event) ==
    LET s == WithLF[event]
    IN  CASE IsSuffix(<<LF, LF>>, s) -> s
          [] IsSuffix(<<LF>>, s) /\ ~IsSuffix(<<LF, LF>>, s) -> Append(s, LF)
          [] OTHER -> s \o <<LF, LF>>

\* Mutant: only a bare LF is a blank line.
EndsInLF(s) == {i \in 2 .. Len(s) : s[i] = LF /\ s[i - 1] = LF}

\* The lengths of the prefixes of s that end in a blank line.
Ends(s) ==
    {i \in 2 .. Len(s) :
        /\ s[i] = LF
        /\ s[i - 1] = LF \/ (i > 2 /\ s[i - 1] = CR /\ s[i - 2] = LF)}

\* 0 when the buffer holds no complete event yet.
indexAfterBlankLine(buffer) ==
    IF Ends(buffer) = {} THEN 0 ELSE Min(Ends(buffer))

\* Mutant: only the first event of a buffer is taken.
TakeFirstEvent(buffer) ==
    LET end == indexAfterBlankLine(buffer)
    IN  IF end = 0
        THEN [events |-> <<>>, tail |-> buffer]
        ELSE [events |-> <<normalizeSSEEvent(SubSeq(buffer, 1, end))>>,
              tail |-> SubSeq(buffer, end + 1, Len(buffer))]

\* The loop of takeSSEEvents, from any point on.
Taken[rest \in Seq(Byte)] ==
    LET end == indexAfterBlankLine(rest)
        more == Taken[SubSeq(rest, end + 1, Len(rest))]
    IN  IF end = 0
        THEN [events |-> <<>>, tail |-> rest]
        ELSE [events |-> <<normalizeSSEEvent(SubSeq(rest, 1, end))>> \o more.events,
              tail |-> more.tail]

\* The complete events of a buffer, and what is left of it.
takeSSEEvents(buffer) == Taken[buffer]

\* Mutant: what is left of the body is dropped.
SplitUnflushed(body) == takeSSEEvents(body).events

\* splitSSEEvents with flush set, as it always is.
splitSSEEvents(body) ==
    LET taken == takeSSEEvents(body)
    IN  IF Blank(taken.tail) THEN taken.events
        ELSE Append(taken.events, normalizeSSEEvent(taken.tail))

-----------------------------------------------------------------------------
(* By lines: "an event ends at a blank line, lines are normalised to \n" *)

Stripped(line) == IF line # <<>> /\ Last(line) = CR THEN Front(line) ELSE line

\* The next byte.  A blank line that no line precedes does not end an event.
ReadByte(at, b) ==
    LET line == Append(Stripped(at.line), LF)
    IN  IF b # LF
        THEN [at EXCEPT !.line = Append(at.line, b)]
        ELSE IF line = <<LF>> /\ at.event # <<>>
        THEN [events |-> Append(at.events, at.event \o line), event |-> <<>>, line |-> <<>>]
        ELSE [events |-> at.events, event |-> at.event \o line, line |-> <<>>]

\* The events complete after each byte, the lines of the next one, and its last
\* line so far.
ByLines[body \in Seq(Byte)] ==
    IF body = <<>> THEN [events |-> <<>>, event |-> <<>>, line |-> <<>>]
    ELSE ReadByte(ByLines[Front(body)], Last(body))

EventsOf(body) == ByLines[body].events

\* The events of a body that has ended, an unfinished last one included.
AllEventsOf(body) ==
    LET at == ByLines[body]
    IN  IF Blank(at.event \o at.line) THEN at.events
        ELSE IF at.line = <<>> THEN Append(at.events, Append(at.event, LF))
        ELSE Append(at.events, at.event \o at.line \o <<LF, LF>>)

=============================================================================
