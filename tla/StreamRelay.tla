---------------------------- MODULE StreamRelay ----------------------------
(***************************************************************************)
(* One executor.execute_stream call (internal/executor/executor.go): the   *)
(* host opens the upstream response, and the plugin reads an error body,   *)
(* or buffers the events and answers with them, or leaves a goroutine that *)
(* pumps them into the executor stream of the host (relayStream).          *)
(*                                                                         *)
(* Upstream hands out byte blocks cut anywhere, and may fail or end with   *)
(* any of them; the consumer of the events may go away at any of them.     *)
(***************************************************************************)
EXTENDS SSEFraming

CONSTANTS
    MaxBytes,       \* bound on the bytes upstream sends
    MaxChunk,       \* bound on a block of them
    MaxErrorBody    \* maxStreamErrorBody

ASSUME BoundAssumption == {MaxBytes, MaxChunk, MaxErrorBody} \subseteq Nat \ {0}

VARIABLES
    phase,      \* where the call, or the goroutine it left, is
    goal,       \* what becomes of the response: "error", "inline" or "pump"
    upstream,   \* the upstream stream: "none", "open" or "closed"
    executor,   \* the executor stream: "none", "open", "ended" or "failed"
    buffer,     \* bytes read and not yet framed
    queue,      \* events framed and not yet emitted
    done,       \* upstream has said that this is all
    failure,    \* upstream has failed
    received,   \* every byte read
    emitted,    \* every event the consumer took, or the inline answer
    refused     \* the consumer has gone

vars == <<phase, goal, upstream, executor, buffer, queue, done, failure,
          received, emitted, refused>>

Blocks == BoundedSeq(Byte, MaxChunk)

Init ==
    /\ phase = "opening" /\ goal = "none"
    /\ upstream = "none"
    /\ executor \in {"none", "open"}
    /\ buffer = <<>> /\ queue = <<>>
    /\ done = FALSE /\ failure = FALSE
    /\ received = <<>> /\ emitted = <<>> /\ refused = FALSE

-----------------------------------------------------------------------------
(* ExecuteStream *)

OpenFails ==
    /\ phase = "opening"
    /\ phase' = "returned"
    /\ UNCHANGED <<goal, upstream, executor, buffer, queue, done, failure,
                   received, emitted, refused>>

\* The response is open, to be read block by block, or comes with its blocks.
Opens ==
    /\ phase = "opening"
    /\ \E open \in BOOLEAN, ok \in BOOLEAN, body \in Blocks :
        /\ open => body = <<>>
        /\ upstream' = IF open THEN "open" ELSE "none"
        /\ goal' = IF ~ok THEN "error"
                   ELSE IF open /\ executor = "open" THEN "pump" ELSE "inline"
        /\ phase' = IF goal' = "pump" THEN "reading" ELSE "draining"
        /\ buffer' = body /\ received' = body
        /\ done' = ~open
    /\ UNCHANGED <<executor, queue, failure, emitted, refused>>

\* Mutant: an error body is read to its end.
ReadToTheEnd == FALSE

\* Only the body of an error has a limit.
ReadEnough == goal = "error" /\ Len(buffer) >= MaxErrorBody

Room(block) == Len(received) + Len(block) <= MaxBytes

Draining ==
    /\ phase = "draining" /\ upstream = "open"
    /\ ~ReadEnough /\ ~done /\ ~failure

DrainBlock(block, last) ==
    /\ Draining
    /\ Room(block)
    /\ buffer' = buffer \o block
    /\ received' = received \o block
    /\ done' = last
    /\ UNCHANGED <<phase, goal, upstream, executor, queue, failure, emitted, refused>>

\* What was read of a response that fails is kept.
DrainFails ==
    /\ Draining
    /\ failure' = TRUE
    /\ UNCHANGED <<phase, goal, upstream, executor, buffer, queue, done,
                   received, emitted, refused>>

\* The drained stream is closed, and the call answers.
DrainEnds ==
    /\ phase = "draining"
    /\ upstream = "none" \/ ReadEnough \/ done \/ failure
    /\ phase' = "returned"
    /\ upstream' = IF upstream = "open" THEN "closed" ELSE upstream
    /\ emitted' = IF goal = "inline" THEN splitSSEEvents(buffer) ELSE emitted
    /\ UNCHANGED <<goal, executor, buffer, queue, done, failure, received, refused>>

-----------------------------------------------------------------------------
(* relayStream *)

ReadBlock(block, last) ==
    /\ phase = "reading"
    /\ Room(block)
    /\ received' = received \o block
    /\ done' = last
    /\ LET taken == takeSSEEvents(buffer \o block)
       IN  queue' = taken.events /\ buffer' = taken.tail
    /\ phase' = "emitting"
    /\ UNCHANGED <<goal, upstream, executor, failure, emitted, refused>>

\* Mutant: a read that fails is taken for the end of the stream.
ReadFailsQuietly ==
    /\ phase = "reading"
    /\ phase' = "stopping"
    /\ UNCHANGED <<goal, upstream, executor, buffer, queue, done, failure,
                   received, emitted, refused>>

\* The host's call fails, or the block carries an error.
ReadFails ==
    /\ phase = "reading"
    /\ failure' = TRUE
    /\ phase' = "stopping"
    /\ UNCHANGED <<goal, upstream, executor, buffer, queue, done,
                   received, emitted, refused>>

Emit ==
    /\ phase \in {"emitting", "flushing"}
    /\ queue # <<>>
    /\ emitted' = Append(emitted, Head(queue))
    /\ queue' = Tail(queue)
    /\ UNCHANGED <<phase, goal, upstream, executor, buffer, done, failure,
                   received, refused>>

\* Mutant: the goroutine returns at once, and nobody closes its streams.
EmitRefusedAndLeft ==
    /\ phase \in {"emitting", "flushing"}
    /\ queue # <<>>
    /\ refused' = TRUE
    /\ phase' = "returned"
    /\ UNCHANGED <<goal, upstream, executor, buffer, queue, done, failure,
                   received, emitted>>

EmitRefused ==
    /\ phase \in {"emitting", "flushing"}
    /\ queue # <<>>
    /\ refused' = TRUE
    /\ phase' = "stopping"
    /\ UNCHANGED <<goal, upstream, executor, buffer, queue, done, failure,
                   received, emitted>>

\* On to the next block, or to what the last one has left.
BlockEmitted ==
    /\ phase = "emitting"
    /\ queue = <<>>
    /\ IF done
       THEN phase' = "flushing" /\ queue' = splitSSEEvents(buffer)
       ELSE phase' = "reading" /\ UNCHANGED queue
    /\ UNCHANGED <<goal, upstream, executor, buffer, done, failure, received,
                   emitted, refused>>

Flushed ==
    /\ phase = "flushing"
    /\ queue = <<>>
    /\ phase' = "stopping"
    /\ UNCHANGED <<goal, upstream, executor, buffer, queue, done, failure,
                   received, emitted, refused>>

CloseExecutor ==
    /\ phase = "stopping"
    /\ executor' = IF failure THEN "failed" ELSE "ended"
    /\ phase' = "leaving"
    /\ UNCHANGED <<goal, upstream, buffer, queue, done, failure, received,
                   emitted, refused>>

\* The deferred HTTPStreamClose.
CloseUpstream ==
    /\ phase = "leaving"
    /\ upstream' = "closed"
    /\ phase' = "returned"
    /\ UNCHANGED <<goal, executor, buffer, queue, done, failure, received,
                   emitted, refused>>

Read ==
    \E block \in Blocks, last \in BOOLEAN :
        DrainBlock(block, last) \/ ReadBlock(block, last)

Rest ==
    \/ OpenFails \/ Opens
    \/ DrainFails \/ DrainEnds
    \/ ReadFails
    \/ Emit \/ EmitRefused \/ BlockEmitted \/ Flushed
    \/ CloseExecutor \/ CloseUpstream

Next == Read \/ Rest

\* What was read is dealt with, since the calls to the host return, and a
\* response that is read on and on has an end.  Nobody waits for the opening.
Fairness ==
    /\ WF_vars(DrainEnds)
    /\ WF_vars(Emit \/ EmitRefused) /\ WF_vars(BlockEmitted) /\ WF_vars(Flushed)
    /\ WF_vars(CloseExecutor) /\ WF_vars(CloseUpstream)
    /\ SF_vars(ReadBlock(<<>>, TRUE)) /\ SF_vars(DrainBlock(<<>>, TRUE))

Spec == Init /\ [][Next]_vars /\ Fairness

-----------------------------------------------------------------------------

\* The state has its types, and the buffer of the goroutine holds no complete
\* event once it was framed.
TypeOK ==
    /\ phase \in {"opening", "draining", "reading", "emitting", "flushing",
                  "stopping", "leaving", "returned"}
    /\ goal \in {"none", "error", "inline", "pump"}
    /\ upstream \in {"none", "open", "closed"}
    /\ executor \in {"none", "open", "ended", "failed"}
    /\ buffer \in Seq(Byte) /\ received \in Seq(Byte)
    /\ queue \in Seq(Seq(Byte)) /\ emitted \in Seq(Seq(Byte))
    /\ {done, failure, refused} \subseteq BOOLEAN
    /\ goal = "pump" => indexAfterBlankLine(buffer) = 0

\* However upstream cuts its bytes, the consumer gets the events of the byte
\* stream, one for one and in order: none is lost, split or doubled at the
\* border of two blocks ("re-framed into complete SSE events", relayStream).
EventsSurviveTheCuts ==
    goal = "pump" =>
        /\ IsPrefix(emitted, AllEventsOf(received))
        /\ phase \in {"reading", "emitting"} => emitted \o queue = EventsOf(received)

\* The executor stream ends without an error only when the consumer has gone,
\* or has had everything of a response that was complete, an unterminated last
\* event included; with an error, it has had the events that were complete.
EndTellsTheTruth ==
    /\ executor = "ended" =>
        refused \/ (done /\ emitted = AllEventsOf(received))
    /\ executor = "failed" => ~refused /\ emitted = EventsOf(received)

\* A buffered answer is every event of what was read, an unfinished last one
\* rounded off (drainStream, splitSSEEvents).  So it has what a pumped answer
\* has of a response that was complete; of one that failed under way it has the
\* rounded-off event on top, and no error (EndTellsTheTruth has the pumped one).
InlineHasEveryEvent ==
    goal = "inline" /\ phase = "returned" => emitted = AllEventsOf(received)

\* "maxStreamErrorBody bounds how much of a failed streaming response is read
\* back": less than one block more than it.
ErrorBodyIsBounded ==
    goal = "error" /\ upstream # "none" => Len(received) < MaxErrorBody + MaxChunk

\* Whatever upstream and the consumer do, both streams of a call are closed in
\* the end: the upstream one if it was opened, the executor one if the goroutine
\* was left to close it.
StreamsAreReleased ==
    /\ (upstream = "open" ~> upstream = "closed")
    /\ (goal = "pump" ~> executor \in {"ended", "failed"})

=============================================================================
