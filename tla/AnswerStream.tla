---------------------------- MODULE AnswerStream ----------------------------
(***************************************************************************)
(* An Assist answer on its way from the daemon's event stream to the chat   *)
(* log: chunks of bytes to lines to frames (client._iter_sse_frames), frames *)
(* to deltas (streaming.assistant_delta_stream).                            *)
(*                                                                          *)
(* A line travels as two halves, the second with its newline, so a chunk    *)
(* may end inside a line.  The JSON of a data field is a value, in one data *)
(* line or cut into two; halves of different values do not parse and are    *)
(* passed on as text.                                                       *)
(***************************************************************************)
EXTENDS Naturals, SequencesExt

CONSTANTS
    Answer,       \* the daemon's answer, as the pieces the model produced
    Garbled,      \* what a data field that is no JSON is taken for
    EmptyDeltas   \* the daemon may send a delta frame that adds nothing

ASSUME AnswerAssumption == Answer \in Seq(STRING) /\ Garbled \in STRING /\ EmptyDeltas \in BOOLEAN

VARIABLES
    body,     \* the response: what it streams, how it cuts its values and where it stops
    fed,      \* how many halves of lines have arrived
    buffer,   \* buffer: the halves that are no complete line yet
    field,    \* event, data_lines and seen_field of _iter_sse_frames
    started,  \* started: a delta has been passed to the chat log
    said,     \* the text passed to the chat log, as pieces
    held,     \* final_holder: nothing, a result or an error
    stream    \* "open", "ended" or "failed": how the chat log's source ended

streamVars == <<body, fed, buffer, field, started, said, held, stream>>

NoField == [event |-> "message", data |-> <<>>, seen |-> FALSE]

-----------------------------------------------------------------------------
(* What the daemon sends.                                                      *)

Event(name) == [field |-> "event", name |-> name, data |-> <<>>]
Data(v, half) == [field |-> "data", name |-> "", data |-> <<v, half>>]
Comment == [field |-> "comment", name |-> "", data |-> <<>>]
Blank == [field |-> "blank", name |-> "", data |-> <<>>]

\* A delta frame: a piece, and the answer up to it.
Delta(piece, i) == [event |-> "delta", data |-> [delta |-> piece, text |-> SubSeq(Answer, 1, i)]]

\* The lines of a frame: its event, a comment to keep the connection alive, the value in one
\* line or in two, a blank line.
Framed(frame, cut) ==
    IF cut THEN <<Event(frame.event), Comment, Data(frame.data, "first"), Data(frame.data, "second"), Blank>>
    ELSE <<Event(frame.event), Comment, Data(frame.data, "whole"), Blank>>

\* A daemon of SDK 1.3.0 streams every piece, or as many as it had when the turn failed; an
\* older one sends only the end.  Each response may cut its values in two, and may stop short of
\* the last blank line or of the last newline.
Bodies ==
    {b \in [pieces : 0..Len(Answer), empty : {FALSE, EmptyDeltas}, end : {"final", "error"},
            cut : BOOLEAN, closed : BOOLEAN, newline : BOOLEAN] :
        b.end = "final" => b.pieces \in {0, Len(Answer)}}

\* The pieces streamed as they came, then the end of the turn.
Frames(b) ==
    [i \in 1..b.pieces |-> Delta(<<Answer[i]>>, i)]
    \o (IF b.empty THEN <<Delta(<<>>, b.pieces)>> ELSE <<>>)
    \o <<[event |-> b.end, data |-> [delta |-> <<>>, text |-> Answer]]>>

\* The lines of a response; every frame has as many, and the last blank one may be missing.
Lines(b) ==
    LET frames == Frames(b)
        width == IF b.cut THEN 5 ELSE 4
        all == [k \in 1 .. Len(frames) * width |->
                    Framed(frames[((k - 1) \div width) + 1], b.cut)[((k - 1) % width) + 1]]
    IN  SubSeq(all, 1, Len(all) - (IF b.closed THEN 0 ELSE 1))

\* The bytes: two halves a line, the second ends with the newline unless the response ends there.
Halves(b) ==
    LET lines == Lines(b)
    IN  [i \in 1 .. 2 * Len(lines) |->
            <<lines[(i + 1) \div 2], IF i % 2 = 1 THEN "head"
                                     ELSE IF i = 2 * Len(lines) /\ ~b.newline THEN "bare" ELSE "rest">>]

StreamInit ==
    /\ body \in Bodies
    /\ fed = 0 /\ buffer = <<>> /\ field = NoField
    /\ started = FALSE /\ said = <<>> /\ held = "nothing" /\ stream = "open"

StreamTypeOK ==
    /\ body \in Bodies /\ fed \in 0 .. 10 * (Len(Answer) + 2)
    /\ Len(buffer) <= 2
    /\ \A i \in DOMAIN buffer :
        buffer[i][1].field \in {"event", "comment", "data", "blank"} /\ buffer[i][2] \in {"head", "bare"}
    /\ field.event \in {"message", "delta", "final", "error"} /\ field.seen \in BOOLEAN
    /\ started \in BOOLEAN /\ said \in Seq(STRING)
    /\ held \in {"nothing", "result", "error"} /\ stream \in {"open", "ended", "failed"}

-----------------------------------------------------------------------------
(* _iter_sse_frames                                                            *)

\* _parse: the lines are joined; what is no JSON stays text.
Parsed(data) ==
    IF data = <<>> THEN [delta |-> <<>>, text |-> <<>>]
    ELSE IF data \in {<<<<data[1][1], "whole">>>>, <<<<data[1][1], "first">>, <<data[1][1], "second">>>>}
    THEN data[1][1]
    ELSE [delta |-> <<Garbled>>, text |-> <<>>]

Frame(f) == [event |-> f.event, data |-> Parsed(f.data)]

\* One line: what it makes of the frame under way and of the frames found so far.
ReadLine(acc, line) ==
    CASE line = Blank ->
            [frames |-> IF acc.field.seen THEN Append(acc.frames, Frame(acc.field)) ELSE acc.frames,
             field |-> NoField]
      [] line = Comment -> acc
      [] line.field = "event" ->
            [acc EXCEPT !.field.event = line.name, !.field.seen = TRUE]
      [] line.field = "data" ->
            [acc EXCEPT !.field.data = Append(@, line.data), !.field.seen = TRUE]

ReadLines(lines) == FoldLeft(ReadLine, [frames |-> <<>>, field |-> field], lines)

-----------------------------------------------------------------------------
(* assistant_delta_stream                                                      *)

\* Mutant: the running text is read instead of the piece.
DeltaTextRunning(data) == data.text

\* _delta_text: the piece; a frame with an empty one speaks its text, the answer so far.
DeltaText(data) == IF data.delta # <<>> THEN data.delta ELSE data.text

\* Mutant: the final frame is spoken whatever was streamed before.
FinalTextAlways(acc, data) == data.text

\* The whole answer, unless pieces of it were streamed.
FinalText(acc, data) == IF acc.started THEN <<>> ELSE data.text

Speak(acc, text) ==
    [started |-> acc.started \/ text # <<>>, said |-> acc.said \o text, held |-> acc.held]

\* One frame; an error frame raises and nothing after it is read.
PassOn(acc, frame) ==
    IF acc.held = "error" THEN acc
    ELSE CASE frame.event = "delta" -> Speak(acc, DeltaText(frame.data))
           [] frame.event = "final" ->
                [Speak(acc, FinalText(acc, frame.data)) EXCEPT !.held = "result"]
           [] frame.event = "error" -> [acc EXCEPT !.held = "error"]
           [] OTHER -> acc

Pass(frames) ==
    LET passed == FoldLeft(PassOn, [started |-> started, said |-> said, held |-> held], frames)
    IN  started' = passed.started /\ said' = passed.said /\ held' = passed.held

-----------------------------------------------------------------------------

\* A chunk arrives: every line it completes is read, the rest waits in the buffer.
ChunkArrives ==
    /\ stream = "open"
    /\ \E n \in (fed + 1) .. Len(Halves(body)) :
        LET bytes == buffer \o SubSeq(Halves(body), fed + 1, n)
            whole == Cardinality({i \in DOMAIN bytes : bytes[i][2] = "rest"})
            read  == ReadLines([i \in 1..whole |-> bytes[2 * i][1]])
        IN  /\ fed' = n
            /\ buffer' = SubSeq(bytes, 2 * whole + 1, Len(bytes))
            /\ field' = read.field
            /\ Pass(read.frames)
            /\ stream' = IF held' = "error" THEN "failed" ELSE "open"
    /\ UNCHANGED body

\* The response ends: a line without a newline and a frame without a blank line still count.
BodyEnds ==
    /\ stream = "open" /\ fed = Len(Halves(body))
    /\ LET read == ReadLines(IF buffer = <<>> THEN <<>> ELSE <<buffer[1][1]>>)
       IN  Pass(read.frames \o IF read.field.seen THEN <<Frame(read.field)>> ELSE <<>>)
    /\ stream' = IF held' = "error" THEN "failed" ELSE "ended"
    /\ buffer' = <<>> /\ field' = NoField
    /\ UNCHANGED <<body, fed>>

\* A connection lost or timed out: conversation_stream raises.
StreamLost ==
    /\ stream = "open"
    /\ stream' = "failed"
    /\ UNCHANGED <<body, fed, buffer, field, started, said, held>>

StreamNext == ChunkArrives \/ BodyEnds \/ StreamLost

StreamSpec == StreamInit /\ [][StreamNext]_streamVars

-----------------------------------------------------------------------------

\* However the bytes are cut into chunks, what the user hears is the answer from its
\* beginning, no piece twice and none left out; a stream that ends without an error has said all
\* of it and kept the result, and one whose turn failed on the daemon never ends as if it had
\* succeeded (streaming.py:84-108).
SaysTheAnswer ==
    /\ IsPrefix(said, Answer)
    /\ stream = "ended" => body.end = "final" /\ said = Answer /\ held = "result"
=============================================================================
