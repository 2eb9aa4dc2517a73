---------------------------- MODULE TextStreams ----------------------------
(***************************************************************************)
(* How the answer of a model is read from the wire: server-sent events of  *)
(* a local model (llm-local/lib.rs), lines of JSON of Ollama               *)
(* (llm-local/ollama_answer.rs) and server-sent events of a subscription   *)
(* (llm-openai/chatgpt/stream.rs), with the assembly of their text         *)
(* (llm/stream.rs).                                                        *)
(*                                                                         *)
(* A stream is a sequence of tokens: what a line says, and the bytes that  *)
(* end it.  A chunk may end behind any token, and the text is the sequence *)
(* of the places of its parts.  For "sse" and "ndjson" CR LF ends a line   *)
(* as LF does, and a lone CR is part of what the line says.  For "events"  *)
(* a record may be written over several lines of data: its last one stands *)
(* for what the record says, each of those before it is a "head".          *)
(***************************************************************************)
EXTENDS Naturals, SequencesExt

CONSTANTS
    MaxStream,  \* bound on the tokens of a stream
    MaxNoise,   \* bound on those that are no whole part and no end
    MaxParts    \* parts of a text: stands for MAX_OUTPUT and MAX_TEXT_BYTES

VARIABLES
    protocol,
    stream,     \* tokens received
    from,       \* where the current line begins
    held,       \* places of the lines of data of the current event
    cr,         \* the last byte was a CR
    mark,       \* "open", "last" behind the final record, "done"
    text,       \* places of the parts assembled so far
    observed,   \* parts the sink was told of
    reading     \* "receiving", "failed", "cut" or "completed"

streamVars == <<protocol, stream, from, held, cr, mark, text, observed, reading>>

Protocols == {"sse", "ndjson", "events"}
Parts == {"delta", "blank"}
Noise == {"note", "head", "other", "bad"}
Ends == {"LF", "CR"}

\* "bad" is whatever a protocol refuses: a failure, a tool call, another
\* model, an unknown shape.
Alphabet(p) ==
    CASE p = "sse"    -> {"LF", "note", "bad", "final", "done"} \cup Parts
      [] p = "ndjson" -> {"LF", "bad", "final"} \cup Parts
      [] p = "events" -> {"LF", "CR", "delta", "final"} \cup Noise

StreamsInit ==
    /\ protocol \in Protocols
    /\ stream = <<>> /\ from = 1 /\ held = <<>> /\ cr = FALSE
    /\ mark = "open" /\ text = <<>> /\ observed = <<>>
    /\ reading = "receiving"

StreamsTypeOK ==
    /\ protocol \in Protocols
    /\ stream \in Seq(Alphabet(protocol)) /\ Len(stream) <= MaxStream
    /\ from \in 1 .. MaxStream + 1
    /\ held \in Seq(1 .. MaxStream) /\ cr \in BOOLEAN
    /\ mark \in {"open", "last", "done"}
    /\ text \in Seq(1 .. MaxStream) /\ observed \in Seq(1 .. MaxStream)
    /\ reading \in {"receiving", "failed", "cut", "completed"}

\* The line so far.
Line == SubSeq(stream, from, Len(stream))

Fail ==
    /\ reading' = "failed"
    /\ UNCHANGED <<from, held, cr, mark, text, observed>>

-----------------------------------------------------------------------------
(* Records. *)

\* TextAssembly::apply: one more part, within the limits.
Fits == Len(text) < MaxParts

\* TextStream::dispatch: the part joins the text and the sink hears of it.
\* The parser of Ollama has no sink.
Deliver(place) ==
    /\ text' = Append(text, place)
    /\ observed' = IF protocol = "ndjson" THEN observed
                   ELSE Append(observed, place)
    /\ UNCHANGED <<mark, reading>>

\* The final record; one that also carries text stands for two.
Close ==
    /\ mark' = IF protocol = "sse" THEN "last" ELSE "done"
    /\ UNCHANGED <<text, observed, reading>>

\* Parser::record of llm-local: the record at a place, when the stream is
\* still open to it.
Apply(place) ==
    LET said == stream[place] IN
    CASE said \in Parts /\ mark = "open" /\ Fits -> Deliver(place)
      [] said = "final" /\ mark = "open" -> Close
      [] said = "done" /\ mark = "last" ->
             /\ mark' = "done"
             /\ UNCHANGED <<text, observed, reading>>
      [] said = "other" -> UNCHANGED <<mark, text, observed, reading>>
      [] OTHER -> reading' = "failed" /\ UNCHANGED <<mark, text, observed>>

Skip == UNCHANGED <<mark, text, observed, reading>>

-----------------------------------------------------------------------------
(* Lines. *)

\* Parser::line of llm-local: a blank line ends an event, which is one line
\* of data with comments around it.
SseLine ==
    /\ \/ Line = <<>> /\ held # <<>> /\ Apply(held[1]) /\ held' = <<>>
       \/ Line = <<>> /\ held = <<>> /\ Skip /\ UNCHANGED held
       \/ Line = <<"note">> /\ mark # "done" /\ Skip /\ UNCHANGED held
       \/ /\ Line \notin {<<>>, <<"note">>} /\ held = <<>> /\ mark # "done"
          /\ held' = <<from>> /\ Skip
       \/ /\ Line # <<>> /\ (Line = <<"note">> => mark = "done")
          /\ (held # <<>> /\ Line # <<"note">>) \/ mark = "done"
          /\ reading' = "failed"
          /\ UNCHANGED <<held, mark, text, observed>>
    /\ from' = Len(stream) + 2
    /\ UNCHANGED cr

\* Parser::push of ollama_answer.rs: every line is a record.
JsonLine ==
    IF Line = <<>> \/ mark = "done" THEN Fail
    ELSE /\ Apply(from)
         /\ from' = Len(stream) + 2
         /\ UNCHANGED <<held, cr>>

\* Mutation: the lines of data of an event are not joined.
WholeInOneLine == Len(held) = 1 /\ stream[held[1]] # "head"

\* TextStream::dispatch: the lines of data of an event, joined, are a record.
Whole == \A k \in DOMAIN held : stream[held[k]] = "head" <=> k < Len(held)

Dispatch ==
    \/ Whole /\ Apply(Last(held)) /\ held' = <<>>
    \/ ~Whole /\ reading' = "failed" /\ UNCHANGED <<held, mark, text, observed>>

\* TextStream::parse: CR, LF and CR LF end a line, wherever a chunk ends.
SecondHalf(byte) == byte = "LF" /\ cr

EventLine(byte) ==
    \/ /\ SecondHalf(byte)
       /\ cr' = FALSE /\ from' = Len(stream) + 2
       /\ Skip /\ UNCHANGED held
    \/ /\ ~SecondHalf(byte)
       /\ cr' = (byte = "CR") /\ from' = Len(stream) + 2
       /\ \/ Line = <<>> /\ held = <<>> /\ Skip /\ UNCHANGED held
          \/ Line = <<>> /\ held # <<>> /\ Dispatch
          \/ Line = <<"note">> /\ Skip /\ UNCHANGED held
          \/ /\ Line \notin {<<>>, <<"note">>}
             /\ held' = Append(held, from) /\ Skip

\* The bytes of a line: nothing may follow the end of the text.
Content ==
    IF protocol # "sse" /\ mark = "done" THEN Fail
    ELSE cr' = FALSE /\ Skip /\ UNCHANGED <<from, held>>

-----------------------------------------------------------------------------
(* The client. *)

NoiseSoFar == Cardinality({i \in DOMAIN stream : stream[i] \in Noise})

\* The next token of the stream, as part of any chunk.
Push(t) ==
    /\ reading = "receiving"
    /\ Len(stream) < MaxStream
    /\ t \in Noise => NoiseSoFar < MaxNoise
    /\ t \notin Ends => Line = <<>>
    /\ stream' = Append(stream, t)
    /\ IF t \in Ends
       THEN CASE protocol = "sse" -> SseLine
              [] protocol = "ndjson" -> JsonLine
              [] protocol = "events" -> EventLine(t)
       ELSE Content
    /\ UNCHANGED protocol

Speaks == \E i \in 1 .. Len(text) : stream[text[i]] # "blank"

\* Parser::finish, and the completed event of the subscription.
Finished ==
    /\ mark = "done"
    /\ protocol # "events" => Line = <<>> /\ held = <<>> /\ Speaks

\* The stream ends.
Eof ==
    /\ reading = "receiving"
    /\ reading' = IF Finished THEN "completed" ELSE "failed"
    /\ UNCHANGED <<protocol, stream, from, held, cr, mark, text, observed>>

\* The connection breaks, or the minute of a request is over.
Cut ==
    /\ reading = "receiving"
    /\ reading' = "cut"
    /\ UNCHANGED <<protocol, stream, from, held, cr, mark, text, observed>>

StreamsNext ==
    \/ \E t \in Alphabet(protocol) : Push(t)
    \/ Eof \/ Cut

-----------------------------------------------------------------------------
(* Properties. *)

Places(kinds) == {i \in DOMAIN stream : stream[i] \in kinds}

InOrder(places) == \A i, j \in DOMAIN places : i < j => places[i] < places[j]

\* The places of data, and those whose byte ends an empty line: the LF of
\* CR LF ends no line of its own.
Data == {i \in DOMAIN stream : stream[i] \notin Ends \cup {"note"}}

BlankLines ==
    {i \in Places(Ends) :
        i > 1 => /\ stream[i - 1] \in Ends
                 /\ ~(stream[i] = "LF" /\ stream[i - 1] = "CR")}

Between(places, i, j) == \E k \in places : i < k /\ k < j

\* Every record is ended: by its line, or by a blank line behind its data.
RecordsAreWhole ==
    /\ protocol = "ndjson" =>
          BlankLines = {} /\ \A i \in Data : i < Len(stream)
    /\ protocol # "ndjson" =>
          /\ \A i \in Data \ Places({"head"}) :
                \E b \in BlankLines : i < b /\ ~Between(Data, i, b)
          /\ \A i \in Places({"head"}) :
                \E j \in Data : i < j /\ ~Between(BlankLines, i, j)

\* Nothing is refused, and there is one end behind every part.
EndsOnce ==
    /\ Places({"bad"}) = {}
    /\ \E end \in Places({"final"}) :
          /\ Places({"final"}) = {end}
          /\ \A place \in Places(Parts) : place < end
          /\ protocol = "sse" =>
                 \E d \in Places({"done"}) : Places({"done"}) = {d} /\ end < d

LastRecord == IF protocol = "sse" THEN "done" ELSE "final"

\* What a provider that keeps to a protocol sends: whatever ends its lines,
\* with comments, records of other types and records over several lines.
KeepsToProtocol ==
    /\ RecordsAreWhole /\ EndsOnce
    /\ \A i \in Places({LastRecord}), j \in DOMAIN stream :
          i < j => stream[j] \in Ends
    /\ Places({"delta"}) # {} /\ Cardinality(Places(Parts)) <= MaxParts

\* A text is taken for an answer only when its stream came whole: it has
\* every part that was sent, once and in order, no refused record, one end
\* and nothing behind it, and who watched it was told the same.  And a stream
\* that keeps to its protocol is always taken, wherever its chunks end,
\* whatever ends its lines and over however many of them a record is written.
ResultIsTheStream ==
    /\ reading = "completed" =>
          /\ InOrder(text) /\ Range(text) = Places(Parts)
          /\ protocol # "ndjson" => observed = text
          /\ EndsOnce
    /\ reading = "failed" => ~KeepsToProtocol
=============================================================================
