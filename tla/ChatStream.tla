----------------------------- MODULE ChatStream -----------------------------
(***************************************************************************)
(* One completion of qwen-proxy, from the upstream's deltas to the events  *)
(* the client reads: translateQwenSse, withStallGuard, the part of         *)
(* withPoolRetryStream that holds chunks back until the first visible one, *)
(* and the two adapters, /v1/chat/completions with or without tools and    *)
(* /v1/messages (streamAnthropicEvents); or, when it is not streamed,      *)
(* the guest client's buffer and the one answer made of it.                *)
(*                                                                         *)
(* A chunk may have content, a possibly empty text, and may carry          *)
(* reasoning; the translator lets through neither tool_calls nor a         *)
(* finish_reason of the upstream, so the adapters' branches for them are   *)
(* not reached.  Consecutive text events are one, as a client joins them.  *)
(* Which proxy an attempt runs on is PoolRetry's.                          *)
(***************************************************************************)
EXTENDS StreamFilters

CONSTANTS
  Pieces,       \* the texts an upstream chunk may carry
  MaxAnswer,    \* bound: the symbols of an answer, by route
  MaxThoughts,  \* bound: chunks with reasoning
  MaxHeld,      \* bound: chunks before the first visible one
  MaxTries      \* the attempts the retry layer makes

ASSUME PiecesAssumption == Pieces \subseteq Seq(Symbols)

Streams == {"openai", "tools", "anthropic"}
Apis == Streams \cup {"json", "json tools", "message"}

VARIABLES
  api,       \* the route, and whether function tools were injected
  text,      \* history: the content the current attempt has read
  thoughts,  \* history: the reasoning chunks read
  order,     \* history: "thinking", then "answering", or "mixed" in this attempt
  attempt,   \* attempts begun
  payload,   \* withStallGuard's sawPayload
  held,      \* withPoolRetryStream's buffer, up to the first visible chunk;
             \* the reasoning, when nothing is streamed
  observed,      \* its seenContent
  det, strip, \* the filters' states
  block,     \* the Anthropic adapter's currentPhase
  index,     \* and its currentIndex
  sent,      \* what the client has got
  outcome    \* "open", "complete", "limited" or "broken"

chatVars == <<api, text, thoughts, order, attempt, payload, held, observed,
              det, strip, block, index, sent, outcome>>

(* An upstream delta, by the fields that are set.                          *)
Deltas == [fields : (SUBSET {"content", "reasoning", "summary"}) \ {{}},
           content : Pieces \cup {<<>>}]

(* extractReasoningContentFromDelta: a thinking summary, or else a         *)
(* reasoning field.                                                        *)
Reasons(delta) == delta.fields \cap {"summary", "reasoning"} # {}

(* mapUpstreamDeltaToOpenAI; a delta of a role alone changes nothing       *)
(* further on and is left out.                                             *)
MapUpstreamDelta(delta) ==
  [told |-> "content" \in delta.fields,
   content |-> IF "content" \in delta.fields THEN delta.content ELSE <<>>,
   thought |-> Reasons(delta)]

Chunks == {MapUpstreamDelta(delta) : delta \in Deltas}
Visible(chunk) == chunk.content # <<>>

Event(kind, at, body) == [kind |-> kind, at |-> at, body |-> body]

ChatInit ==
  /\ api \in Apis
  /\ text = <<>> /\ thoughts = 0 /\ order = "thinking" /\ attempt = 1
  /\ payload = FALSE /\ held = <<>> /\ observed = FALSE
  /\ det = Detector /\ strip = Stripper
  /\ block = "none" /\ index = 0
  /\ sent = <<Event("start", 0, <<>>)>>
  /\ outcome = "open"

-----------------------------------------------------------------------------
(* The adapters, as functions from their state and a chunk to the state    *)
(* after it.                                                               *)
Adapter == [det |-> det, strip |-> strip, block |-> block, index |-> index, sent |-> sent]

Emit(a, kind, body) == [a EXCEPT !.sent = Append(@, Event(kind, a.index, body))]

(* A text event, unless there is nothing to say; joined to the last one.   *)
EmitText(a, body) ==
  LET last == a.sent[Len(a.sent)]
  IN CASE body = <<>> -> a
       [] body # <<>> /\ last.kind = "text" /\ last.at = a.index ->
            [a EXCEPT !.sent[Len(a.sent)] = Event("text", a.index, last.body \o body)]
       [] OTHER -> Emit(a, "text", body)

(* Content through the details stripper.                                   *)
Strip(a, content) ==
  LET pushed == StripperPush(a.strip, content)
  IN EmitText([a EXCEPT !.strip = pushed.strip], pushed.safe)

(* With injected tools the detector comes first; a block that has just     *)
(* been completed and holds calls becomes a tool_calls event.              *)
Detect(a, content) ==
  LET pushed == DetectorPush(a.det, content)
      stripped == Strip([a EXCEPT !.det = pushed.det], pushed.content)
      ready == a.det.state # "SEALED" /\ pushed.det.state = "SEALED"
  IN IF ready /\ ParseToolCalls(pushed.det.block) > 0
     THEN Emit(stripped, "calls", pushed.det.block)
     ELSE stripped

(* chat.ts: reasoning first, then the content.                             *)
OpenAiChunk(a, chunk) ==
  LET thought == IF chunk.thought THEN Emit(a, "thought", <<>>) ELSE a
  IN CASE ~chunk.told -> thought
       [] chunk.told /\ api = "tools" -> Detect(thought, chunk.content)
       [] chunk.told /\ api # "tools" -> Strip(thought, chunk.content)

Opens == [think |-> "open think", text |-> "open text"]
OpenBlock(a, kind) == [Emit(a, Opens[kind], <<>>) EXCEPT !.block = kind]
CloseThinking(a) ==
  [Emit(Emit(a, "signature", <<>>), "close", <<>>) EXCEPT !.index = @ + 1]

(* Broken variant: text goes into the thinking block.                      *)
StartTextOpen(a) ==
  IF a.block = "none" THEN OpenBlock(a, "text") ELSE [a EXCEPT !.block = "text"]

(* events.ts, the first content of a text block.                           *)
StartText(a) ==
  CASE a.block = "think" -> OpenBlock(CloseThinking(a), "text")
    [] a.block = "none"  -> OpenBlock(a, "text")
    [] a.block = "text"  -> a

(* Reasoning opens a thinking block only when no block was ever opened;    *)
(* after text the phase alone changes.                                     *)
StartThinking(a) ==
  IF a.block = "none" THEN OpenBlock(a, "think") ELSE [a EXCEPT !.block = "think"]

AnthropicChunk(a, chunk) ==
  LET thinking == IF chunk.thought THEN StartThinking(a) ELSE a
      started == IF chunk.told THEN StartText(thinking) ELSE thinking
      thought == IF chunk.thought /\ started.block = "think"
                 THEN Emit(started, "thought", <<>>) ELSE started
  IN IF chunk.told THEN Strip(thought, chunk.content) ELSE thought

AdapterChunk(a, chunk) ==
  IF api = "anthropic" THEN AnthropicChunk(a, chunk) ELSE OpenAiChunk(a, chunk)

(* What is still held back is flushed, and the answer is closed.           *)
FlushOpenAi(a) ==
  LET flushed == IF api = "tools" THEN Strip(a, DetectorEnd(a.det)) ELSE a
  IN EmitText([flushed EXCEPT !.strip = Stripper], StripperEnd(flushed.strip))

FinishOpenAi(a) ==
  LET calls == \E i \in DOMAIN a.sent : a.sent[i].kind = "calls"
  IN Emit(Emit(FlushOpenAi(a), IF calls THEN "finish tool_calls" ELSE "finish stop", <<>>),
          "done", <<>>)

FinishAnthropic(a) ==
  LET flushed == IF a.block = "text" THEN EmitText(a, StripperEnd(a.strip)) ELSE a
      closed == CASE a.block = "think" -> CloseThinking(flushed)
                  [] a.block = "text"  -> Emit(flushed, "close", <<>>)
                  [] a.block = "none"  -> flushed
  IN Emit(Emit(closed, "finish stop", <<>>), "done", <<>>)

Conclude(a) == IF api = "anthropic" THEN FinishAnthropic(a) ELSE FinishOpenAi(a)

(* A rateLimited sentinel: an error event; the OpenAI stream is then       *)
(* closed like a complete one, the Anthropic stream just ends.             *)
Limit(a) ==
  IF api = "anthropic" THEN Emit(a, "error", <<>>) ELSE FinishOpenAi(Emit(a, "error", <<>>))

(* An answer in one piece: the whole content, or the calls in it alone.    *)
JsonMessage(a) ==
  LET thought == IF held # <<>> THEN Emit(a, "thought", <<>>) ELSE a
      stripped == StripDetails(text)
      parsed == TakeBlocks(stripped)
  IN CASE api = "json tools" /\ parsed.calls > 0 ->
            Emit(Emit(a, "calls", <<>>), "finish tool_calls", <<>>)
       [] api = "json tools" /\ parsed.calls = 0 /\ parsed.left # stripped ->
            Emit(EmitText(thought, Trim(parsed.left)), "finish stop", <<>>)
       [] OTHER -> Emit(EmitText(thought, stripped), "finish stop", <<>>)

Answer(a) ==
  IF api \in Streams THEN Conclude(a) ELSE Emit(JsonMessage(a), "done", <<>>)

LimitedAnswer(a) == IF api \in Streams THEN Limit(a) ELSE Emit(a, "error", <<>>)

Becomes(a) ==
  /\ det' = a.det /\ strip' = a.strip /\ block' = a.block
  /\ index' = a.index /\ sent' = a.sent

(* The chunks held back and the one that ends the wait, one by one.        *)
Deliver(chunks) ==
  LET after[n \in 0 .. Len(chunks)] ==
        IF n = 0 THEN Adapter ELSE AdapterChunk(after[n - 1], chunks[n])
  IN after[Len(chunks)]

-----------------------------------------------------------------------------
(* A chunk comes: the guard notes payload, and the retry layer holds it    *)
(* back until the first visible one.                                       *)
Chunk(chunk) ==
  /\ outcome = "open"
  /\ chunk.thought => thoughts < MaxThoughts
  /\ text' = text \o chunk.content
  /\ Len(text') <= MaxAnswer[api]
  /\ thoughts' = IF chunk.thought THEN thoughts + 1 ELSE thoughts
  /\ order' = CASE chunk.thought /\ (chunk.told \/ order # "thinking") -> "mixed"
                [] ~chunk.thought /\ order = "thinking" -> "answering"
                [] OTHER -> order
  /\ payload' = (payload \/ chunk.thought \/ Visible(chunk))
  /\ observed' = (observed \/ Visible(chunk))
  /\ Len(held) < MaxHeld
  /\ IF api \in Streams /\ observed'
     THEN held' = <<>> /\ Becomes(Deliver(Append(held, chunk)))
     ELSE /\ held' = IF api \in Streams \/ chunk.thought THEN Append(held, chunk) ELSE held
          /\ UNCHANGED <<det, strip, block, index, sent>>
  /\ UNCHANGED <<api, attempt, outcome>>

(* The stream ends, or goes silent after a payload: what was seen is       *)
(* answered as complete.                                                   *)
StreamEnds ==
  /\ outcome = "open" /\ observed
  /\ Becomes(Answer(Adapter))
  /\ outcome' = "complete"
  /\ UNCHANGED <<api, text, thoughts, order, attempt, payload, held, observed>>

(* Nothing of the attempt reached the client: it showed nothing yet, or    *)
(* the answer is in one piece, whose buffer dies with the error.           *)
Untold == api \in Streams => ~observed

(* Such an attempt ended, stalled or failed, and is made again.            *)
Retry ==
  /\ outcome = "open" /\ Untold /\ attempt < MaxTries
  /\ attempt' = attempt + 1
  /\ text' = <<>> /\ order' = "thinking" /\ payload' = FALSE /\ held' = <<>>
  /\ observed' = FALSE
  /\ UNCHANGED <<api, thoughts, det, strip, block, index, sent, outcome>>

(* The last one: the sentinel.                                             *)
GiveUp ==
  /\ outcome = "open" /\ Untold /\ attempt = MaxTries
  /\ held' = <<>>
  /\ Becomes(LimitedAnswer(Adapter))
  /\ outcome' = "limited"
  /\ UNCHANGED <<api, text, thoughts, order, attempt, payload, observed>>

(* An error that surfaces: moderation, a client error, or, in a stream,    *)
(* any error after a visible chunk.  The response body is cut off, or an   *)
(* error is all the answer.                                                *)
Break ==
  /\ outcome = "open"
  /\ outcome' = "broken"
  /\ UNCHANGED <<api, text, thoughts, order, attempt, payload, held, observed,
                 det, strip, block, index, sent>>

ChatNext ==
  \/ \E chunk \in Chunks : Chunk(chunk)
  \/ StreamEnds \/ Retry \/ GiveUp \/ Break

ChatSpec == ChatInit /\ [][ChatNext]_chatVars

-----------------------------------------------------------------------------
(* What the text events of a list of events say, one after the other.      *)
Saying(event) == IF event.kind = "text" THEN event.body ELSE <<>>
TextIn(events) ==
  LET said[n \in 0 .. Len(events)] ==
        IF n = 0 THEN <<>> ELSE said[n - 1] \o Saying(events[n])
  IN said[Len(events)]
TextSent == TextIn(sent)
Announced == \E i \in DOMAIN sent : sent[i].kind = "calls"

(* Whatever the chunk boundaries, retries and stalls: a complete streamed  *)
(* answer reads as the text of its last attempt, without tool-call blocks  *)
(* and details, announces calls exactly when the first block is closed and *)
(* holds some, and ends with the one matching finish_reason; a cut one is  *)
(* a beginning of it (chat.ts:387).  One loss is the code's own: when the  *)
(* upstream of an Anthropic stream ends on reasoning after its content,    *)
(* what the stripper still holds back is dropped (events.ts:232), and the  *)
(* complete answer is a beginning only.                                    *)
StreamedFaithful ==
  LET tools == api = "tools"
      called == tools /\ CallsIn(text) > 0
      whole == Readable(text, tools)
  IN /\ IsPrefix(TextSent, whole)
     /\ outcome = "complete" =>
          /\ api # "anthropic" \/ block = "text" => TextSent = whole
          /\ Announced <=> called
          /\ sent[Len(sent) - 1].kind = IF called THEN "finish tool_calls" ELSE "finish stop"
          /\ sent[Len(sent)].kind = "done"

(* An answer in one piece, of its last attempt, tells what the stream      *)
(* would have told, blanks around it and the text before tool calls aside, *)
(* when the markup is in order (chat.ts:267, messages.ts:103).             *)
JsonFaithful ==
  LET tools == api = "json tools"
      called == tools /\ CallsIn(text) > 0
  IN outcome = "complete" /\ Tidy(text, tools) =>
       /\ Announced <=> called
       /\ Trim(TextSent) = IF called THEN <<>> ELSE Trim(Readable(text, tools))

(* Streamed or not, the client gets what the model wrote for it.           *)
StreamFaithful == IF api \in Streams THEN StreamedFaithful ELSE JsonFaithful

(* The Anthropic stream is a sequence of blocks: a delta belongs to the    *)
(* open block of its kind, blocks are numbered from 0 and closed in turn,  *)
(* and all are closed when the answer is complete, as long as the upstream *)
(* sends no reasoning together with or after content (events.ts:160).      *)
ClosedIn(n) == {i \in 1 .. n : sent[i].kind = "close"}
OpenedIn(n) == {i \in 1 .. n : sent[i].kind \in {"open think", "open text"}}
InPlace(n) ==
  LET e == sent[n]
      in(kinds) == \E i \in 1 .. n - 1 : sent[i].kind \in kinds /\ sent[i].at = e.at
      open == \A i \in ClosedIn(n - 1) : sent[i].at # e.at
  IN CASE e.kind = "start" -> n = 1
       [] e.kind \in {"thought", "signature"} -> in({"open think"}) /\ open
       [] e.kind = "text" -> in({"open text"}) /\ open
       [] e.kind = "close" -> in({"open think", "open text"}) /\ open
       [] e.kind \in {"open think", "open text"} ->
            e.at = Cardinality(ClosedIn(n - 1)) /\ Cardinality(OpenedIn(n - 1)) = e.at
       [] OTHER -> TRUE

BlocksWellFormed ==
  api = "anthropic" /\ order # "mixed" =>
    /\ \A n \in DOMAIN sent : InPlace(n)
    /\ outcome = "complete" =>
         Cardinality(ClosedIn(Len(sent))) = Cardinality(OpenedIn(Len(sent)))
=============================================================================
