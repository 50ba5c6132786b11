------------------------------ MODULE Streams ------------------------------
(***************************************************************************)
(* A streamed answer on its way through an adapter.  The upstream sends    *)
(* its own wire events; the adapter turns them into OpenAI chunks; the     *)
(* client gets the chunks, or the Messages events an encoder makes of      *)
(* them, or (an Anthropic target of /v1/messages) the upstream's events    *)
(* as they are.  Beside the stream the model keeps the answer the same     *)
(* adapter's Chat would have returned for the same content.                *)
(*                                                                         *)
(* A piece of text is a token.  Only the structured answer of an Anthropic *)
(* model has tokens that matter: it comes as the input of a forced tool    *)
(* call, sometimes wrapped in {"value": ...}, cut anywhere.                *)
(***************************************************************************)
EXTENDS Integers, Sequences, SequencesExt

CONSTANTS Kinds,     \* adapters: openai, azure, anthropic, gemini, ollama
          MaxEvents, \* events of one stream, by adapter
          Inputs     \* inputs of the structured answer: [wrapped, tokens]

ASSUME StreamBounds == MaxEvents \in [Kinds -> Nat]

VARIABLES route,   \* [kind, sink, form]: adapter, response format, mode of the answer
          wire,    \* the upstream's place in its own protocol
          said,    \* what Chat would have made of the same content
          ad,      \* the adapter
          enc,     \* the MessagesEncoder
          got,     \* what the client has put together
          ended    \* "", "ok" or "failed": how ChatStream returned
stVars == <<route, wire, said, ad, enc, got, ended>>

None == -1
NoInput == [wrapped |-> FALSE, tokens |-> <<>>]
Sinks(kind) == IF kind = "anthropic" THEN {"chat", "native"} ELSE {"chat", "messages"}
Answer0 == [text |-> <<>>, thoughts |-> <<>>, calls |-> <<>>, finish |-> ""]
NewCall(args, sig) == [args |-> args, sig |-> sig]
Chunk == [text |-> <<>>, thoughts |-> <<>>, calls |-> <<>>, finish |-> "", bare |-> FALSE]

StreamInit ==
    /\ route \in UNION {[kind : {k}, sink : Sinks(k), form : IF k = "anthropic" THEN Inputs \cup {NoInput} ELSE {NoInput}] : k \in Kinds}
    /\ route.sink = "native" => route.form = NoInput
    /\ wire = [n |-> 0, phase |-> "start", open |-> None, type |-> "", next |-> 0, left |-> <<>>, returned |-> FALSE,
               late |-> FALSE, error |-> FALSE]
    /\ said = Answer0
    /\ ad = [blocks |-> <<>>, answered |-> FALSE, sent |-> FALSE, prefix |-> FALSE, buf |-> <<>>,
             pending |-> FALSE, seenCall |-> FALSE]
    /\ enc = [started |-> FALSE, next |-> 0, open |-> None, kind |-> "", thinking |-> None, tools |-> <<>>,
              sawTool |-> FALSE, stop |-> ""]
    /\ got = [a |-> Answer0, blocks |-> <<>>, open |-> None, begun |-> FALSE, closed |-> FALSE, bad |-> FALSE]
    /\ ended = ""
----------------------------------------------------------------------------
(* The client of a chat stream: it merges tool call deltas by index. *)

HearCall(a, d) ==
    IF d.index < Len(a.calls)
    THEN [a EXCEPT !.calls[d.index + 1] = NewCall(@.args + d.args, @.sig \/ d.sig)]
    ELSE [a EXCEPT !.calls = Append(@, NewCall(d.args, d.sig))]

HearChunk(a, c) ==
    [FoldLeft(HearCall, a, c.calls) EXCEPT !.text = @ \o c.text, !.thoughts = @ \o FlattenSeq(c.thoughts),
                                          !.finish = IF c.finish = "" THEN @ ELSE c.finish]

(* The client of a Messages stream: it follows the content blocks. *)

HearEvent(g, e) ==
    CASE e.ev = "begin" -> [g EXCEPT !.begun = TRUE, !.bad = @ \/ g.begun]
      [] e.ev = "start" -> [g EXCEPT !.open = e.at, !.bad = @ \/ ~g.begun \/ g.open # None \/ e.at # Len(g.blocks) \/ g.closed,
                                     !.blocks = Append(@, [kind |-> e.kind, body |-> e.body])]
      [] e.ev = "delta" -> IF g.open # e.at THEN [g EXCEPT !.bad = TRUE]
                           ELSE [g EXCEPT !.blocks[e.at + 1].body = @ \o e.body]
      [] e.ev = "stop" -> [g EXCEPT !.open = None, !.bad = @ \/ g.open # e.at]
      [] e.ev = "end" -> [g EXCEPT !.closed = TRUE, !.bad = @ \/ ~g.begun \/ g.open # None \/ g.closed, !.a.finish = e.why]

Event(ev, at, kind, body) == [ev |-> ev, at |-> at, kind |-> kind, body |-> body]
EndEvent(why) == [ev |-> "end", why |-> why]
----------------------------------------------------------------------------
(* MessagesEncoder: canonical chunks to Messages events.  r is the encoder *)
(* e and its client g, who hears every event as it is written.             *)

MessagesStopReason(finish) ==
    CASE finish = "length" -> "max_tokens" [] finish = "tool_calls" -> "tool_use"
      [] finish = "content_filter" -> "refusal" [] OTHER -> "end_turn"

Written(e, g, event) == [e |-> e, g |-> HearEvent(g, event)]

EncBegin(r) ==
    IF r.e.started THEN r ELSE Written([r.e EXCEPT !.started = TRUE], r.g, Event("begin", None, "", <<>>))

EncClose(r) ==
    IF r.e.open = None THEN r
    ELSE Written([r.e EXCEPT !.open = None, !.kind = ""], r.g, Event("stop", r.e.open, "", <<>>))

EncOpen(r, kind) ==
    LET c == EncClose(r) IN
    Written([c.e EXCEPT !.open = c.e.next, !.next = @ + 1, !.kind = kind], c.g, Event("start", c.e.next, kind, <<>>))

EncDelta(r, at, body) == Written(r.e, r.g, Event("delta", at, "", body))

\* A thinking block that was closed is not opened again: the update is lost.
EncThought(r, t) ==
    LET o == IF r.e.thinking # None THEN r
             ELSE LET n == EncOpen(r, "thinking") IN [n EXCEPT !.e.thinking = n.e.open]
    IN IF t # <<>> /\ o.e.thinking = o.e.open THEN EncDelta(o, o.e.open, t) ELSE o

EncText(r, text) ==
    IF text = <<>> THEN r
    ELSE LET o == IF r.e.kind = "text" THEN r ELSE EncOpen(r, "text") IN EncDelta(o, o.e.open, text)

\* Mutant of EncCall: the index of the chunk is taken for that of the block.
EncCall_ChunkIndex(r, d) ==
    LET o == IF d.index < Len(r.e.tools) THEN r
             ELSE LET n == EncOpen(r, "tool_use") IN
                  [n EXCEPT !.e.tools = Append(@, n.e.open), !.e.sawTool = TRUE]
    IN IF d.args > 0 THEN EncDelta(o, d.index, <<"args">>) ELSE o

\* Arguments for a block that was closed are lost too.
EncCall(r, d) ==
    LET o == IF d.index < Len(r.e.tools) THEN r
             ELSE LET n == EncOpen(r, "tool_use") IN
                  [n EXCEPT !.e.tools = Append(@, n.e.open), !.e.sawTool = TRUE]
    IN IF d.args > 0 /\ o.e.tools[d.index + 1] = o.e.open THEN EncDelta(o, o.e.open, <<"args">>) ELSE o

EncFinishReason(r, finish) ==
    IF finish = "" THEN r ELSE LET c == EncClose(r) IN [c EXCEPT !.e.stop = MessagesStopReason(finish)]

EncChunk(r, c) ==
    IF c.bare THEN r
    ELSE EncFinishReason(FoldLeft(EncCall, EncText(FoldLeft(EncThought, EncBegin(r), c.thoughts), c.text), c.calls),
                         c.finish)

EncFinish(r) ==
    LET c == EncClose(EncBegin(r))
        why == IF c.e.stop # "" THEN c.e.stop ELSE IF c.e.sawTool THEN "tool_use" ELSE "end_turn"
    IN Written(c.e, c.g, EndEvent(why))
----------------------------------------------------------------------------
(* formatStream: fragments of a structured answer to content. *)

SkipSpace(s, i) == CHOOSE j \in i..Len(s) + 1 :
    /\ j > Len(s) \/ s[j] # " "
    /\ \A k \in i..j - 1 : s[k] = " "

\* Length of a complete opener {"value": with something behind it, or None.
WrapperPrefix(s) ==
    LET brace == SkipSpace(s, 1)
        name == SkipSpace(s, brace + 1)
        value == SkipSpace(s, name + 1)
    IN IF /\ brace <= Len(s) /\ s[brace] = "{"
          /\ name <= Len(s) /\ s[name] = "value:"
          /\ value <= Len(s)
       THEN value - 1 ELSE None

TrimRight(s) == CHOOSE t \in {SubSeq(s, 1, n) : n \in 0..Len(s)} :
    /\ t # <<>> => t[Len(t)] # " "
    /\ \A k \in Len(t) + 1..Len(s) : s[k] = " "

\* What can go out: all but trailing space and the brace before it.
Held(s) ==
    LET t == TrimRight(s) IN IF t # <<>> /\ t[Len(t)] = "}" THEN Len(t) - 1 ELSE Len(t)

Feed(a, wrapped, frag) ==
    LET buf == a.buf \o frag
        n == WrapperPrefix(buf)
        body == IF a.prefix THEN buf ELSE SubSeq(buf, n + 1, Len(buf))
        cut == Held(body)
    IN CASE ~wrapped -> [a |-> [a EXCEPT !.sent = @ \/ frag # <<>>], out |-> frag]
         [] wrapped /\ ~a.prefix /\ n = None -> [a |-> [a EXCEPT !.buf = buf], out |-> <<>>]
         [] OTHER -> [a |-> [a EXCEPT !.prefix = TRUE, !.buf = SubSeq(body, cut + 1, Len(body)), !.sent = @ \/ cut > 0],
                      out |-> SubSeq(body, 1, cut)]

Flush(a, wrapped) ==
    LET held == IF wrapped /\ ~a.prefix THEN a.buf ELSE <<>>
    IN IF held = <<>> /\ ~a.sent THEN <<"{", "}">> ELSE held

\* What Chat reads from the same input (answer).
AnswerOf(input) ==
    LET t == TrimRight(input.tokens) IN
    IF t = <<>> THEN <<"{", "}">>
    ELSE IF input.wrapped /\ WrapperPrefix(t) # None THEN SubSeq(t, WrapperPrefix(t) + 1, Len(t) - 1) ELSE t

\* Space outside strings means nothing in JSON.
SameJSON(a, b) == SelectSeq(a, LAMBDA x : x # " ") = SelectSeq(b, LAMBDA x : x # " ")
----------------------------------------------------------------------------
(* What every adapter's step has in common. *)

Encoding == [e |-> enc, g |-> got]

Deliver(chunks) ==
    IF route.sink = "chat"
    THEN got' = [got EXCEPT !.a = FoldLeft(HearChunk, @, chunks)] /\ UNCHANGED enc
    ELSE LET r == FoldLeft(EncChunk, Encoding, chunks) IN got' = r.g /\ enc' = r.e

\* The native path hands an event on as it came.
Pass(event) == got' = HearEvent(got, event) /\ UNCHANGED enc

Sends(kinds, phases) == ended = "" /\ route.kind \in kinds /\ wire.phase \in phases /\ wire.n < MaxEvents[route.kind]
Sent(w) == wire' = [w EXCEPT !.n = @ + 1] /\ UNCHANGED route

\* ChatStream returned; stream() finishes the Messages answer of a good end.
Return(how) ==
    /\ ended' = how
    /\ IF how = "ok" /\ route.sink = "messages"
       THEN LET r == EncFinish(Encoding) IN got' = r.g /\ enc' = r.e
       ELSE UNCHANGED <<got, enc>>

\* The upstream's connection closes.  Only Ollama's adapter knows that an
\* answer without its last line is not one.
Closes ==
    /\ ended = "" /\ route.kind \in Kinds
    /\ Return(IF route.kind = "ollama" THEN "failed" ELSE "ok")
    /\ UNCHANGED <<route, wire, said, ad>>

\* Reading the response fails: cut connection, size or duration limit.
Breaks ==
    /\ ended = "" /\ Return("failed")
    /\ UNCHANGED <<route, wire, said, ad>>
----------------------------------------------------------------------------
(* OpenAI-compatible upstreams and Azure: their chunks are the format. *)

OpenAILike == {"openai", "azure"}

OpenAIText ==
    /\ Sends(OpenAILike, {"start"})
    /\ said' = [said EXCEPT !.text = Append(@, "t")]
    /\ Deliver(<<[Chunk EXCEPT !.text = <<"t">>]>>)
    /\ Sent([wire EXCEPT !.type = "text"]) /\ UNCHANGED <<ad, ended>>

\* reasoning_content, folded into a thinking update of block 0.
OpenAIReasoning ==
    /\ Sends(OpenAILike, {"start"})
    /\ said' = [said EXCEPT !.thoughts = Append(@, "r")]
    /\ Deliver(<<[Chunk EXCEPT !.thoughts = <<<<"r">>>>]>>)
    /\ Sent([wire EXCEPT !.type = "thinking", !.returned = @ \/ (said.thoughts # <<>> /\ wire.type # "thinking")])
    /\ UNCHANGED <<ad, ended>>

OpenAICall(args) ==
    /\ Sends(OpenAILike, {"start"})
    /\ said' = [said EXCEPT !.calls = Append(@, NewCall(args, FALSE))]
    /\ Deliver(<<[Chunk EXCEPT !.calls = <<[index |-> Len(said.calls), args |-> args, sig |-> FALSE]>>]>>)
    /\ Sent([wire EXCEPT !.type = "call"]) /\ UNCHANGED <<ad, ended>>

OpenAIArgs(i) ==
    /\ Sends(OpenAILike, {"start"}) /\ i < Len(said.calls)
    /\ said' = [said EXCEPT !.calls[i + 1].args = @ + 1]
    /\ Deliver(<<[Chunk EXCEPT !.calls = <<[index |-> i, args |-> 1, sig |-> FALSE]>>]>>)
    /\ Sent([wire EXCEPT !.returned = @ \/ i # Len(said.calls) - 1 \/ wire.type # "call"])
    /\ UNCHANGED <<ad, ended>>

OpenAIFinish(why) ==
    /\ Sends(OpenAILike, {"start"}) /\ (why = "tool_calls" => said.calls # <<>>)
    /\ said' = [said EXCEPT !.finish = why]
    /\ Deliver(<<[Chunk EXCEPT !.finish = why]>>)
    /\ Sent([wire EXCEPT !.phase = "finished"]) /\ UNCHANGED <<ad, ended>>

\* A chunk without choices: the usage trailer, or Azure's first one, which its
\* adapter drops.
OpenAIBare ==
    /\ Sends(OpenAILike, {"start", "finished"})
    /\ Deliver(IF route.kind = "azure" /\ wire.phase = "start" THEN <<>> ELSE <<[Chunk EXCEPT !.bare = TRUE]>>)
    /\ Sent(wire) /\ UNCHANGED <<said, ad, ended>>

\* {"error": ...} in the stream: Azure's adapter looks for it; the other one
\* decodes it, without an error, into a chunk without choices.
OpenAIError ==
    /\ Sends(OpenAILike, {"start"}) /\ ~wire.error
    /\ IF route.kind = "azure" THEN Return("failed")
       ELSE Deliver(<<[Chunk EXCEPT !.bare = TRUE]>>) /\ UNCHANGED ended
    /\ Sent([wire EXCEPT !.error = TRUE, !.phase = "finished"]) /\ UNCHANGED <<said, ad>>
----------------------------------------------------------------------------
(* Anthropic: content blocks, numbered, one open at a time. *)

AnswerTool == route.form # NoInput

AnthropicFinish(stop) ==
    CASE stop \in {"end_turn", "stop_sequence"} -> "stop" [] stop = "max_tokens" -> "length"
      [] stop = "refusal" -> "content_filter" [] stop = "tool_use" -> "tool_calls" [] OTHER -> "stop"

AnthropicStart ==
    /\ Sends({"anthropic"}, {"start"})
    /\ IF route.sink = "native" THEN Pass(Event("begin", None, "", <<>>)) ELSE Deliver(<<Chunk>>)
    /\ Sent([wire EXCEPT !.phase = "body"]) /\ UNCHANGED <<said, ad, ended>>

\* In the mode of a forced answer the model's one block is that call or one of
\* the client's tools.
BlockTypes == IF AnswerTool THEN (IF wire.next = 0 THEN {"answer", "tool_use"} ELSE {})
              ELSE {"text", "thinking", "redacted_thinking", "tool_use"}

AnthropicBlock(type) ==
    /\ Sends({"anthropic"}, {"body"}) /\ wire.open = None /\ type \in BlockTypes
    /\ said' = CASE type = "tool_use" -> [said EXCEPT !.calls = Append(@, NewCall(0, FALSE))]
                 [] type = "redacted_thinking" -> [said EXCEPT !.thoughts = Append(@, "r")]
                 [] OTHER -> said
    /\ ad' = CASE type = "tool_use" -> [ad EXCEPT !.blocks = Append(@, wire.next)]
               [] type = "answer" -> [ad EXCEPT !.answered = TRUE]
               [] OTHER -> ad
    /\ IF route.sink = "native" THEN Pass(Event("start", wire.next, type, IF type = "redacted_thinking" THEN <<"r">> ELSE <<>>))
       ELSE Deliver(CASE type = "tool_use" -> <<[Chunk EXCEPT !.calls = <<[index |-> Len(ad.blocks), args |-> 0, sig |-> FALSE]>>]>>
                      [] type = "thinking" -> <<[Chunk EXCEPT !.thoughts = <<<<>>>>]>>
                      [] type = "redacted_thinking" -> <<[Chunk EXCEPT !.thoughts = <<<<"r">>>>]>>
                      [] OTHER -> <<>>)
    /\ Sent([wire EXCEPT !.open = wire.next, !.type = type, !.next = @ + 1,
                         !.left = IF type = "answer" THEN route.form.tokens ELSE <<>>])
    /\ UNCHANGED ended

\* Mutant of ToolIndex: the block's number is used as the call's index.
ToolIndex_Block(block) == block

\* toolCallStream: calls are numbered in the order their blocks opened.
ToolIndex(block) == (CHOOSE i \in DOMAIN ad.blocks : ad.blocks[i] = block) - 1

AnthropicDelta ==
    /\ Sends({"anthropic"}, {"body"}) /\ wire.type \in {"text", "thinking", "tool_use"} /\ wire.open # None
    /\ said' = CASE wire.type = "text" -> [said EXCEPT !.text = Append(@, "t")]
                 [] wire.type = "thinking" -> [said EXCEPT !.thoughts = Append(@, "r")]
                 [] OTHER -> [said EXCEPT !.calls[Len(said.calls)].args = @ + 1]
    /\ IF route.sink = "native"
       THEN Pass(Event("delta", wire.open, "", <<CASE wire.type = "text" -> "t" [] wire.type = "thinking" -> "r" [] OTHER -> "args">>))
       ELSE Deliver(CASE wire.type = "text" -> <<[Chunk EXCEPT !.text = <<"t">>]>>
                      [] wire.type = "thinking" -> <<[Chunk EXCEPT !.thoughts = <<<<"r">>>>]>>
                      [] OTHER -> <<[Chunk EXCEPT !.calls = <<[index |-> ToolIndex(wire.open), args |-> 1, sig |-> FALSE]>>]>>)
    /\ Sent(wire) /\ UNCHANGED <<ad, ended>>

\* n tokens of the structured answer's input.
AnthropicAnswerDelta(n) ==
    /\ Sends({"anthropic"}, {"body"}) /\ wire.type = "answer" /\ wire.open # None /\ n \in 1..Len(wire.left)
    /\ LET f == Feed(ad, route.form.wrapped, SubSeq(wire.left, 1, n)) IN
       /\ ad' = f.a
       /\ Deliver(IF f.out = <<>> THEN <<>> ELSE <<[Chunk EXCEPT !.text = f.out]>>)
    /\ Sent([wire EXCEPT !.left = SubSeq(@, n + 1, Len(@))]) /\ UNCHANGED <<said, ended>>

AnthropicStop ==
    /\ Sends({"anthropic"}, {"body"}) /\ wire.open # None /\ wire.left = <<>>
    /\ LET tail == IF wire.type = "answer" THEN Flush(ad, route.form.wrapped) ELSE <<>> IN
       /\ said' = IF wire.type = "answer" THEN [said EXCEPT !.text = AnswerOf(route.form)] ELSE said
       /\ IF route.sink = "native" THEN Pass(Event("stop", wire.open, "", <<>>))
          ELSE Deliver(IF tail = <<>> THEN <<>> ELSE <<[Chunk EXCEPT !.text = tail]>>)
    /\ Sent([wire EXCEPT !.open = None]) /\ UNCHANGED <<ad, ended>>

\* An answer given as a forced call ends with "stop", not "tool_calls".
Finished(stop, answered, calls) ==
    IF answered /\ calls = 0 /\ stop = "tool_use" THEN "stop" ELSE AnthropicFinish(stop)

AnthropicMessageDelta(stop) ==
    /\ Sends({"anthropic"}, {"body"}) /\ wire.open = None
    /\ (stop = "tool_use") => (said.calls # <<>> \/ ad.answered)
    /\ said' = [said EXCEPT !.finish = IF route.sink = "native" THEN stop
                                       ELSE Finished(stop, ad.answered, Len(said.calls))]
    /\ IF route.sink = "native" THEN UNCHANGED <<got, enc>>
       ELSE Deliver(<<[Chunk EXCEPT !.finish = Finished(stop, ad.answered, Len(ad.blocks))]>>)
    /\ Sent([wire EXCEPT !.phase = "final"]) /\ UNCHANGED <<ad, ended>>

AnthropicMessageStop ==
    /\ Sends({"anthropic"}, {"final"})
    /\ IF route.sink = "native" THEN Pass(EndEvent(said.finish)) ELSE Deliver(<<[Chunk EXCEPT !.bare = TRUE]>>)
    /\ Sent([wire EXCEPT !.phase = "finished"]) /\ UNCHANGED <<said, ad, ended>>

AnthropicError ==
    /\ Sends({"anthropic"}, {"start", "body", "final"})
    /\ Return("failed")
    /\ Sent([wire EXCEPT !.error = TRUE]) /\ UNCHANGED <<said, ad>>
----------------------------------------------------------------------------
(* Gemini: frames of parts; calls come whole, their signature perhaps on a *)
(* part of its own.                                                        *)

Parts == {"text", "thought", "call", "signed", "signature"}
IsCall(p) == p \in {"call", "signed"}
TextOf(ps) == SelectSeq(ps, LAMBDA p : p = "text")
ThoughtsOf(ps) == SelectSeq(ps, LAMBDA p : p = "thought")

\* geminiSignatures.collect; s has the turn's state, and in first the place in
\* calls of the turn's first call when this content holds it.
Collect(s, p) ==
    LET own == p = "signed"
        first == ~s.seenCall
    IN IF IsCall(p)
       THEN [s EXCEPT !.calls = Append(@, NewCall(1, own \/ (first /\ s.pending))), !.seenCall = TRUE,
                      !.pending = @ /\ ~first, !.first = IF first THEN Len(s.calls) + 1 ELSE @]
       ELSE CASE p = "signature" /\ ~s.seenCall -> [s EXCEPT !.pending = TRUE]
              [] p = "signature" /\ s.seenCall /\ s.first > 0 -> [s EXCEPT !.calls[s.first].sig = TRUE]
              [] OTHER -> s

CollectFrame(parts) ==
    FoldLeft(Collect, [calls |-> <<>>, first |-> 0, pending |-> ad.pending, seenCall |-> ad.seenCall], parts)

\* What Chat collects from the parts of all frames.
Gathered(parts) ==
    FoldLeft(Collect, [calls |-> said.calls, first |-> IF said.calls = <<>> THEN 0 ELSE 1,
                       pending |-> ad.pending, seenCall |-> said.calls # <<>>], parts).calls

WholeCalls(calls) ==
    [i \in DOMAIN calls |-> [Chunk EXCEPT !.calls = <<[index |-> Len(ad.blocks) + i - 1, args |-> calls[i].args,
                                                       sig |-> calls[i].sig]>>]]

GeminiFinish(reason) == CASE reason = "STOP" -> "stop" [] reason = "MAX_TOKENS" -> "length" [] OTHER -> "content_filter"

GeminiFrame(parts, reason) ==
    /\ Sends({"gemini"}, {"start"})
    /\ LET s == CollectFrame(parts)
           all == Len(ad.blocks) + Len(s.calls)
           opening == [Chunk EXCEPT !.text = TextOf(parts), !.thoughts = IF ThoughtsOf(parts) = <<>> THEN <<>> ELSE <<ThoughtsOf(parts)>>]
           whole == Gathered(parts)
       IN /\ ad' = [ad EXCEPT !.pending = s.pending, !.seenCall = s.seenCall,
                              !.blocks = @ \o [i \in DOMAIN s.calls |-> None]]
          /\ said' = [said EXCEPT !.text = @ \o TextOf(parts), !.thoughts = @ \o ThoughtsOf(parts), !.calls = whole,
                                  !.finish = IF reason = "" THEN @ ELSE IF whole # <<>> THEN "tool_calls" ELSE GeminiFinish(reason)]
          /\ Deliver((IF opening # Chunk \/ s.calls = <<>> THEN <<opening>> ELSE <<>>)
                     \o WholeCalls(s.calls)
                     \o (IF reason = "" THEN <<>>
                         ELSE <<[Chunk EXCEPT !.finish = IF all > 0 THEN "tool_calls" ELSE GeminiFinish(reason)]>>))
          /\ Sent([wire EXCEPT !.phase = IF reason = "" THEN @ ELSE "finished",
                               !.returned = @ \/ (said.thoughts # <<>> /\ ThoughtsOf(parts) # <<>> /\ wire.type # "thinking"),
                               !.type = IF s.calls # <<>> \/ TextOf(parts) # <<>> THEN "text"
                                        ELSE IF ThoughtsOf(parts) # <<>> THEN "thinking" ELSE @,
                               !.late = @ \/ (said.calls # <<>> /\ ~said.calls[1].sig /\ whole[1].sig)])
    /\ UNCHANGED ended
----------------------------------------------------------------------------
(* Ollama: lines; the last one says so. *)

OllamaLine(text, thoughts, calls, done) ==
    /\ Sends({"ollama"}, {"start"})
    /\ LET whole == WholeCalls([i \in 1..calls |-> NewCall(1, FALSE)])
           opening == [Chunk EXCEPT !.text = text, !.thoughts = IF thoughts = <<>> THEN <<>> ELSE <<thoughts>>]
           total == Len(ad.blocks) + calls
           why == IF total > 0 THEN "tool_calls" ELSE done
           \* The text rides with the first call, the finish with the last one.
           chunks == IF calls = 0 THEN <<opening>>
                     ELSE <<[opening EXCEPT !.calls = whole[1].calls]>> \o Tail(whole)
       IN /\ ad' = [ad EXCEPT !.blocks = @ \o [i \in 1..calls |-> None]]
          /\ said' = [said EXCEPT !.text = @ \o text, !.thoughts = @ \o thoughts,
                                  !.calls = @ \o [i \in 1..calls |-> NewCall(1, FALSE)],
                                  !.finish = IF done = "" THEN @ ELSE IF said.calls # <<>> \/ calls > 0 THEN "tool_calls" ELSE done]
          /\ Deliver(IF done = "" THEN chunks
                     ELSE [chunks EXCEPT ![Len(chunks)].finish = why] \o <<[Chunk EXCEPT !.bare = TRUE]>>)
    /\ ended' = IF done = "" THEN ended ELSE "last"
    /\ Sent([wire EXCEPT !.phase = IF done = "" THEN @ ELSE "finished",
                         !.returned = @ \/ (said.thoughts # <<>> /\ thoughts # <<>> /\ wire.type # "thinking"),
                         !.type = IF calls > 0 \/ text # <<>> THEN "text" ELSE IF thoughts # <<>> THEN "thinking" ELSE @])

\* The last line was sent: ChatStream returns.
OllamaReturns == ended = "last" /\ Return("ok") /\ UNCHANGED <<route, wire, said, ad>>

OllamaError ==
    /\ Sends({"ollama"}, {"start"})
    /\ Return("failed")
    /\ Sent([wire EXCEPT !.error = TRUE]) /\ UNCHANGED <<said, ad>>
----------------------------------------------------------------------------
FinishReasons == {"stop", "length", "tool_calls"}
StopReasons == {"end_turn", "max_tokens", "tool_use", "pause_turn"}
Frames == {<<>>} \cup {<<p>> : p \in Parts} \cup {<<p, q>> : p, q \in Parts}

StreamNext ==
    \/ OpenAIText \/ OpenAIReasoning \/ OpenAIBare \/ OpenAIError
    \/ \E args \in 0..1 : OpenAICall(args)
    \/ \E i \in 0..3 : OpenAIArgs(i)
    \/ \E why \in FinishReasons : OpenAIFinish(why)
    \/ AnthropicStart \/ AnthropicDelta \/ AnthropicStop \/ AnthropicMessageStop \/ AnthropicError
    \/ \E type \in {"text", "thinking", "redacted_thinking", "tool_use", "answer"} : AnthropicBlock(type)
    \/ \E n \in 1..8 : AnthropicAnswerDelta(n)
    \/ \E stop \in StopReasons : AnthropicMessageDelta(stop)
    \/ \E parts \in Frames, reason \in {"", "STOP", "MAX_TOKENS", "SAFETY"} : GeminiFrame(parts, reason)
    \/ \E text \in {<<>>, <<"t">>}, thoughts \in {<<>>, <<"r">>}, calls \in 0..2, done \in {"", "stop", "length"} :
         OllamaLine(text, thoughts, calls, done)
    \/ OllamaReturns \/ OllamaError
    \/ Closes \/ Breaks

StreamSpec == StreamInit /\ [][StreamNext]_stVars
----------------------------------------------------------------------------
BodyOf(kind) == FlattenSeq([i \in DOMAIN SelectSeq(got.blocks, LAMBDA b : b.kind = kind) |->
                              SelectSeq(got.blocks, LAMBDA b : b.kind = kind)[i].body])
ToolBlocks == SelectSeq(got.blocks, LAMBDA b : b.kind = "tool_use")
ArgsOf(calls) == [i \in DOMAIN calls |-> calls[i].args]

\* The answer that a complete stream puts together is the one Chat returns for
\* the same content: text, reasoning, every call with its own arguments and
\* signature, and the reason it ended.  Two things a stream cannot bring: more
\* of a block that another one has closed (MessagesEncoder), and a signature in
\* a later frame than its call (geminiSignatures).
StreamIsWhole ==
    ended = "ok" /\ wire.phase = "finished" /\ ~wire.error =>
        CASE route.sink = "chat" ->
               /\ SameJSON(got.a.text, said.text) /\ got.a.thoughts = said.thoughts /\ got.a.finish = said.finish
               /\ IF wire.late THEN ArgsOf(got.a.calls) = ArgsOf(said.calls) ELSE got.a.calls = said.calls
          [] route.sink = "messages" ->
               /\ BodyOf("text") = said.text
               /\ got.a.finish = MessagesStopReason(said.finish) /\ got.closed
               /\ ~wire.returned => /\ BodyOf("thinking") = said.thoughts
                                    /\ [i \in DOMAIN ToolBlocks |-> Len(ToolBlocks[i].body)] = ArgsOf(said.calls)
               /\ Len(ToolBlocks) = Len(said.calls)
          [] OTHER ->
               /\ BodyOf("text") = said.text /\ got.a.finish = said.finish /\ got.closed
               /\ Len(BodyOf("thinking") \o BodyOf("redacted_thinking")) = Len(said.thoughts)
               /\ [i \in DOMAIN ToolBlocks |-> Len(ToolBlocks[i].body)] = ArgsOf(said.calls)

\* A Messages stream begins once, has one block open at a time, numbers its
\* blocks without a gap, and ends with every block closed (MessagesEncoder).
BlocksNest == ~got.bad /\ (got.closed => got.open = None)

\* openai.go: "Some servers emit error objects mid-stream."  An upstream that
\* reports a failure has its answer end as one.
FailureIsReported == ended = "ok" => ~wire.error
============================================================================
