------------------------------- MODULE Relay -------------------------------
(***************************************************************************)
(* Relaying one streamed call (stream, nativeStream).  On the canonical    *)
(* path the adapter runs in a goroutine of its own and hands its chunks to *)
(* the handler over a channel; on the native path the handler reads the    *)
(* upstream's events itself.  Around them: the timer of the first-byte     *)
(* budget, the client, which may go at any time, and the server, which     *)
(* notices it later.                                                       *)
(***************************************************************************)
EXTENDS Integers

CONSTANTS MaxChunks,  \* chunks of one answer
          ChanCap     \* capacity of the channel

ASSUME RelayBounds == MaxChunks \in Nat /\ ChanCap \in Nat \ {0}

VARIABLES path,      \* "chat" or "messages" (both canonical), or "native"
          upstream,  \* [said, state]: chunks it sent; talking, ended, failed, told (native: sent an error event)
          adapter,   \* [state, hand, err]: the goroutine, or the native reader; hand = 1 with a chunk read and not handed over
          channel,   \* chunks in the channel
          budget,    \* none, armed, hit, stopped: the first-byte timer
          client,    \* there, left, noticed (r.Context() is done)
          strm,      \* the handler: [headers, raced, gone, written, pinged, state, end]; raced: the timer had fired when the headers went
          settled    \* the log row's status, "" while untouched
relayVars == <<path, upstream, adapter, channel, budget, client, strm, settled>>

Canonical == path # "native"

\* The context of the upstream call: derived from the request's, cancelled by
\* the timer and, after a failed write, by the handler.
Cancelled == client = "noticed" \/ budget = "hit" \/ strm.gone

RelayInit ==
    /\ path \in {"chat", "messages", "native"}
    /\ upstream = [said |-> 0, state |-> "talking"]
    /\ adapter \in [state : {"running"}, hand : {0}, err : {"none"}]
    /\ channel = 0
    /\ budget \in {"none", "armed"}
    /\ client = "there"
    /\ strm = [headers |-> FALSE, raced |-> FALSE, gone |-> FALSE, written |-> 0, pinged |-> FALSE, state |-> "loop", end |-> FALSE]
    /\ settled = ""
----------------------------------------------------------------------------
(* The world around the handler. *)

ClientLeaves ==
    /\ client = "there" /\ strm.state = "loop" /\ client' = "left"
    /\ UNCHANGED <<path, upstream, adapter, channel, budget, strm, settled>>

ServerNotices ==
    /\ client = "left" /\ strm.state = "loop" /\ client' = "noticed"
    /\ UNCHANGED <<path, upstream, adapter, channel, budget, strm, settled>>

BudgetFires ==
    /\ budget = "armed" /\ strm.state = "loop" /\ budget' = "hit"
    /\ UNCHANGED <<path, upstream, adapter, channel, client, strm, settled>>

\* A chunk arrives and the reader has it in hand.
Reads ==
    /\ adapter.state = "running" /\ adapter.hand = 0 /\ upstream.state = "talking" /\ upstream.said < MaxChunks
    /\ upstream' = [upstream EXCEPT !.said = @ + 1]
    /\ adapter' = [adapter EXCEPT !.hand = 1]
    /\ UNCHANGED <<path, channel, budget, client, strm, settled>>

AdapterReturns(err) == adapter' = [adapter EXCEPT !.state = "returned", !.hand = 0, !.err = err]

\* The answer is complete: an adapter returns nil.  The native reader calls an
\* answer without an event a failure.
UpstreamEnds ==
    /\ adapter.state = "running" /\ adapter.hand = 0 /\ upstream.state \in {"talking", "told"}
    /\ upstream' = [upstream EXCEPT !.state = IF @ = "told" THEN @ ELSE "ended"]
    /\ AdapterReturns(IF ~Canonical /\ ~strm.headers THEN "upstream" ELSE "none")
    /\ UNCHANGED <<path, channel, budget, client, strm, settled>>

\* Refused, cut, reported as an error, or the adapter panicked.
UpstreamFails ==
    /\ adapter.state = "running" /\ adapter.hand = 0 /\ upstream.state = "talking"
    /\ upstream' = [upstream EXCEPT !.state = "failed"]
    /\ AdapterReturns("upstream")
    /\ UNCHANGED <<path, channel, budget, client, strm, settled>>

\* A native error event is one more event; the reader only remembers it.
UpstreamTells ==
    /\ ~Canonical /\ adapter.state = "running" /\ adapter.hand = 0 /\ upstream.state = "talking"
    /\ upstream' = [said |-> upstream.said + 1, state |-> "told"]
    /\ adapter' = [adapter EXCEPT !.hand = 1]
    /\ UNCHANGED <<path, channel, budget, client, strm, settled>>

\* Reading under a cancelled context fails.
ReadCancelled ==
    /\ adapter.state = "running" /\ adapter.hand = 0 /\ Cancelled
    /\ AdapterReturns("context")
    /\ UNCHANGED <<path, upstream, channel, budget, client, strm, settled>>

Hands ==
    /\ Canonical /\ adapter.state = "running" /\ adapter.hand = 1 /\ channel < ChanCap
    /\ adapter' = [adapter EXCEPT !.hand = 0]
    /\ channel' = channel + 1
    /\ UNCHANGED <<path, upstream, budget, client, strm, settled>>

\* emit gives up under a cancelled context: Ollama's adapter returns the
\* context's error, the ones that read SSE return nil.
GivesUp ==
    /\ Canonical /\ adapter.state = "running" /\ adapter.hand = 1 /\ Cancelled
    /\ \E err \in {"none", "context"} : AdapterReturns(err)
    /\ UNCHANGED <<path, upstream, channel, budget, client, strm, settled>>
----------------------------------------------------------------------------
(* The handler. *)

\* sendHeaders, begin: Stop does nothing to a timer that has fired.
Stopped == IF budget = "armed" THEN "stopped" ELSE budget

\* Writing to a client that has left may fail at once or be buffered.
Writes(s) ==
    LET begun == [s EXCEPT !.headers = TRUE, !.raced = @ \/ (~s.headers /\ budget = "hit")] IN
    IF client = "there" THEN strm' = [begun EXCEPT !.written = @ + 1]
    ELSE strm' \in {[begun EXCEPT !.gone = g] : g \in BOOLEAN}

\* Mutant of Takes: headers go out without stopping the timer.
Takes_TimerRuns ==
    /\ Canonical /\ strm.state = "loop" /\ channel > 0 /\ ~strm.gone
    /\ channel' = channel - 1
    /\ Writes(strm)
    /\ UNCHANGED <<path, upstream, adapter, budget, client, settled>>

Takes ==
    /\ Canonical /\ strm.state = "loop" /\ channel > 0 /\ ~strm.gone
    /\ channel' = channel - 1
    /\ Writes(strm) /\ budget' = Stopped
    /\ UNCHANGED <<path, upstream, adapter, client, settled>>

\* After a failed write the rest is drained, so that the adapter can end.
Drains ==
    /\ Canonical /\ strm.state = "loop" /\ channel > 0 /\ strm.gone
    /\ channel' = channel - 1
    /\ UNCHANGED <<path, upstream, adapter, budget, client, strm, settled>>

\* The upstream was quiet for a while.
Pings ==
    /\ path = "messages" /\ strm.state = "loop" /\ strm.headers /\ ~strm.gone /\ ~strm.pinged
    /\ strm' \in {[strm EXCEPT !.pinged = TRUE, !.gone = g] : g \in IF client = "there" THEN {FALSE} ELSE BOOLEAN}
    /\ UNCHANGED <<path, upstream, adapter, channel, budget, client, settled>>

\* Relay writes the event it has read; a failed write ends it.
Relays ==
    /\ ~Canonical /\ strm.state = "loop" /\ adapter.state = "running" /\ adapter.hand = 1
    /\ Writes(strm) /\ budget' = Stopped
    /\ adapter' = IF strm'.gone THEN [state |-> "returned", hand |-> 0, err |-> "write"] ELSE [adapter EXCEPT !.hand = 0]
    /\ UNCHANGED <<path, upstream, channel, client, settled>>

\* The upstream call is over and its chunks are dealt with.
Over == strm.state = "loop" /\ adapter.state = "returned" /\ channel = 0

\* Canonical: a request whose client is gone counts as that, whatever came.
\* Native: only once the client had an event.
ClientClosed ==
    \/ strm.gone
    \/ client = "noticed" /\ (Canonical \/ strm.headers)

Settle499 ==
    /\ Over /\ ClientClosed
    /\ strm' = [strm EXCEPT !.state = "returned"] /\ settled' = "499"
    /\ UNCHANGED <<path, upstream, adapter, channel, budget, client>>

BudgetCut == budget = "hit" /\ ~strm.headers

\* Mutant of MayGoOn: a stream that has begun is handed to the next target.
MayGoOn_Begun == adapter.err # "none" \/ BudgetCut

\* Nothing was written: the error goes back, for another target or an answer.
MayGoOn == (adapter.err # "none" \/ BudgetCut) /\ ~strm.headers

ReturnError ==
    /\ Over /\ ~ClientClosed /\ MayGoOn
    /\ strm' = [strm EXCEPT !.state = IF BudgetCut THEN "timeout" ELSE "error"]
    /\ UNCHANGED <<path, upstream, adapter, channel, budget, client, settled>>

\* A failure after the first chunk, and an error event the upstream sent.
Verdict == IF adapter.err # "none" \/ upstream.state = "told" THEN "502" ELSE "200"

\* The rest is settled in the row, and the stream gets its end.
SettleStream ==
    /\ Over /\ ~ClientClosed /\ ~MayGoOn
    /\ settled' = Verdict
    /\ strm' = [strm EXCEPT !.state = "returned", !.headers = TRUE, !.end = client = "there"]
    /\ budget' = Stopped
    /\ UNCHANGED <<path, upstream, adapter, channel, client>>

RelayNext ==
    \/ ClientLeaves \/ ServerNotices \/ BudgetFires
    \/ Reads \/ UpstreamEnds \/ UpstreamFails \/ UpstreamTells \/ ReadCancelled \/ Hands \/ GivesUp
    \/ Takes \/ Drains \/ Pings \/ Relays
    \/ Settle499 \/ ReturnError \/ SettleStream

RelaySpec == RelayInit /\ [][RelayNext]_relayVars
----------------------------------------------------------------------------
\* "Nothing has been written and rec is untouched: the caller may then try
\* another target" (stream): the error a stream call returns leaves the client
\* without a byte, the row as it was, and no adapter behind; only a call whose
\* timer fired before its headers is a timeout.
ErrorIsClean ==
    strm.state \in {"error", "timeout"} =>
        /\ ~strm.headers /\ strm.written = 0 /\ settled = ""
        /\ adapter.state = "returned" /\ adapter.hand = 0 /\ channel = 0
        /\ (strm.state = "timeout") = (budget = "hit")

\* The row tells what the client got: 200 is an answer the upstream completed
\* and of which every chunk reached a client that stayed, 502 a failure of the
\* upstream, 499 a client that left.  A timer that fired while the first chunk
\* was on its way is the exception (BudgetSparesStream).
RowTellsTheTruth ==
    CASE settled = "499" -> client # "there"
      [] settled = "200" /\ ~strm.raced ->
           upstream.state = "ended" /\ (client = "there" => strm.written = upstream.said /\ strm.end)
      [] settled = "502" /\ ~strm.raced -> upstream.state \in {"failed", "told"}
      [] OTHER -> TRUE

\* stream: "it does not limit the stream afterwards".  An answer that has begun
\* is complete unless the upstream fails or the client goes.
BudgetSparesStream ==
    settled = "200" /\ client = "there" => strm.written = upstream.said
=============================================================================
