---------------------------- MODULE Gateway_proofs ----------------------------
(***************************************************************************)
(* Proofs about the modules on the way of a gateway request that share no  *)
(* state: what a streamed call leaves behind (Relay), for answers of any   *)
(* length and a channel of any capacity; what a request is answered,       *)
(* logged and charged (Request), for any connections, retries and tools;   *)
(* how the blocks of a Messages stream nest (Streams), for streams of any  *)
(* length; and the thinking a provider is asked for (Translate), for any   *)
(* conversation and any max_tokens.                                        *)
(***************************************************************************)
EXTENDS Relay, Request, Streams, Translate, SequenceTheorems, WellFoundedInduction, TLAPS

Handler == [headers : BOOLEAN, raced : BOOLEAN, gone : BOOLEAN, written : Nat, pinged : BOOLEAN,
            state : {"loop", "error", "timeout", "returned"}, end : BOOLEAN]

UpstreamCall == [said : Nat, state : {"talking", "ended", "failed", "told"}]
Adapter == [state : {"running", "returned"}, hand : {0, 1}, err : {"none", "upstream", "context", "write"}]

RelayTypeOK ==
    /\ path \in {"chat", "messages", "native"}
    /\ upstream \in UpstreamCall
    /\ adapter \in Adapter
    /\ channel \in Nat
    /\ budget \in {"none", "armed", "hit", "stopped"}
    /\ client \in {"there", "left", "noticed"}
    /\ strm \in Handler
    /\ settled \in {"", "499", "200", "502"}

\* How the reader ended says why: the upstream failed or said nothing, the
\* call's context was cancelled, or the client could not be written to.
CauseKnown ==
    /\ adapter.state = "running" => adapter.err = "none"
    /\ adapter.state = "returned" => adapter.hand = 0
    /\ adapter.err = "upstream" => upstream.state = "failed" \/ (~Canonical /\ ~strm.headers)
    /\ adapter.err = "context" => Cancelled
    /\ adapter.err = "write" => strm.gone
    /\ (adapter.state = "returned" /\ adapter.err = "none") =>
          upstream.state \in {"ended", "told"} \/ (Canonical /\ Cancelled)

\* For a client that stays, every chunk is written, queued or in hand, unless
\* the timer fired.
NothingLost ==
    (client = "there" /\ budget # "hit") => strm.written + channel + adapter.hand = upstream.said

\* What the handler has done with the client and the timer.
HandlerKnows ==
    /\ client = "there" => ~strm.gone
    /\ strm.headers => budget # "armed" /\ (budget = "hit" => strm.raced)
    /\ ~strm.headers => strm.written = 0

\* It ends once, when nothing is left to relay.
EndsLast ==
    /\ strm.state # "loop" => adapter.state = "returned" /\ channel = 0
    /\ settled # "" => strm.state = "returned"

RelayInv ==
    /\ RelayTypeOK /\ CauseKnown /\ NothingLost /\ HandlerKnows /\ EndsLast
    /\ ErrorIsClean /\ RowTellsTheTruth

\* A new call has nothing to show yet.
LEMMA StartsClean == RelayInit => RelayInv
<1> SUFFICES ASSUME RelayInit PROVE RelayInv
  OBVIOUS
<1>1. strm \in Handler /\ ~strm.headers /\ ~strm.gone /\ strm.written = 0 /\ strm.state = "loop"
  BY DEF RelayInit, Handler
<1>2. adapter.state = "running" /\ adapter.hand = 0 /\ adapter.err = "none" /\ upstream.said = 0 /\ upstream.state = "talking"
  BY DEF RelayInit
<1>3. RelayTypeOK
  BY <1>1, <1>2 DEF RelayInit, RelayTypeOK, UpstreamCall, Adapter
<1>4. /\ CauseKnown
      /\ NothingLost /\ HandlerKnows /\ EndsLast
  <2>1. CauseKnown
    BY <1>2 DEF CauseKnown
  <2>2. NothingLost
    <3>1. channel = 0
      BY DEF RelayInit
    <3> QED
      BY <1>1, <1>2, <3>1 DEF NothingLost
  <2>3. HandlerKnows
    BY <1>1 DEF HandlerKnows
  <2>4. EndsLast
    BY <1>1 DEF RelayInit, EndsLast
  <2> QED
    BY <2>1, <2>2, <2>3, <2>4
<1>5. ErrorIsClean /\ RowTellsTheTruth
  BY <1>1 DEF RelayInit, ErrorIsClean, RowTellsTheTruth
<1> QED
  BY <1>3, <1>4, <1>5 DEF RelayInv

\* While the handler relays there is no error to judge and no row.
LEMMA NotYet ==
    ASSUME strm'.state = "loop", settled' = ""
    PROVE  ErrorIsClean' /\ RowTellsTheTruth'
BY DEF ErrorIsClean, RowTellsTheTruth

\* A handler whose reader runs, or that has a chunk to take, is relaying.
LEMMA StillRelaying ==
    ASSUME EndsLast, adapter.state = "running" \/ strm.state = "loop"
    PROVE  strm.state = "loop" /\ settled = ""
BY DEF EndsLast

\* What a write does: headers go first, and only a client that stays counts it.
LEMMA WriteFacts ==
    ASSUME strm \in Handler, client = "there" => ~strm.gone, Writes(strm)
    PROVE  /\ strm' \in Handler /\ strm'.headers /\ strm'.state = strm.state
           /\ strm.raced => strm'.raced
           /\ (~strm.headers /\ budget = "hit") => strm'.raced
           /\ client = "there" => strm'.written = strm.written + 1 /\ ~strm'.gone
<1> DEFINE begun == [strm EXCEPT !.headers = TRUE, !.raced = @ \/ (~strm.headers /\ budget = "hit")]
<1>1. /\ begun.headers /\ begun.state = strm.state /\ begun.gone = strm.gone
      /\ begun.written = strm.written /\ begun.pinged = strm.pinged /\ begun.end = strm.end
      /\ strm.raced => begun.raced
      /\ (~strm.headers /\ budget = "hit") => begun.raced
  BY DEF Handler
<1>2. begun \in Handler
  <2>1. (strm.raced \/ (~strm.headers /\ budget = "hit")) \in BOOLEAN
    OBVIOUS
  <2>2. \A b \in BOOLEAN : [strm EXCEPT !.headers = TRUE, !.raced = b] \in Handler
    BY DEF Handler
  <2> QED
    BY <2>1, <2>2
<1>3. IF client = "there" THEN strm' = [begun EXCEPT !.written = @ + 1]
      ELSE \E g \in BOOLEAN : strm' = [begun EXCEPT !.gone = g]
  BY DEF Writes
<1> HIDE DEF begun
<1>4. CASE client = "there"
  BY <1>1, <1>2, <1>3, <1>4 DEF Handler
<1>5. CASE client # "there"
  <2>1. PICK g \in BOOLEAN : strm' = [begun EXCEPT !.gone = g]
    BY <1>3, <1>5
  <2> QED
    BY <1>1, <1>2, <1>5, <2>1 DEF Handler
<1> QED
  BY <1>4, <1>5

\* The world: the client leaves, the server notices, the timer fires.
LEMMA WorldKeeps ==
    ASSUME RelayInv, ClientLeaves \/ ServerNotices \/ BudgetFires
    PROVE  RelayInv'
<1> USE DEF RelayInv
<1>1. /\ path' = path /\ upstream' = upstream /\ adapter' = adapter /\ channel' = channel
      /\ strm' = strm /\ settled' = settled /\ strm.state = "loop"
  BY DEF ClientLeaves, ServerNotices, BudgetFires
<1>2. /\ client' = client \/ (client = "there" /\ client' = "left") \/ (client = "left" /\ client' = "noticed")
      /\ budget' = budget \/ (budget = "armed" /\ budget' = "hit" /\ client' = client)
  BY DEF ClientLeaves, ServerNotices, BudgetFires
<1>3. Cancelled => Cancelled'
  BY <1>1, <1>2 DEF Cancelled
<1>4. RelayTypeOK'
  BY <1>1, <1>2 DEF RelayTypeOK
<1>5. CauseKnown'
  BY <1>1, <1>3 DEF CauseKnown, Canonical
<1>6. NothingLost' /\ HandlerKnows' /\ EndsLast'
  BY <1>1, <1>2 DEF NothingLost, HandlerKnows, EndsLast
<1>7. ErrorIsClean' /\ RowTellsTheTruth'
  BY <1>1, NotYet DEF EndsLast
<1> QED
  BY <1>4, <1>5, <1>6, <1>7

\* The reader takes a chunk, or the upstream's error event, in hand.
LEMMA ReadKeeps ==
    ASSUME RelayInv, Reads \/ UpstreamTells
    PROVE  RelayInv'
<1> USE DEF RelayInv
<1>1. /\ path' = path /\ channel' = channel /\ budget' = budget /\ client' = client /\ strm' = strm /\ settled' = settled
      /\ adapter.state = "running" /\ adapter.hand = 0
  BY DEF Reads, UpstreamTells
<1>2. /\ upstream'.said = upstream.said + 1 /\ upstream'.state \in {"talking", "told"}
      /\ upstream' \in UpstreamCall
  <2>1. upstream.said \in Nat /\ upstream.state = "talking"
    BY DEF Reads, UpstreamTells, RelayTypeOK, UpstreamCall
  <2>2. upstream' = [said |-> upstream.said + 1, state |-> "told"] \/ upstream' = [upstream EXCEPT !.said = @ + 1]
    BY DEF Reads, UpstreamTells
  <2>3. upstream \in UpstreamCall
    BY DEF RelayTypeOK
  <2>4. CASE upstream' = [said |-> upstream.said + 1, state |-> "told"]
    BY <2>1, <2>4 DEF UpstreamCall
  <2>5. CASE upstream' = [upstream EXCEPT !.said = @ + 1]
    BY <2>1, <2>3, <2>5 DEF UpstreamCall
  <2> QED
    BY <2>2, <2>4, <2>5
<1>3. adapter'.state = "running" /\ adapter'.hand = 1 /\ adapter'.err = adapter.err
  BY <1>1 DEF Reads, UpstreamTells, RelayTypeOK, Adapter
<1>4. RelayTypeOK'
  <2>1. adapter' \in Adapter
    BY <1>1 DEF Reads, UpstreamTells, RelayTypeOK, Adapter
  <2> QED
    BY <1>1, <1>2, <2>1 DEF RelayTypeOK
<1>5. CauseKnown'
  BY <1>1, <1>3 DEF CauseKnown
<1>6. NothingLost' /\ HandlerKnows'
  <2>1. upstream.said \in Nat /\ strm.written \in Nat /\ channel \in Nat
    BY DEF RelayTypeOK, UpstreamCall, Handler
  <2>2. HandlerKnows'
    BY <1>1 DEF HandlerKnows
  <2>3. strm'.written = strm.written
    BY <1>1
  <2>4. NothingLost'
    BY <1>1, <1>2, <1>3, <2>1, <2>3 DEF NothingLost
  <2> QED
    BY <2>2, <2>4
<1>7. strm.state = "loop" /\ settled = ""
  BY <1>1, StillRelaying
<1>8. EndsLast' /\ ErrorIsClean' /\ RowTellsTheTruth'
  BY <1>1, <1>7, NotYet DEF EndsLast
<1> QED
  BY <1>4, <1>5, <1>6, <1>8

\* The reader ends; a chunk still in hand is lost to a cancelled context.
LEMMA EndKeeps ==
    ASSUME RelayInv, UpstreamEnds \/ UpstreamFails \/ ReadCancelled \/ GivesUp
    PROVE  RelayInv'
<1> USE DEF RelayInv
<1>1. /\ path' = path /\ channel' = channel /\ budget' = budget /\ client' = client /\ strm' = strm /\ settled' = settled
      /\ adapter.state = "running"
  BY DEF UpstreamEnds, UpstreamFails, ReadCancelled, GivesUp
<1>2. PICK err \in {"none", "upstream", "context"} : AdapterReturns(err) /\
        \/ err = "none" /\ upstream'.state \in {"ended", "told"} /\ adapter.hand = 0
        \/ err = "upstream" /\ ~Canonical /\ ~strm.headers /\ adapter.hand = 0
        \/ err = "upstream" /\ upstream'.state = "failed" /\ adapter.hand = 0
        \/ err = "context" /\ Cancelled /\ (adapter.hand = 0 \/ Canonical)
        \/ err = "none" /\ Cancelled /\ Canonical
  BY DEF UpstreamEnds, UpstreamFails, ReadCancelled, GivesUp, RelayTypeOK, UpstreamCall
<1>3. upstream'.said = upstream.said /\ upstream' \in UpstreamCall
  BY DEF UpstreamEnds, UpstreamFails, ReadCancelled, GivesUp, RelayTypeOK, UpstreamCall
<1>4. adapter'.state = "returned" /\ adapter'.hand = 0 /\ adapter'.err = err
  BY <1>2 DEF AdapterReturns, RelayTypeOK, Adapter
<1>5. RelayTypeOK'
  <2>1. adapter' \in Adapter
    BY <1>2 DEF AdapterReturns, RelayTypeOK, Adapter
  <2> QED
    BY <1>1, <1>3, <2>1 DEF RelayTypeOK
<1>6. Cancelled' = Cancelled /\ Canonical' = Canonical
  BY <1>1 DEF Cancelled, Canonical
<1>7. CauseKnown'
  BY <1>1, <1>2, <1>4, <1>6 DEF CauseKnown
<1>8. (client = "there" /\ budget # "hit") => adapter.hand = 0
  <2> SUFFICES ASSUME client = "there", budget # "hit" PROVE adapter.hand = 0
    OBVIOUS
  <2>1. ~Cancelled
    BY DEF Cancelled, HandlerKnows
  <2> QED
    BY <1>2, <2>1
<1>9. NothingLost' /\ HandlerKnows'
  BY <1>1, <1>3, <1>4, <1>8 DEF NothingLost, HandlerKnows, RelayTypeOK, Handler, UpstreamCall
<1>10. strm.state = "loop" /\ settled = ""
  BY <1>1, StillRelaying
<1>11. EndsLast' /\ ErrorIsClean' /\ RowTellsTheTruth'
  BY <1>1, <1>10, NotYet DEF EndsLast
<1> QED
  BY <1>5, <1>7, <1>9, <1>11

\* A chunk on its way: into the channel, to the client, or into the drain.
LEMMA HandsKeeps ==
    ASSUME RelayInv, Hands
    PROVE  RelayInv'
<1> USE DEF RelayInv
<1>1. /\ path' = path /\ upstream' = upstream /\ budget' = budget /\ client' = client /\ strm' = strm /\ settled' = settled
      /\ adapter.state = "running" /\ adapter.hand = 1 /\ channel' = channel + 1
  BY DEF Hands
<1>2. adapter'.state = "running" /\ adapter'.hand = 0 /\ adapter'.err = adapter.err /\ adapter' \in Adapter
  BY <1>1 DEF Hands, RelayTypeOK, Adapter
<1>3. RelayTypeOK'
  <2>0. channel \in Nat
    BY DEF RelayTypeOK
  <2>1. channel' \in Nat
    BY <1>1, <2>0
  <2> QED
    BY <1>1, <1>2, <2>1 DEF RelayTypeOK
<1>4. CauseKnown'
  BY <1>1, <1>2 DEF CauseKnown
<1>5. upstream.said \in Nat /\ strm.written \in Nat /\ channel \in Nat
  BY DEF RelayTypeOK, UpstreamCall, Handler
<1>6. NothingLost'
  <2>1. strm'.written = strm.written
    BY <1>1
  <2> QED
    BY <1>1, <1>2, <1>5, <2>1 DEF NothingLost
<1>7. HandlerKnows'
  BY <1>1 DEF HandlerKnows
<1>8. strm.state = "loop" /\ settled = ""
  BY <1>1, StillRelaying
<1>9. EndsLast' /\ ErrorIsClean' /\ RowTellsTheTruth'
  BY <1>1, <1>8, NotYet DEF EndsLast
<1> QED
  BY <1>3, <1>4, <1>6, <1>7, <1>9

\* What the handler does with a write leaves the timer stopped or fired.
LEMMA StoppedFacts ==
    ASSUME RelayInv, budget' = Stopped
    PROVE  /\ budget' \in {"none", "hit", "stopped"}
           /\ budget' = "hit" <=> budget = "hit"
BY DEF RelayInv, RelayTypeOK, Stopped

\* The handler takes a chunk and writes it out.
LEMMA TakesKeeps ==
    ASSUME RelayInv, Takes
    PROVE  RelayInv'
<1> USE DEF RelayInv
<1>1. /\ path' = path /\ upstream' = upstream /\ adapter' = adapter /\ client' = client /\ settled' = settled
      /\ Canonical /\ strm.state = "loop" /\ channel > 0 /\ ~strm.gone /\ channel' = channel - 1 /\ Writes(strm)
      /\ budget' = Stopped
  BY DEF Takes
<1>2. budget' \in {"none", "hit", "stopped"} /\ (budget' = "hit" <=> budget = "hit")
  BY <1>1, StoppedFacts
<1>3. strm \in Handler /\ channel \in Nat /\ upstream.said \in Nat /\ adapter.hand \in {0, 1}
  BY DEF RelayTypeOK, UpstreamCall, Adapter
<1>4. /\ strm' \in Handler /\ strm'.headers /\ strm'.state = strm.state
      /\ strm.raced => strm'.raced
      /\ (~strm.headers /\ budget = "hit") => strm'.raced
      /\ client = "there" => strm'.written = strm.written + 1 /\ ~strm'.gone
  BY <1>1, <1>3, WriteFacts
<1>5. RelayTypeOK'
  <2>1. channel' \in Nat
    BY <1>1, <1>3
  <2> QED
    BY <1>1, <1>2, <1>4, <2>1 DEF RelayTypeOK
<1>6. CauseKnown'
  <2>1. adapter.err # "write"
    BY <1>1 DEF CauseKnown
  <2>2. Cancelled => Cancelled'
    BY <1>1, <1>2 DEF Cancelled
  <2>3. Canonical'
    BY <1>1 DEF Canonical
  <2> QED
    BY <1>1, <2>1, <2>2, <2>3 DEF CauseKnown
<1>7. NothingLost'
  <2> SUFFICES ASSUME client = "there", budget # "hit"
               PROVE  strm'.written + channel' + adapter.hand = upstream.said
    BY <1>1, <1>2 DEF NothingLost
  <2>1. strm.written \in Nat /\ strm'.written = strm.written + 1
    BY <1>3, <1>4 DEF Handler
  <2>2. strm.written + channel + adapter.hand = upstream.said
    BY DEF NothingLost
  <2> QED
    BY <1>1, <1>3, <2>1, <2>2
<1>8. HandlerKnows'
  BY <1>1, <1>2, <1>4 DEF HandlerKnows
<1>9. settled = ""
  BY <1>1 DEF EndsLast
<1>10. EndsLast' /\ ErrorIsClean' /\ RowTellsTheTruth'
  BY <1>1, <1>4, <1>9, NotYet DEF EndsLast
<1> QED
  BY <1>5, <1>6, <1>7, <1>8, <1>10

\* After the client has gone, chunks are thrown away.
LEMMA DrainsKeeps ==
    ASSUME RelayInv, Drains
    PROVE  RelayInv'
<1> USE DEF RelayInv
<1>1. /\ path' = path /\ upstream' = upstream /\ adapter' = adapter /\ client' = client /\ settled' = settled
      /\ budget' = budget /\ strm' = strm
      /\ strm.state = "loop" /\ channel > 0 /\ strm.gone /\ channel' = channel - 1
  BY DEF Drains
<1>2. RelayTypeOK'
  <2>0. channel \in Nat
    BY DEF RelayTypeOK
  <2>1. channel' \in Nat
    BY <1>1, <2>0
  <2> QED
    BY <1>1, <2>1 DEF RelayTypeOK
<1>3. CauseKnown' /\ HandlerKnows'
  BY <1>1 DEF CauseKnown, HandlerKnows, Cancelled, Canonical
<1>4. NothingLost'
  BY <1>1 DEF NothingLost, HandlerKnows
<1>5. settled = ""
  BY <1>1 DEF EndsLast
<1>6. EndsLast' /\ ErrorIsClean' /\ RowTellsTheTruth'
  BY <1>1, <1>5, NotYet DEF EndsLast
<1> QED
  BY <1>2, <1>3, <1>4, <1>6

\* A keep-alive comment on a silent stream.
LEMMA PingsKeeps ==
    ASSUME RelayInv, Pings
    PROVE  RelayInv'
<1> USE DEF RelayInv
<1>1. /\ path' = path /\ upstream' = upstream /\ adapter' = adapter /\ client' = client /\ settled' = settled
      /\ budget' = budget /\ channel' = channel
      /\ path = "messages" /\ strm.state = "loop" /\ strm.headers /\ ~strm.gone
  BY DEF Pings
<1>2. PICK g \in BOOLEAN : (client = "there" => g = FALSE) /\ strm' = [strm EXCEPT !.pinged = TRUE, !.gone = g]
  BY DEF Pings
<1>3. strm \in Handler
  BY DEF RelayTypeOK
<1>4. /\ strm' \in Handler /\ strm'.headers /\ strm'.state = strm.state
      /\ strm'.written = strm.written /\ (strm.raced => strm'.raced)
      /\ client = "there" => ~strm'.gone
  BY <1>1, <1>2, <1>3 DEF Handler
<1>5. RelayTypeOK'
  BY <1>1, <1>4 DEF RelayTypeOK
<1>6. CauseKnown'
  <2>1. adapter.err # "write"
    BY <1>1 DEF CauseKnown
  <2>2. Cancelled => Cancelled'
    BY <1>1 DEF Cancelled
  <2>3. Canonical /\ Canonical'
    BY <1>1 DEF Canonical
  <2> QED
    BY <1>1, <2>1, <2>2, <2>3 DEF CauseKnown
<1>7. NothingLost' /\ HandlerKnows'
  BY <1>1, <1>4 DEF NothingLost, HandlerKnows
<1>8. settled = ""
  BY <1>1 DEF EndsLast
<1>9. EndsLast' /\ ErrorIsClean' /\ RowTellsTheTruth'
  BY <1>1, <1>4, <1>8, NotYet DEF EndsLast
<1> QED
  BY <1>5, <1>6, <1>7, <1>9

\* The native path writes the upstream's bytes itself.
LEMMA RelaysKeeps ==
    ASSUME RelayInv, Relays
    PROVE  RelayInv'
<1> USE DEF RelayInv
<1>1. /\ path' = path /\ upstream' = upstream /\ channel' = channel /\ client' = client /\ settled' = settled
      /\ ~Canonical /\ strm.state = "loop" /\ adapter.state = "running" /\ adapter.hand = 1 /\ Writes(strm)
      /\ budget' = Stopped
  BY DEF Relays
<1>2. budget' \in {"none", "hit", "stopped"} /\ (budget' = "hit" <=> budget = "hit")
  BY <1>1, StoppedFacts
<1>3. strm \in Handler /\ channel \in Nat /\ upstream.said \in Nat
  BY DEF RelayTypeOK, UpstreamCall
<1>4. /\ strm' \in Handler /\ strm'.headers /\ strm'.state = strm.state
      /\ strm.raced => strm'.raced
      /\ (~strm.headers /\ budget = "hit") => strm'.raced
      /\ client = "there" => strm'.written = strm.written + 1 /\ ~strm'.gone
  BY <1>3, <1>1, WriteFacts DEF HandlerKnows
<1>5. \/ adapter'.state = "returned" /\ adapter'.err = "write" /\ strm'.gone
      \/ adapter'.state = "running" /\ adapter'.err = adapter.err
  BY DEF Relays, RelayTypeOK, Adapter
<1>6. adapter'.hand = 0 /\ adapter' \in Adapter
  BY DEF Relays, RelayTypeOK, Adapter
<1>7. RelayTypeOK'
  BY <1>1, <1>2, <1>4, <1>6 DEF RelayTypeOK
<1>8. CauseKnown'
  <2>1. adapter.err = "none"
    BY <1>1 DEF CauseKnown
  <2> QED
    BY <1>5, <1>6, <2>1 DEF CauseKnown
<1>9. NothingLost'
  <2> SUFFICES ASSUME client = "there", budget # "hit"
               PROVE  strm'.written + channel + adapter'.hand = upstream.said
    BY <1>1, <1>2 DEF NothingLost
  <2>1. strm.written \in Nat /\ strm'.written = strm.written + 1
    BY <1>3, <1>4 DEF Handler
  <2>2. strm.written + channel + adapter.hand = upstream.said
    BY DEF NothingLost
  <2> QED
    BY <1>1, <1>3, <1>6, <2>1, <2>2
<1>10. HandlerKnows'
  BY <1>1, <1>2, <1>4 DEF HandlerKnows
<1>11. settled = ""
  BY <1>1 DEF EndsLast
<1>12. EndsLast' /\ ErrorIsClean' /\ RowTellsTheTruth'
  BY <1>1, <1>4, <1>11, NotYet DEF EndsLast
<1> QED
  BY <1>7, <1>8, <1>9, <1>10, <1>12

\* The ends: a client that left, an error that goes back, a row that is settled.
LEMMA Settle499Keeps ==
    ASSUME RelayInv, Settle499
    PROVE  RelayInv'
<1> USE DEF RelayInv
<1>1. /\ path' = path /\ upstream' = upstream /\ adapter' = adapter /\ channel' = channel /\ client' = client
      /\ budget' = budget /\ settled' = "499" /\ strm' = [strm EXCEPT !.state = "returned"]
      /\ adapter.state = "returned" /\ channel = 0 /\ ClientClosed
  BY DEF Settle499, Over
<1>2. /\ strm' \in Handler /\ strm'.state = "returned" /\ strm'.headers = strm.headers /\ strm'.gone = strm.gone
      /\ strm'.written = strm.written /\ strm'.raced = strm.raced
  BY <1>1 DEF RelayTypeOK, Handler
<1>3. RelayTypeOK'
  BY <1>1, <1>2 DEF RelayTypeOK
<1>4. CauseKnown'
  BY <1>1, <1>2 DEF CauseKnown, Cancelled, Canonical
<1>5. NothingLost' /\ HandlerKnows' /\ EndsLast'
  BY <1>1, <1>2 DEF NothingLost, HandlerKnows, EndsLast
<1>6. client # "there"
  BY <1>1 DEF ClientClosed, HandlerKnows
<1>7. ErrorIsClean' /\ RowTellsTheTruth'
  BY <1>1, <1>2, <1>6 DEF ErrorIsClean, RowTellsTheTruth
<1> QED
  BY <1>3, <1>4, <1>5, <1>7

\* The loop ends without a byte sent: the caller gets the error.
LEMMA ReturnErrorKeeps ==
    ASSUME RelayInv, ReturnError
    PROVE  RelayInv'
<1> USE DEF RelayInv
<1>1. /\ path' = path /\ upstream' = upstream /\ adapter' = adapter /\ channel' = channel /\ client' = client
      /\ budget' = budget /\ settled' = settled /\ strm.state = "loop"
      /\ adapter.state = "returned" /\ channel = 0 /\ ~strm.headers
  BY DEF ReturnError, Over, MayGoOn
<1>2. strm' = [strm EXCEPT !.state = IF budget = "hit" THEN "timeout" ELSE "error"]
  BY <1>1 DEF ReturnError, BudgetCut
<1>3. /\ strm' \in Handler /\ strm'.state = (IF budget = "hit" THEN "timeout" ELSE "error")
      /\ strm'.headers = strm.headers /\ strm'.gone = strm.gone
      /\ strm'.written = strm.written /\ strm'.raced = strm.raced
  BY <1>2 DEF RelayTypeOK, Handler
<1>4. RelayTypeOK'
  BY <1>1, <1>3 DEF RelayTypeOK
<1>5. CauseKnown'
  BY <1>1, <1>3 DEF CauseKnown, Cancelled, Canonical
<1>6. settled = ""
  BY <1>1 DEF EndsLast
<1>7. NothingLost' /\ HandlerKnows' /\ EndsLast'
  BY <1>1, <1>3, <1>6 DEF NothingLost, HandlerKnows, EndsLast
<1>8. strm.written = 0 /\ adapter.hand = 0
  BY <1>1 DEF HandlerKnows, CauseKnown
<1>9. ErrorIsClean'
  BY <1>1, <1>3, <1>6, <1>8 DEF ErrorIsClean
<1>10. RowTellsTheTruth'
  BY <1>1, <1>6 DEF RowTellsTheTruth
<1> QED
  BY <1>4, <1>5, <1>7, <1>9, <1>10

\* The loop ends with bytes sent: the row gets the outcome.
LEMMA SettleStreamKeeps ==
    ASSUME RelayInv, SettleStream
    PROVE  RelayInv'
<1> USE DEF RelayInv
<1>1. /\ path' = path /\ upstream' = upstream /\ adapter' = adapter /\ channel' = channel /\ client' = client
      /\ budget' = Stopped /\ settled' = Verdict /\ strm.state = "loop"
      /\ adapter.state = "returned" /\ channel = 0 /\ ~ClientClosed /\ ~MayGoOn
      /\ strm' = [strm EXCEPT !.state = "returned", !.headers = TRUE, !.end = client = "there"]
  BY DEF SettleStream, Over
<1>2. budget' \in {"none", "hit", "stopped"} /\ (budget' = "hit" <=> budget = "hit")
  BY <1>1, StoppedFacts
<1>3. strm \in Handler
  BY DEF RelayTypeOK
<1>4. /\ strm'.state = "returned" /\ strm'.headers /\ strm'.gone = strm.gone
      /\ strm'.written = strm.written /\ strm'.raced = strm.raced
      /\ client = "there" => strm'.end
  BY <1>1, <1>3 DEF Handler
<1>5. strm' \in Handler
  <2>1. \A b \in BOOLEAN : [strm EXCEPT !.state = "returned", !.headers = TRUE, !.end = b] \in Handler
    BY <1>3 DEF Handler
  <2>2. (client = "there") \in BOOLEAN
    OBVIOUS
  <2> QED
    BY <1>1, <2>1, <2>2
<1>6. RelayTypeOK'
  BY <1>1, <1>2, <1>5 DEF RelayTypeOK, Verdict
<1>7. budget = "hit" => strm.headers /\ strm.raced
  BY <1>1 DEF MayGoOn, BudgetCut, HandlerKnows
<1>8. ~strm.gone /\ (adapter.err # "none" => strm.headers) /\ (client = "noticed" => ~Canonical /\ ~strm.headers)
  BY <1>1 DEF ClientClosed, MayGoOn
<1>9. CauseKnown'
  <2>1. adapter.err = "upstream" => upstream.state = "failed"
    BY <1>8 DEF CauseKnown
  <2>2. Cancelled => Cancelled'
    BY <1>1, <1>2, <1>4 DEF Cancelled
  <2>3. Canonical' = Canonical
    BY <1>1 DEF Canonical
  <2> QED
    BY <1>1, <1>4, <2>1, <2>2, <2>3 DEF CauseKnown
<1>10. NothingLost' /\ HandlerKnows' /\ EndsLast'
  BY <1>1, <1>2, <1>4, <1>7 DEF NothingLost, HandlerKnows, EndsLast
<1>11. adapter.hand = 0
  BY <1>1 DEF CauseKnown
<1>12. CASE adapter.err = "none" /\ upstream.state # "told"
  <2>1. settled' = "200"
    BY <1>1, <1>12 DEF Verdict
  <2>2. budget # "hit" => upstream.state = "ended"
    BY <1>1, <1>8, <1>12 DEF CauseKnown, Cancelled
  <2>3. strm.written \in Nat
    BY <1>3 DEF Handler
  <2>4. (client = "there" /\ budget # "hit") => strm.written = upstream.said
    BY <1>1, <1>11, <2>3 DEF NothingLost
  <2> QED
    BY <1>1, <1>4, <1>6, <1>7, <1>9, <1>10, <2>1, <2>2, <2>4 DEF ErrorIsClean, RowTellsTheTruth
<1>13. CASE adapter.err # "none" \/ upstream.state = "told"
  <2>1. settled' = "502"
    BY <1>1, <1>13 DEF Verdict
  <2>2. budget # "hit" => upstream.state \in {"failed", "told"}
    BY <1>8, <1>13 DEF CauseKnown, Cancelled, RelayTypeOK, Adapter
  <2> QED
    BY <1>1, <1>4, <1>6, <1>7, <1>9, <1>10, <2>1, <2>2 DEF ErrorIsClean, RowTellsTheTruth
<1> QED
  BY <1>12, <1>13

\* Every step of the relay keeps the invariant.
LEMMA RelayStep == RelayInv /\ [RelayNext]_relayVars => RelayInv'
<1> SUFFICES ASSUME RelayInv, [RelayNext]_relayVars PROVE RelayInv'
  OBVIOUS
<1>1. CASE UNCHANGED relayVars
  <2>1. /\ path' = path /\ upstream' = upstream /\ adapter' = adapter /\ channel' = channel
        /\ budget' = budget /\ client' = client /\ strm' = strm /\ settled' = settled
    BY <1>1 DEF relayVars
  <2>2. RelayTypeOK'
    BY <2>1 DEF RelayInv, RelayTypeOK
  <2>3. CauseKnown'
    BY <2>1 DEF RelayInv, CauseKnown, Cancelled, Canonical
  <2>4. NothingLost' /\ HandlerKnows' /\ EndsLast'
    BY <2>1 DEF RelayInv, NothingLost, HandlerKnows, EndsLast
  <2>5. ErrorIsClean' /\ RowTellsTheTruth'
    BY <2>1 DEF RelayInv, ErrorIsClean, RowTellsTheTruth
  <2> QED
    BY <2>2, <2>3, <2>4, <2>5 DEF RelayInv
<1> QED
  BY <1>1, WorldKeeps, ReadKeeps, EndKeeps, HandsKeeps, TakesKeeps, DrainsKeeps, PingsKeeps, RelaysKeeps,
     Settle499Keeps, ReturnErrorKeeps, SettleStreamKeeps DEF RelayNext

\* The error of a stream call leaves the client without a byte, the row as it
\* was and no adapter behind (stream), whatever the client, the timer and the
\* upstream do, for any length of answer and channel.
THEOREM ErrorsAreAlwaysClean == RelaySpec => []ErrorIsClean
<1>1. RelayInv => ErrorIsClean
  BY DEF RelayInv
<1> QED
  BY StartsClean, RelayStep, <1>1, PTL DEF RelaySpec

\* The row's status tells what the client got of an answer of any length.
THEOREM RowsAlwaysTellTheTruth == RelaySpec => []RowTellsTheTruth
<1>1. RelayInv => RowTellsTheTruth
  BY DEF RelayInv
<1> QED
  BY StartsClean, RelayStep, <1>1, PTL DEF RelaySpec
------------------------------------------------------------------------------
(* Request. *)


\* ToolMeaningKept of one verdict.
MeaningKept(t) ==
  LET wants == Callable(t.asked, t.choice) \intersect t.permits IN
  IF t.refused THEN RequiresACall(t.choice) /\ wants = {}
  ELSE /\ Callable(t.sent, t.sentChoice) = wants
       /\ RequiresACall(t.sentChoice) <=> RequiresACall(t.choice)

\* What governTools makes of any tools, choice and policy.
LEMMA GovernedToolsMean ==
    ASSUME NEW wants \in SUBSET ToolNames, NEW choice \in ToolChoices, NEW permits \in SUBSET ToolNames,
           NEW t, t = GovernTools(wants, choice, permits)
    PROVE  MeaningKept(t)
<1> DEFINE narrowed == IF choice.kind = "allowed" THEN NarrowAllowed(choice, permits) ELSE choice
           kept_ == wants \intersect permits
           emptied == choice.kind = "allowed" /\ choice.must /\ narrowed.kind = "none"
           refused == \/ choice.kind = "named" /\ choice.name \notin permits
                      \/ emptied
                      \/ wants # {} /\ kept_ = {} /\ RequiresACall(choice)
           dropped == IF wants = {} THEN narrowed # choice /\ narrowed.kind = "none" ELSE kept_ = {}
<1>1. /\ t.asked = wants /\ t.choice = choice /\ t.permits = permits /\ t.refused = refused
      /\ t.sent = IF refused THEN wants ELSE kept_
      /\ t.sentChoice = IF refused THEN choice ELSE IF dropped THEN [kind |-> "auto"] ELSE narrowed
  BY DEF GovernTools
<1>2. \/ choice.kind \in {"auto", "none", "required"} /\ choice = [kind |-> choice.kind]
      \/ choice.kind = "named" /\ choice.name \in ToolNames
      \/ /\ choice.kind = "allowed" /\ choice.must \in BOOLEAN /\ choice.names \subseteq ToolNames
         /\ choice = [kind |-> "allowed", must |-> choice.must, names |-> choice.names]
  BY DEF ToolChoices
<1>3. CASE choice.kind = "allowed"
  <2> DEFINE left == choice.names \intersect permits
  <2>1. [choice EXCEPT !.names = left] = [kind |-> "allowed", must |-> choice.must, names |-> left]
    BY <1>2, <1>3
  <2>2. narrowed = IF left = choice.names THEN choice ELSE IF left = {} THEN [kind |-> "none"]
                   ELSE [kind |-> "allowed", must |-> choice.must, names |-> left]
    BY <1>3, <2>1 DEF NarrowAllowed
  <2>3. Callable(wants, choice) = wants \intersect choice.names
    BY <1>3 DEF Callable
  <2>4. RequiresACall(choice) <=> choice.must
    BY <1>3 DEF RequiresACall
  <2> HIDE DEF narrowed
  <2>5. CASE refused
    BY <1>1, <1>3, <2>2, <2>3, <2>4, <2>5 DEF MeaningKept
  <2>6. CASE ~refused /\ dropped
    <3>1. t.sent = kept_ /\ t.sentChoice = [kind |-> "auto"]
      BY <1>1, <2>6
    <3>2. Callable(kept_, [kind |-> "auto"]) = kept_ /\ ~RequiresACall([kind |-> "auto"])
      BY DEF Callable, RequiresACall
    <3>3. kept_ = {} /\ (wants # {} => ~choice.must) /\ (wants = {} => narrowed.kind = "none")
      BY <2>6, <2>4
    <3>4. ~choice.must
      BY <3>3, <2>6, <1>3, <1>2
    <3> QED
      BY <1>1, <2>6, <2>3, <2>4, <3>1, <3>2, <3>3, <3>4 DEF MeaningKept
  <2>7. CASE ~refused /\ ~dropped
    <3>1. t.sent = kept_ /\ t.sentChoice = narrowed
      BY <1>1, <2>7
    <3>2. CASE narrowed = choice /\ left = choice.names
      BY <1>1, <1>3, <2>3, <2>4, <2>7, <3>1, <3>2 DEF MeaningKept, Callable, RequiresACall
    <3>3. CASE left # choice.names /\ left = {}
      BY <1>1, <1>2, <1>3, <2>2, <2>3, <2>4, <2>7, <3>1, <3>3 DEF MeaningKept, Callable, RequiresACall
    <3>4. CASE left # choice.names /\ left # {}
      <4>1. narrowed.kind = "allowed" /\ narrowed.names = left /\ narrowed.must = choice.must
        BY <2>2, <3>4
      <4> QED
        BY <1>1, <1>3, <2>3, <2>4, <2>7, <3>1, <4>1 DEF MeaningKept, Callable, RequiresACall
    <3> QED
      BY <2>2, <3>2, <3>3, <3>4
  <2> QED
    BY <2>5, <2>6, <2>7
<1>4. CASE choice.kind # "allowed"
  <2>1. narrowed = choice
    BY <1>4
  <2>2. CASE refused
    BY <1>1, <1>2, <1>4, <2>2 DEF MeaningKept, Callable, RequiresACall
  <2>3. CASE ~refused /\ dropped
    <3>1. t.sent = kept_ /\ t.sentChoice = [kind |-> "auto"]
      BY <1>1, <2>3
    <3>2. wants # {} /\ kept_ = {} /\ ~RequiresACall(choice)
      BY <2>1, <2>3
    <3>3. Callable(wants, choice) \intersect permits = {}
      BY <1>2, <3>2 DEF Callable
    <3> QED
      BY <1>1, <2>3, <3>1, <3>2, <3>3 DEF MeaningKept, Callable, RequiresACall
  <2>4. CASE ~refused /\ ~dropped
    BY <1>1, <1>2, <1>4, <2>1, <2>4 DEF MeaningKept, Callable, RequiresACall
  <2> QED
    BY <2>2, <2>3, <2>4
<1> QED
  BY <1>3, <1>4

\* The policy only takes tools away, for any tools, any policy and any choice of
\* the client (governTools, narrowAllowedTools).
THEOREM ToolMeaningAlwaysKept == RequestSpec => []ToolMeaningKept
<1>1. tools = NoTools => ToolMeaningKept
  BY DEF NoTools, ToolMeaningKept, Callable, RequiresACall
<1>2. RequestInit => ToolMeaningKept
  BY <1>1 DEF RequestInit
<1>3. ToolMeaningKept /\ [RequestNext]_reqVars => ToolMeaningKept'
  <2> SUFFICES ASSUME ToolMeaningKept, [RequestNext]_reqVars
               PROVE  ToolMeaningKept'
    OBVIOUS
  <2>1. \/ tools' = tools \/ tools' = NoTools
        \/ \E wants \in SUBSET ToolNames, choice \in ToolChoices, permits \in SUBSET ToolNames :
              tools' = GovernTools(wants, choice, permits)
    <3>1. CASE DecodeChat \/ DecodeMessages
      BY <3>1 DEF DecodeChat, DecodeMessages, ApplyToolPolicy
    <3>2. CASE UNCHANGED reqVars
      BY <3>2 DEF reqVars
    <3>3. CASE ChatAttempt \/ MessagesAttempt \/ EmbeddingsAttempt \/ RetrieveAttempt \/ RerankAPIAttempt \/ RerankChatAttempt
      BY <3>3 DEF ChatAttempt, MessagesAttempt, EmbeddingsAttempt, RetrieveAttempt, RerankAPIAttempt, RerankChatAttempt, kept
    <3> QED
      BY <3>1, <3>2, <3>3 DEF RequestNext, Identify, SelectProject, ListModels, Authenticate, DecodeEmbeddings,
         DecodeRetrieve, DecodeRerank, RouteChat, RouteKind, RouteRetrieve, CheckLimits, PrepareContext, Condense,
         Search, OpenRecord, FailInvoke, Record, CallerLeaves
  <2>2. CASE tools' = tools
    BY <2>2 DEF ToolMeaningKept, Callable, RequiresACall
  <2>3. CASE tools' = NoTools
    BY <2>3, <1>1 DEF NoTools, ToolMeaningKept, Callable, RequiresACall
  <2>4. ASSUME NEW wants \in SUBSET ToolNames, NEW choice \in ToolChoices, NEW permits \in SUBSET ToolNames,
               tools' = GovernTools(wants, choice, permits)
        PROVE  ToolMeaningKept'
    BY <2>4, GovernedToolsMean DEF MeaningKept, ToolMeaningKept
  <2> QED
    BY <2>1, <2>2, <2>3, <2>4
<1> QED
  BY <1>2, <1>3, PTL DEF RequestSpec
------------------------------------------------------------------------------
\* A bag that holds each of some elements of S once.
Ones(S) == {SetToBag(T) : T \in SUBSET S}
Rows(S) == [status : Nat, est : BOOLEAN, tokens : Ones(S)]
Counted == DOMAIN row.tokens

LEMMA OneOfEach ==
    ASSUME NEW S, NEW B
    PROVE  B \in Ones(S) <=> DOMAIN B \subseteq S /\ B = SetToBag(DOMAIN B)
BY DEF Ones, SetToBag

LEMMA OneOfEachOf == \A S : DOMAIN SetToBag(S) = S
BY DEF SetToBag

LEMMA NoneOf == ASSUME NEW S PROVE EmptyBag \in Ones(S) /\ DOMAIN EmptyBag = {} /\ NoRow \in Rows(S)
BY DEF EmptyBag, Ones, SetToBag, NoRow, Rows

LEMMA AddDisjoint ==
    ASSUME NEW S, NEW T, S \cap T = {}
    PROVE  SetToBag(S) (+) SetToBag(T) = SetToBag(S \cup T)
BY DEF SetToBag, (+)

LEMMA AddNone == ASSUME NEW S PROVE EmptyBag (+) SetToBag(S) = SetToBag(S)
<1>1. {} \cup S = S /\ {} \cap S = {}
  OBVIOUS
<1> QED
  BY <1>1, AddDisjoint DEF EmptyBag

LEMMA RowsGrow == ASSUME NEW S, NEW T, S \subseteq T PROVE Rows(S) \subseteq Rows(T)
BY DEF Rows, Ones

LEMMA Filled ==
    ASSUME NEW S, NEW r \in Rows(S), NEW c \in S
    PROVE  FillUsage(r, c) \in Rows(S) /\ DOMAIN FillUsage(r, c).tokens = {c} /\ FillUsage(r, c).status = r.status
<1>1. SetToBag({c}) \in Ones(S) /\ DOMAIN SetToBag({c}) = {c}
  BY OneOfEachOf DEF Ones
<1>2. /\ FillUsage(r, c).tokens = SetToBag({c}) /\ FillUsage(r, c).status = r.status
      /\ FillUsage(r, c) \in Rows(S)
  BY <1>1 DEF Rows, FillUsage
<1> QED
  BY <1>1, <1>2

LEMMA Added ==
    ASSUME NEW S, NEW r \in Rows(S), NEW c \in S, c \notin DOMAIN r.tokens
    PROVE  /\ AddTo(r, c) \in Rows(S) /\ DOMAIN AddTo(r, c).tokens = DOMAIN r.tokens \cup {c}
           /\ AddTo(r, c).status = r.status
<1>1. r.tokens \in Ones(S)
  BY DEF Rows
<1>2. r.tokens = SetToBag(DOMAIN r.tokens) /\ DOMAIN r.tokens \subseteq S
  BY <1>1, OneOfEach
<1> DEFINE T == DOMAIN r.tokens \cup {c}
           b == r.tokens (+) SetToBag({c})
<1>3. b = SetToBag(T)
  BY <1>2, AddDisjoint, DOMAIN r.tokens \cap {c} = {}
<1>4. b \in Ones(S) /\ DOMAIN b = T
  BY <1>2, <1>3, OneOfEachOf DEF Ones
<1>5. AddTo(r, c) = [r EXCEPT !.tokens = b, !.est = r.est \/ ~c.exact]
  BY DEF AddTo
<1> HIDE DEF b
<1>6. /\ AddTo(r, c).tokens = b /\ AddTo(r, c).status = r.status
      /\ AddTo(r, c) \in Rows(S)
  BY <1>4, <1>5 DEF Rows
<1> QED
  BY <1>4, <1>6

LEMMA WithStatus ==
    ASSUME NEW S, NEW r \in Rows(S), NEW status \in Nat
    PROVE  /\ [r EXCEPT !.status = status] \in Rows(S)
           /\ [r EXCEPT !.status = status].tokens = r.tokens
           /\ [r EXCEPT !.status = status].status = status
BY DEF Rows

LEMMA Restarted ==
    ASSUME NEW S, NEW r \in Rows(S)
    PROVE  /\ [r EXCEPT !.tokens = EmptyBag, !.est = FALSE] \in Rows(S)
           /\ DOMAIN [r EXCEPT !.tokens = EmptyBag, !.est = FALSE].tokens = {}
<1>1. EmptyBag \in Ones(S) /\ DOMAIN EmptyBag = {}
  BY NoneOf
<1> QED
  BY <1>1 DEF Rows
------------------------------------------------------------------------------
Early == {"identify", "select", "list", "authenticate", "decode", "route", "limits"}
Preparing == {"prepare", "condense", "search"}
Statuses == {200, 400, 401, 403, 404, 413, 429, 500, 502}

RequestTypeOK ==
    /\ pc \in Early \cup Preparing \cup {"open", "invoke", "failed", "record", "done"}
    /\ ep \in Endpoints /\ gone \in BOOLEAN /\ admitted \in BOOLEAN /\ attempt \in Nat
    /\ rows \in {0, 1} /\ answer \in Statuses \cup {Unanswered}
    /\ row \in Rows(billed)

\* What the row and the client have been told when the walk is over.
AnswerTold ==
    /\ answer # Unanswered \/ (gone /\ row.status = 499)
    /\ row.status \in {answer, 499} \/ (row.status = 502 /\ answer = 200)

Stage ==
    /\ pc \in Early => ~admitted
    /\ ~admitted => billed = {} /\ charges = {} /\ row = NoRow /\ attempt = 0
    /\ pc \notin Early \cup {"done"} => admitted
    /\ pc \in Preparing => ep \in Chatting
    /\ pc \in Preparing \cup {"open"} => row = NoRow /\ attempt = 0
    /\ pc \notin {"record", "done"} => answer = Unanswered
    /\ pc # "done" => rows = 0
    /\ pc = "record" => AnswerTold
    /\ pc = "done" => IF admitted THEN AnswerTold
                      ELSE answer # Unanswered /\ (rows = 1 => answer = 429)

\* A chat request's side calls are made before its walk and are not in its row;
\* a search counts its charges in the row, when the walk is over.
ChargesKnown ==
    /\ \A c \in billed : c.n \in 0..attempt
    /\ ep \in Chatting =>
         /\ {c \in billed : c.n = 0 /\ c # QueryEmbedding} = ChargedCalls
         /\ \A ch \in charges : ~ch.inRow
         /\ pc # "done" => \A c \in Counted : c.n # 0
    /\ ep \notin Chatting =>
         /\ \A c \in billed : c.n # 0
         /\ \A ch \in charges : ch.inRow
         /\ ChargedCalls \subseteq Counted
         /\ pc \in {"open", "invoke"} => charges = {}
         /\ pc \in {"open", "invoke"} /\ ep \in Searching => Counted = {}

\* What the walk leaves to record.
SettledByWalk ==
    pc = "record" /\ row.status = 200 =>
      /\ attempt # 0
      /\ Counted = {c \in billed : c.n = attempt}
      /\ \A c \in Counted \ ChargedCalls : c.conn = conn

RequestIInv == RequestTypeOK /\ Stage /\ ChargesKnown /\ SettledByWalk /\ Accounting

LEMMA RequestStarts == ASSUME RequestInit PROVE RequestIInv
<1>1. RequestTypeOK
  BY NoneOf DEF RequestInit, RequestTypeOK, Early
<1>2. row.status = 0 /\ Counted = {} /\ ChargedCalls = {}
  BY NoneOf DEF RequestInit, NoRow, Counted, ChargedCalls
<1>3. Stage /\ SettledByWalk /\ Accounting
  BY <1>2 DEF RequestInit, Stage, SettledByWalk, Accounting, RowCountsEachCallOnce, Settled, ChargesAreOnTheRow, Early,
     Preparing
<1>4. ChargesKnown
  BY <1>2 DEF RequestInit, ChargesKnown
<1> QED
  BY <1>1, <1>3, <1>4 DEF RequestIInv

LEMMA RequestInvariants == ASSUME RequestIInv PROVE AnsweredAndLoggedOnce /\ Accounting
<1>1. Accounting
  BY DEF RequestIInv
<1>2. answer # Twice /\ rows <= 1
  BY DEF RequestIInv, RequestTypeOK, Twice, Unanswered, Statuses
<1>3. (billed # {} => admitted) /\ (rows = 1 => admitted \/ answer = 429)
  BY DEF RequestIInv, RequestTypeOK, Stage, Early
<1>4. pc = "done" => \/ answer # Unanswered
                     \/ gone /\ row.status = 499
  BY DEF RequestIInv, Stage, AnswerTold
<1>5. pc = "done" /\ admitted => row.status \in {answer, 499} \/ (row.status = 502 /\ answer = 200)
  BY DEF RequestIInv, Stage, AnswerTold
<1> QED
  BY <1>1, <1>2, <1>3, <1>4, <1>5 DEF AnsweredAndLoggedOnce

LEMMA RequestUnchanged == ASSUME RequestIInv, UNCHANGED reqVars PROVE RequestIInv'
<1>1. UNCHANGED <<pc, ep, gone, admitted, attempt, billed, charges, row, priced, answer, rows, targets, at>>
  BY DEF reqVars
<1>2. UNCHANGED <<Counted, ChargedCalls, conn, OwedCalls>>
  BY <1>1 DEF Counted, ChargedCalls, conn, OwedCalls
<1> QED
  BY <1>1, <1>2 DEF RequestIInv, RequestTypeOK, Stage, AnswerTold, ChargesKnown, SettledByWalk, Accounting, RowCountsEachCallOnce,
     Settled, ChargesAreOnTheRow

LEMMA RequestLeaves == ASSUME RequestIInv, CallerLeaves PROVE RequestIInv'
<1>1. /\ UNCHANGED <<pc, ep, admitted, attempt, billed, charges, row, priced, answer, rows, targets, at>>
      /\ pc # "done" /\ gone' = TRUE
  BY DEF CallerLeaves
<1>2. UNCHANGED <<Counted, ChargedCalls, conn>>
  BY <1>1 DEF Counted, ChargedCalls, conn
<1> QED
  BY <1>1, <1>2 DEF RequestIInv, RequestTypeOK, Stage, AnswerTold, ChargesKnown, SettledByWalk, Accounting, RowCountsEachCallOnce,
     Settled, ChargesAreOnTheRow

\* Up to the limits a request only moves on or is refused.
LEMMA EarlySteps ==
    ASSUME Identify \/ SelectProject \/ ListModels \/ Authenticate \/ DecodeChat \/ DecodeMessages \/ DecodeEmbeddings
           \/ DecodeRetrieve \/ DecodeRerank \/ RouteChat \/ RouteKind \/ RouteRetrieve
    PROVE  /\ pc \in Early /\ UNCHANGED <<ep, gone, admitted, attempt, billed, charges, row, priced, rows>>
           /\ \/ pc' \in Early /\ UNCHANGED answer
              \/ pc' = "done" /\ \E status \in Statuses : Answer(status)
<1> DEFINE Refused_ == \E status \in Statuses : End(status)
           Goes == \E step \in Early : Go(step)
           Accepts == \E ts, ok : AcceptTargets(ts, ok)
<1>0. /\ \A status \in {200, 400, 401, 403, 404, 413, 429, 500} : End(status) => Refused_
      /\ \A step \in {"list", "authenticate", "select", "decode", "route"} : Go(step) => Goes
  BY DEF Statuses, Early
<1>1. CASE pc \in Early /\ (Refused_ \/ Goes \/ Accepts)
  <2>1. CASE Refused_
    BY <1>1, <2>1 DEF End, spending, walking
  <2>2. CASE Goes
    BY <1>1, <2>2 DEF Go, spending, walking
  <2>3. ASSUME NEW ts, NEW ok, AcceptTargets(ts, ok)
        PROVE  Refused_ \/ (/\ UNCHANGED <<ep, gone, admitted, attempt, billed, charges, row, priced, rows, answer>>
                            /\ pc' = "limits")
    BY <1>0, <2>3 DEF AcceptTargets, spending
  <2> QED
    BY <1>1, <2>1, <2>2, <2>3 DEF Early
<1> HIDE DEF Refused_, Goes, Accepts
<1>2. CASE Identify \/ SelectProject
  BY <1>0, <1>1, <1>2 DEF Identify, SelectProject, Early
<1>3. CASE ListModels \/ Authenticate
  BY <1>0, <1>1, <1>3 DEF ListModels, Authenticate, Early
<1>4. CASE DecodeChat \/ DecodeMessages
  <2>1. pc \in Early /\ (BodyRefused \/ ApplyToolPolicy)
    BY <1>4 DEF DecodeChat, DecodeMessages, Early
  <2>2. BodyRefused => Refused_
    BY <1>0 DEF BodyRefused
  <2>3. ApplyToolPolicy => Refused_ \/ Goes
    BY <1>0 DEF ApplyToolPolicy
  <2> QED
    BY <1>1, <2>1, <2>2, <2>3
<1>5. CASE DecodeEmbeddings \/ DecodeRetrieve \/ DecodeRerank
  BY <1>0, <1>1, <1>5 DEF DecodeEmbeddings, DecodeRetrieve, DecodeRerank, BodyRefused, Early
<1>6. \A ts, ok : AcceptTargets(ts, ok) => Accepts
  BY DEF Accepts
<1>7. CASE RouteChat
  BY <1>0, <1>1, <1>6, <1>7 DEF RouteChat, Early
<1>8. CASE RouteKind \/ RouteRetrieve
  <2>1. pc \in Early
    BY <1>8 DEF RouteKind, RouteRetrieve, Early
  <2>2. (\E status \in {404, 500} : End(status)) \/ (\E status \in {400, 500} : End(status)) => Refused_
    BY <1>0
  <2> QED
    <3>1. ASSUME RouteKind PROVE Refused_ \/ Accepts
      <4>1. \/ \E status \in {404, 500} : End(status)
            \/ \E ts : AcceptTargets(ts, TRUE)
        BY <3>1 DEF RouteKind
      <4> QED
        BY <1>6, <2>2, <4>1
    <3>2. ASSUME RouteRetrieve PROVE Refused_ \/ Accepts
      <4>1. \/ \E status \in {400, 500} : End(status)
            \/ \E ts : AcceptTargets(ts, TRUE)
        BY <3>2 DEF RouteRetrieve
      <4> QED
        BY <1>6, <2>2, <4>1
    <3> QED
      BY <1>1, <1>8, <2>1, <3>1, <3>2
<1> QED
  BY <1>2, <1>3, <1>4, <1>5, <1>7, <1>8

LEMMA EarlyKeeps ==
    ASSUME RequestIInv,
           Identify \/ SelectProject \/ ListModels \/ Authenticate \/ DecodeChat \/ DecodeMessages \/ DecodeEmbeddings
           \/ DecodeRetrieve \/ DecodeRerank \/ RouteChat \/ RouteKind \/ RouteRetrieve
    PROVE  RequestIInv'
<1>1. /\ pc \in Early /\ UNCHANGED <<ep, gone, admitted, attempt, billed, charges, row, priced, rows>>
      /\ \/ pc' \in Early /\ UNCHANGED answer
         \/ pc' = "done" /\ answer' \in Statuses /\ answer' # Unanswered
  <2>1. answer = Unanswered
    BY EarlySteps DEF RequestIInv, Stage, Early
  <2> QED
    BY EarlySteps, <2>1 DEF Answer, Statuses, Unanswered
<1>2. UNCHANGED <<Counted, ChargedCalls>> /\ row = NoRow /\ charges = {} /\ rows = 0 /\ ChargedCalls = {} /\ row.status = 0
  BY <1>1 DEF Counted, ChargedCalls, RequestIInv, Stage, Early, NoRow
<1>3. RequestTypeOK'
  BY <1>1 DEF RequestIInv, RequestTypeOK
<1>4. Stage'
  BY <1>1, <1>2 DEF RequestIInv, Stage, Early, Preparing
<1>5. ChargesKnown'
  BY <1>1, <1>2 DEF RequestIInv, ChargesKnown, Early
<1>6. SettledByWalk' /\ Accounting'
  BY <1>1, <1>2, OneOfEachOf
     DEF SettledByWalk, Accounting, RowCountsEachCallOnce, Settled, ChargesAreOnTheRow, Early, SetToBag, \sqsubseteq
<1> QED
  BY <1>3, <1>4, <1>5, <1>6 DEF RequestIInv

LEMMA LimitsKeep == ASSUME RequestIInv, CheckLimits PROVE RequestIInv'
<1>1. /\ pc = "limits" /\ UNCHANGED <<ep, gone, attempt, billed, charges, row, priced>>
      /\ \/ Answer(500) /\ pc' = "done" /\ UNCHANGED <<admitted, rows>>
         \/ Answer(429) /\ pc' = "done" /\ rows' \in {rows, rows + 1} /\ UNCHANGED admitted
         \/ admitted' = TRUE /\ UNCHANGED <<answer, rows>>
            /\ pc' = IF ep \in Chatting THEN "prepare" ELSE "open"
  BY DEF CheckLimits, walking
<1>2. /\ UNCHANGED <<Counted, ChargedCalls>> /\ row = NoRow /\ charges = {} /\ rows = 0 /\ ChargedCalls = {}
      /\ row.status = 0 /\ answer = Unanswered /\ ~admitted /\ billed = {} /\ attempt = 0 /\ Counted = {}
  BY <1>1, NoneOf DEF Counted, ChargedCalls, RequestIInv, Stage, Early, NoRow
<1>3. /\ rows' \in {0, 1} /\ answer' \in Statuses \cup {Unanswered} /\ pc' \in {"done", "prepare", "open"}
      /\ pc' = "done" => ~admitted' /\ answer' # Unanswered /\ (rows' = 1 => answer' = 429)
      /\ pc' # "done" => admitted' /\ answer' = Unanswered /\ rows' = 0
      /\ pc' = "prepare" => ep \in Chatting
      /\ admitted' \in BOOLEAN
  <2>1. CASE Answer(500) /\ pc' = "done" /\ UNCHANGED <<admitted, rows>>
    BY <1>2, <2>1 DEF Answer, Statuses, Unanswered, RequestIInv, RequestTypeOK
  <2>2. CASE Answer(429) /\ pc' = "done" /\ rows' \in {rows, rows + 1} /\ UNCHANGED admitted
    BY <1>2, <2>2 DEF Answer, Statuses, Unanswered, RequestIInv, RequestTypeOK
  <2>3. CASE admitted' = TRUE /\ UNCHANGED <<answer, rows>> /\ pc' = IF ep \in Chatting THEN "prepare" ELSE "open"
    BY <1>2, <2>3
  <2> QED
    BY <1>1, <2>1, <2>2, <2>3
<1>4. RequestTypeOK'
  BY <1>1, <1>3 DEF RequestIInv, RequestTypeOK, Preparing
<1>5. Stage'
  BY <1>1, <1>2, <1>3 DEF Stage, Early, Preparing
<1>6. ChargesKnown'
  BY <1>1, <1>2 DEF ChargesKnown
<1>7. SettledByWalk' /\ Accounting'
  BY <1>1, <1>2
     DEF SettledByWalk, Accounting, RowCountsEachCallOnce, Settled, ChargesAreOnTheRow, SetToBag, \sqsubseteq
<1> QED
  BY <1>4, <1>5, <1>6, <1>7 DEF RequestIInv

\* A step before the walk that buys side calls and charges them all, the query
\* embedding excepted.
LEMMA PreparingKeeps ==
    ASSUME RequestIInv, pc \in Preparing, pc' \in Preparing \cup {"open"},
           UNCHANGED <<ep, gone, admitted, attempt, row, priced, answer, rows>>,
           NEW calls, \A c \in calls : c.n = 0 /\ c # QueryEmbedding,
           NEW more \in SUBSET {QueryEmbedding},
           billed' = billed \cup calls \cup more, charges' = charges \cup {SideCharge(c, FALSE) : c \in calls}
    PROVE  RequestIInv'
<1>1. row = NoRow /\ attempt = 0 /\ ep \in Chatting /\ answer = Unanswered /\ admitted /\ rows = 0 /\ row' = row
      /\ row.status = 0 /\ Counted = {} /\ Counted' = {}
  BY NoneOf DEF RequestIInv, Stage, Preparing, Early, NoRow, Counted
<1>2. ChargedCalls' = ChargedCalls \cup calls /\ \A ch \in charges' : ch \in charges \/ ~ch.inRow
  <2> DEFINE new == {SideCharge(c, FALSE) : c \in calls}
  <2>1. \A ch \in new : ch.call \in calls /\ ch.inRow = FALSE
    BY DEF SideCharge
  <2>2. \A c \in calls : SideCharge(c, FALSE) \in new /\ SideCharge(c, FALSE).call = c
    BY DEF SideCharge
  <2>3. charges' = charges \cup new
    OBVIOUS
  <2> HIDE DEF new
  <2>4. \A c \in calls : c \in ChargedCalls'
    BY <2>2, <2>3 DEF ChargedCalls
  <2> QED
    BY <2>1, <2>3, <2>4 DEF ChargedCalls
<1>3. QueryEmbedding.n = 0
  BY DEF QueryEmbedding, Call
<1>4. RequestTypeOK'
  <2>1. row' \in Rows(billed')
    BY <1>1, NoneOf
  <2> QED
    BY <2>1 DEF RequestIInv, RequestTypeOK
<1>5. Stage'
  BY <1>1 DEF Stage, Preparing, Early
<1>6. ChargesKnown'
  <2>1. {c \in billed' : c.n = 0 /\ c # QueryEmbedding} = ChargedCalls'
    BY <1>1, <1>2 DEF RequestIInv, ChargesKnown
  <2>2. \A c \in billed' : c.n \in 0..attempt'
    BY <1>1, <1>3 DEF RequestIInv, ChargesKnown
  <2> QED
    BY <1>1, <1>2, <2>1, <2>2 DEF RequestIInv, ChargesKnown
<1>7. SettledByWalk' /\ Accounting'
  BY <1>1 DEF SettledByWalk, Accounting, RowCountsEachCallOnce, Settled, ChargesAreOnTheRow, Preparing
<1> QED
  BY <1>4, <1>5, <1>6, <1>7 DEF RequestIInv

LEMMA PrepareSteps == ASSUME RequestIInv, PrepareContext \/ Condense \/ Search PROVE RequestIInv'
<1>0. pc \in Preparing
  BY DEF PrepareContext, Condense, Search, Preparing
<1>1. CASE PrepareContext
  <2> DEFINE none == {}
  <2>1. /\ pc' \in Preparing \cup {"open"} /\ UNCHANGED <<ep, gone, admitted, attempt, row, priced, answer, rows, billed, charges>>
    BY <1>1 DEF PrepareContext, Preparing, walking, spending
  <2>2. /\ billed' = billed \cup none \cup none /\ charges' = charges \cup {SideCharge(c, FALSE) : c \in none}
        /\ none \in SUBSET {QueryEmbedding} /\ \A c \in none : c.n = 0 /\ c # QueryEmbedding
    BY <2>1
  <2> QED
    BY <1>0, <2>1, <2>2, PreparingKeeps
<1>2. CASE Condense
  <2>1. pc' \in Preparing \cup {"open"} /\ UNCHANGED <<ep, gone, admitted, attempt, row, priced, answer, rows>>
    BY <1>2 DEF Condense, Preparing, walking
  <2> DEFINE none == {}
  <2>2. CASE UNCHANGED <<billed, charges>>
    <3>1. /\ billed' = billed \cup none \cup none /\ charges' = charges \cup {SideCharge(c, FALSE) : c \in none}
          /\ none \in SUBSET {QueryEmbedding} /\ \A c \in none : c.n = 0 /\ c # QueryEmbedding
      BY <2>2
    <3> QED
      BY <1>0, <2>1, <3>1, PreparingKeeps
  <2>3. CASE ~UNCHANGED <<billed, charges>>
    <3>1. PICK c \in ChatConns, exact \in BOOLEAN :
            /\ billed' = billed \cup {Call("condense", 0, c, exact)}
            /\ charges' = charges \cup {SideCharge(Call("condense", 0, c, exact), FALSE)}
      BY <1>2, <2>3 DEF Condense
    <3> DEFINE calls == {Call("condense", 0, c, exact)}
    <3>2. \A call \in calls : call.n = 0 /\ call # QueryEmbedding
      BY DEF Call, QueryEmbedding
    <3>3. /\ billed' = billed \cup calls \cup none /\ charges' = charges \cup {SideCharge(call, FALSE) : call \in calls}
          /\ none \in SUBSET {QueryEmbedding}
      BY <3>1
    <3> HIDE DEF calls, none
    <3> QED
      BY <1>0, <2>1, <3>2, <3>3, PreparingKeeps
  <2> QED
    BY <2>2, <2>3
<1>3. CASE Search
  <2>1. pc' \in Preparing \cup {"open"} /\ UNCHANGED <<ep, gone, admitted, attempt, row, priced, answer, rows>>
    BY <1>3 DEF Search, Preparing
  <2>2. CASE billed' \in {billed, billed \cup {QueryEmbedding}} /\ UNCHANGED <<charges, context>>
    <3> DEFINE none == {}
    <3>1. PICK more \in SUBSET {QueryEmbedding} : billed' = billed \cup none \cup more
      BY <2>2, {} \in SUBSET {QueryEmbedding}, {QueryEmbedding} \in SUBSET {QueryEmbedding}
    <3>2. charges' = charges \cup {SideCharge(c, FALSE) : c \in none} /\ \A c \in none : c.n = 0 /\ c # QueryEmbedding
      BY <2>2
    <3> QED
      BY <1>0, <2>1, <3>1, <3>2, PreparingKeeps
  <2>3. CASE \E calls \in Reranks(0, conn, built), found \in BOOLEAN :
               /\ billed' = billed \cup calls \cup {QueryEmbedding}
               /\ charges' = charges \cup {SideCharge(c, FALSE) : c \in calls}
               /\ context' = found
    <3>1. PICK calls \in Reranks(0, conn, built) :
               /\ billed' = billed \cup calls \cup {QueryEmbedding}
               /\ charges' = charges \cup {SideCharge(c, FALSE) : c \in calls}
      BY <2>3
    <3>2. \A c \in calls : c.n = 0 /\ c # QueryEmbedding
      BY DEF Reranks, Call, QueryEmbedding
    <3> QED
      BY <1>0, <2>1, <3>1, <3>2, PreparingKeeps, {QueryEmbedding} \in SUBSET {QueryEmbedding}
  <2> QED
    BY <1>3, <2>2, <2>3 DEF Search
<1> QED
  BY <1>1, <1>2, <1>3

LEMMA OpenKeeps == ASSUME RequestIInv, OpenRecord PROVE RequestIInv'
<1>1. /\ pc = "open" /\ UNCHANGED <<ep, gone, admitted, attempt, billed, charges, priced, rows>>
      /\ \/ pc' = "invoke" /\ row' = NoRow /\ UNCHANGED answer
         \/ \E status \in {429, 500} : row' = [NoRow EXCEPT !.status = status] /\ Answer(status) /\ pc' = "record"
  BY DEF OpenRecord, walking
<1>2. /\ row = NoRow /\ attempt = 0 /\ answer = Unanswered /\ admitted /\ rows = 0 /\ Counted = {} /\ UNCHANGED ChargedCalls
  BY <1>1, NoneOf DEF RequestIInv, Stage, Early, Counted, ChargedCalls, NoRow
<1>3. /\ row' \in Rows(billed') /\ Counted' = {} /\ row'.status # 200
      /\ \/ pc' = "invoke" /\ answer' = Unanswered
         \/ pc' = "record" /\ answer' \in {429, 500} /\ row'.status = answer'
  <2>0. NoRow \in Rows(billed') /\ DOMAIN NoRow.tokens = {} /\ NoRow.status = 0 /\ NoRow.tokens = EmptyBag
    BY NoneOf DEF NoRow
  <2>1. CASE pc' = "invoke" /\ row' = NoRow /\ UNCHANGED answer
    BY <1>2, <2>0, <2>1 DEF Counted
  <2>2. ASSUME NEW status \in {429, 500}, row' = [NoRow EXCEPT !.status = status], Answer(status), pc' = "record"
        PROVE  /\ row' \in Rows(billed') /\ Counted' = {} /\ row'.status # 200
               /\ answer' \in {429, 500} /\ row'.status = answer'
    <3>1. status \in Nat
      OBVIOUS
    <3>2. row' \in Rows(billed') /\ row'.tokens = EmptyBag /\ row'.status = status
      BY <2>0, <2>2, <3>1, WithStatus
    <3> QED
      BY <1>2, <2>2, <3>2, NoneOf DEF Counted, Answer
  <2> QED
    BY <1>1, <2>1, <2>2
<1>4. RequestTypeOK'
  BY <1>1, <1>3 DEF RequestIInv, RequestTypeOK, Statuses
<1>5. Stage'
  BY <1>1, <1>2, <1>3 DEF Stage, AnswerTold, Preparing, Early, Unanswered
<1>6. ChargesKnown'
  BY <1>1, <1>2, <1>3 DEF RequestIInv, ChargesKnown
<1>7. SettledByWalk' /\ Accounting'
  BY <1>3 DEF SettledByWalk, Accounting, RowCountsEachCallOnce, Settled, ChargesAreOnTheRow
<1> QED
  BY <1>4, <1>5, <1>6, <1>7 DEF RequestIInv

\* What an attempt may do to the bill, the charges and the row.
Billing(new) ==
    /\ UNCHANGED <<ep, gone, admitted, priced, rows>>
    /\ billed' = billed \cup new /\ \A c \in new : c.n = attempt'
    /\ attempt' \in {attempt, attempt + 1} /\ (new # {} => attempt' = attempt + 1)
    /\ row' \in Rows(billed')
    /\ ep \in Chatting => UNCHANGED charges /\ \A c \in Counted' : c.n # 0
    /\ ep \notin Chatting => (\A ch \in charges' : ch.inRow) /\ ChargedCalls' \subseteq Counted'

\* How it ends: without an answer, or with one.
GoesOn ==
    /\ pc' \in {"invoke", "failed"} /\ UNCHANGED answer
    /\ ep \notin Chatting /\ pc' = "invoke" => charges' = {} /\ (ep \in Searching => Counted' = {})
Settles(new) ==
    /\ pc' = "record" /\ AnswerTold' /\ answer' \in Statuses \cup {Unanswered}
    /\ row'.status = 200 => /\ attempt' = attempt + 1 /\ Counted' = new
                            /\ \A c \in Counted' \ ChargedCalls' : c.conn = conn'

LEMMA AttemptKeeps ==
    ASSUME NEW new, RequestIInv, pc = "invoke", Billing(new), GoesOn \/ Settles(new)
    PROVE  RequestIInv'
<1> USE DEF Billing, GoesOn, Settles
<1>1. admitted /\ answer = Unanswered /\ rows = 0 /\ attempt \in Nat /\ \A c \in billed : c.n \in 0..attempt
  BY DEF RequestIInv, Stage, RequestTypeOK, ChargesKnown, Early
<1>2. attempt' \in Nat /\ \A c \in billed' : c.n \in 0..attempt' /\ (c \in new => c.n # 0)
  BY <1>1
<1>3. RequestTypeOK'
  BY <1>2 DEF RequestIInv, RequestTypeOK
<1>4. Stage'
  BY <1>1 DEF Stage, Early, Preparing
<1>5. ChargesKnown'
  <2>1. CASE ep \in Chatting
    <3>1. UNCHANGED ChargedCalls /\ QueryEmbedding' = QueryEmbedding
      BY <2>1 DEF ChargedCalls, QueryEmbedding, Call
    <3>2. {c \in billed' : c.n = 0 /\ c # QueryEmbedding} = {c \in billed : c.n = 0 /\ c # QueryEmbedding}
      BY <1>2
    <3> QED
      BY <1>2, <2>1, <3>1, <3>2 DEF RequestIInv, ChargesKnown
  <2>2. CASE ep \notin Chatting
    BY <1>2, <2>2 DEF RequestIInv, ChargesKnown
  <2> QED
    BY <2>1, <2>2
<1>6. SettledByWalk'
  <2> SUFFICES ASSUME pc' = "record", row'.status = 200
               PROVE  /\ attempt' # 0
                      /\ Counted' = {c \in billed' : c.n = attempt'}
                      /\ \A c \in Counted' \ ChargedCalls' : c.conn = conn'
    BY DEF SettledByWalk
  <2>1. attempt' = attempt + 1 /\ Counted' = new
    OBVIOUS
  <2>2. new = {c \in billed' : c.n = attempt'}
    BY <1>1, <2>1
  <2> QED
    BY <1>1, <2>1, <2>2
<1>7. Accounting'
  BY DEF Accounting, RowCountsEachCallOnce, Settled, ChargesAreOnTheRow
<1> QED
  BY <1>3, <1>4, <1>5, <1>6, <1>7 DEF RequestIInv

\* During a walk of chat, embeddings or rerank.
LEMMA Walking ==
    ASSUME RequestIInv, pc = "invoke"
    PROVE  /\ answer = Unanswered /\ attempt \in Nat /\ \A c \in Counted : c.n # 0
           /\ ep \notin Chatting => charges = {} /\ ChargedCalls = {}
           /\ ep \in Searching => Counted = {}
           /\ row \in Rows(billed)
           /\ \A S : row \in Rows(billed \cup S)
<1>1. row \in Rows(billed) /\ attempt \in Nat
  BY DEF RequestIInv, RequestTypeOK
<1>2. Counted \subseteq billed
  <2>1. row.tokens \in Ones(billed)
    BY <1>1 DEF Rows
  <2> QED
    BY <2>1, OneOfEach DEF Counted
<1>3. /\ answer = Unanswered /\ \A c \in Counted : c.n # 0
      /\ ep \notin Chatting => charges = {} /\ ChargedCalls = {}
      /\ ep \in Searching => Counted = {}
  BY <1>2 DEF RequestIInv, Stage, ChargesKnown, ChargedCalls, Searching, Chatting
<1>4. \A S : row \in Rows(billed \cup S)
  BY <1>1, RowsGrow, \A S : billed \subseteq billed \cup S
<1> QED
  BY <1>1, <1>3, <1>4

LEMMA OneCallSettles ==
    ASSUME RequestIInv, pc = "invoke", ep \notin Searching,
           UNCHANGED <<ep, gone, admitted, targets, at, priced, rows, charges>>, attempt' = attempt + 1,
           NEW call, call.n = attempt + 1, call.conn = conn, billed' = billed \cup {call},
           NEW r \in Rows(billed'), DOMAIN r.tokens = {call}, NEW status \in Nat, Settle(status, r),
           \/ Answer(status) /\ status \in {200, 500}
           \/ Answer(200) /\ status = 502
           \/ UNCHANGED answer /\ status = 499 /\ gone
    PROVE  RequestIInv'
<1>1. pc' = "record" /\ row' \in Rows(billed') /\ row'.status = status /\ Counted' = {call} /\ UNCHANGED conn
  BY WithStatus DEF Settle, Counted, conn
<1>2. AnswerTold' /\ answer' \in Statuses \cup {Unanswered}
  BY <1>1, Walking DEF AnswerTold, Answer, Statuses, Unanswered
<1>3. /\ \A c \in Counted' : c.n # 0
      /\ ep \notin Chatting => charges' = {} /\ ChargedCalls' = {}
  BY <1>1, Walking DEF ChargedCalls
<1> DEFINE new == {call}
<1>4. /\ billed' = billed \cup new /\ \A c \in new : c.n = attempt' /\ c.conn = conn'
      /\ Counted' = new
  BY <1>1
<1>5. /\ ep \in Chatting => UNCHANGED charges /\ \A c \in Counted' : c.n # 0
      /\ ep \notin Chatting => (\A ch \in charges' : ch.inRow) /\ ChargedCalls' \subseteq Counted'
  <2>1. attempt \in Nat
    BY Walking
  <2>2. \A c \in Counted' : c.n # 0
    BY <1>1, <2>1
  <2> QED
    BY <1>3, <2>2
<1>6. /\ attempt' \in {attempt, attempt + 1} /\ (new # {} => attempt' = attempt + 1)
      /\ \A c \in Counted' \ ChargedCalls' : c.conn = conn'
  BY <1>4
<1>7. row'.status = 200 => /\ attempt' = attempt + 1 /\ Counted' = new
                           /\ \A c \in Counted' \ ChargedCalls' : c.conn = conn'
  BY <1>4, <1>6
<1>8. billed' = billed \cup new /\ (\A c \in new : c.n = attempt') /\ row' \in Rows(billed')
  BY <1>1, <1>4
<1> HIDE DEF new
<1>9. Billing(new)
  BY <1>5, <1>6, <1>8 DEF Billing
<1>10. Settles(new)
  BY <1>1, <1>2, <1>7 DEF Settles
<1> QED
  BY <1>9, <1>10, AttemptKeeps

LEMMA AttemptFails ==
    ASSUME RequestIInv, pc = "invoke", ep \notin Searching, pc' \in {"invoke", "failed"},
           UNCHANGED <<ep, gone, admitted, priced, rows, charges, answer>>,
           NEW new, billed' = billed \cup new, \A c \in new : c.n = attempt',
           attempt' \in {attempt, attempt + 1}, new # {} => attempt' = attempt + 1,
           row' \in Rows(billed'), \A c \in Counted' : c.n # 0
    PROVE  RequestIInv'
<1>1. ep \notin Chatting => charges' = {} /\ ChargedCalls' = {}
  BY Walking DEF ChargedCalls
<1> QED
  BY <1>1, AttemptKeeps DEF Billing, GoesOn, Settles

\* The row is left as it was.
LEMMA AttemptFailsSame ==
    ASSUME RequestIInv, pc = "invoke", ep \notin Searching, pc' \in {"invoke", "failed"},
           UNCHANGED <<ep, gone, admitted, priced, rows, charges, answer, row>>,
           attempt' \in {attempt, attempt + 1},
           NEW new, billed' = billed \cup new, \A c \in new : c.n = attempt + 1 /\ attempt' = attempt + 1
    PROVE  RequestIInv'
<1>1. row' \in Rows(billed') /\ \A c \in Counted' : c.n # 0
  BY Walking DEF Counted
<1> QED
  BY <1>1, AttemptFails

LEMMA FailsMoves == \A r : Fails(r) \/ TargetConfigFails(r) => row' = r /\ pc' \in {"invoke", "failed"}
BY DEF Fails, TargetConfigFails

\* A call of the attempt fills the row.
LEMMA CallSettles ==
    ASSUME RequestIInv, pc = "invoke", ep \notin Searching,
           UNCHANGED <<ep, gone, admitted, targets, at, priced, rows, charges>>, attempt' = next,
           NEW kind, NEW exact, billed' = billed \cup {Call(kind, next, conn, exact)},
           NEW status \in Nat, Settle(status, FillUsage(row, Call(kind, next, conn, exact))),
           \/ Answer(status) /\ status \in {200, 500}
           \/ Answer(200) /\ status = 502
           \/ UNCHANGED answer /\ status = 499 /\ gone
    PROVE  RequestIInv'
<1> DEFINE call == Call(kind, next, conn, exact)
           r == FillUsage(row, call)
<1>1. call.n = attempt + 1 /\ call.conn = conn /\ billed' = billed \cup {call} /\ call \in billed' /\ attempt' = attempt + 1
      /\ Settle(status, r)
  BY DEF Call, next
<1> HIDE DEF call
<1>2. row \in Rows(billed')
  BY <1>1, Walking
<1>3. r \in Rows(billed') /\ DOMAIN r.tokens = {call}
  BY <1>1, <1>2, Filled
<1> HIDE DEF r
<1> QED
  BY <1>1, <1>3, OneCallSettles

LEMMA ChatOutcomeKeeps ==
    ASSUME RequestIInv, pc = "invoke", ep \in Chatting, ChatOutcome, UNCHANGED kept
    PROVE  RequestIInv'
<1>0. ep \notin Searching /\ UNCHANGED <<ep, gone, admitted, targets, priced, rows>>
  BY DEF Searching, Chatting, kept
<1>1. CASE TargetConfigFails(row) /\ UNCHANGED <<attempt, billed, charges, answer>>
  <2> DEFINE new == {}
  <2>1. billed' = billed \cup new /\ \A c \in new : c.n = attempt + 1 /\ attempt' = attempt + 1
    BY <1>1
  <2> HIDE DEF new
  <2> QED
    BY <1>0, <1>1, <2>1, FailsMoves, AttemptFailsSame
<1>2. CASE attempt' = next /\ UNCHANGED charges /\ Fails(row) /\ UNCHANGED <<billed, answer>>
  <2> DEFINE new == {}
  <2>1. billed' = billed \cup new /\ attempt' = attempt + 1 /\ \A c \in new : c.n = attempt + 1 /\ attempt' = attempt + 1
    BY <1>2 DEF next
  <2> HIDE DEF new
  <2> QED
    BY <1>0, <1>2, <2>1, FailsMoves, AttemptFailsSame
<1>3. ASSUME NEW exact \in BOOLEAN, NEW status \in {200, 502}, attempt' = next, UNCHANGED <<charges, at>>,
             billed' = billed \cup {Call("main", next, conn, exact)},
             Settle(status, FillUsage(row, Call("main", next, conn, exact))), Answer(200)
      PROVE  RequestIInv'
  BY <1>0, <1>3, CallSettles
<1>4. ASSUME NEW exact \in BOOLEAN, gone, attempt' = next, UNCHANGED <<charges, at, answer>>,
             billed' = billed \cup {Call("main", next, conn, exact)},
             Settle(499, FillUsage(row, Call("main", next, conn, exact)))
      PROVE  RequestIInv'
  BY <1>0, <1>4, CallSettles
<1> QED
  BY <1>1, <1>2, <1>3, <1>4 DEF ChatOutcome

LEMMA ChatKeeps == ASSUME RequestIInv, ChatAttempt \/ MessagesAttempt PROVE RequestIInv'
<1>1. CASE ChatAttempt
  BY <1>1, ChatOutcomeKeeps DEF ChatAttempt, Chatting
<1>2. CASE MessagesAttempt
  <2>0. pc = "invoke" /\ ep \in Chatting /\ ep \notin Searching /\ UNCHANGED kept
        /\ UNCHANGED <<ep, gone, admitted, targets, priced, rows>>
    BY <1>2 DEF MessagesAttempt, Chatting, Searching, kept
  <2>1. ASSUME NEW exact \in BOOLEAN, attempt' = next, UNCHANGED <<charges, at>>,
               billed' = billed \cup {Call("main", next, conn, exact)},
               Settle(500, FillUsage(row, Call("main", next, conn, exact))), Answer(500)
        PROVE  RequestIInv'
    BY <2>0, <2>1, CallSettles
  <2> QED
    BY <1>2, <2>0, <2>1, ChatOutcomeKeeps DEF MessagesAttempt
<1> QED
  BY <1>1, <1>2

LEMMA EmbeddingsKeep == ASSUME RequestIInv, EmbeddingsAttempt PROVE RequestIInv'
<1>0. pc = "invoke" /\ ep \notin Searching /\ UNCHANGED <<ep, gone, admitted, targets, priced, rows>>
  BY DEF EmbeddingsAttempt, Searching, kept
<1>1. CASE TargetConfigFails(row) /\ UNCHANGED <<attempt, billed, charges, answer>>
  <2> DEFINE new == {}
  <2>1. billed' = billed \cup new /\ \A c \in new : c.n = attempt + 1 /\ attempt' = attempt + 1
    BY <1>1
  <2> HIDE DEF new
  <2> QED
    BY <1>0, <1>1, <2>1, FailsMoves, AttemptFailsSame
<1>2. CASE attempt' = next /\ UNCHANGED charges /\ Fails(row) /\ UNCHANGED <<billed, answer>>
  <2> DEFINE new == {}
  <2>1. billed' = billed \cup new /\ attempt' = attempt + 1 /\ \A c \in new : c.n = attempt + 1 /\ attempt' = attempt + 1
    BY <1>2 DEF next
  <2> HIDE DEF new
  <2> QED
    BY <1>0, <1>2, <2>1, FailsMoves, AttemptFailsSame
<1>3. ASSUME NEW exact \in BOOLEAN, attempt' = next, UNCHANGED <<charges, at>>,
             billed' = billed \cup {Call("main", next, conn, exact)},
             Settle(200, FillUsage(row, Call("main", next, conn, exact))), Answer(200)
      PROVE  RequestIInv'
  BY <1>0, <1>3, CallSettles
<1>4. ASSUME NEW exact \in BOOLEAN, attempt' = next, UNCHANGED <<charges, answer>>,
             billed' = billed \cup {Call("main", next, conn, exact)}, Fails(row)
      PROVE  RequestIInv'
  <2> DEFINE new == {Call("main", next, conn, exact)}
  <2>1. billed' = billed \cup new /\ attempt' = attempt + 1 /\ \A c \in new : c.n = attempt + 1 /\ attempt' = attempt + 1
    BY <1>4 DEF next, Call
  <2> HIDE DEF new
  <2> QED
    BY <1>0, <1>4, <2>1, FailsMoves, AttemptFailsSame
<1> QED
  BY <1>1, <1>2, <1>3, <1>4 DEF EmbeddingsAttempt

LEMMA RerankKeeps == ASSUME RequestIInv, RerankAPIAttempt \/ RerankChatAttempt PROVE RequestIInv'
<1>0. pc = "invoke" /\ ep \notin Searching /\ UNCHANGED <<ep, gone, admitted, targets, priced, rows>>
  BY DEF RerankAPIAttempt, RerankChatAttempt, Searching, kept
<1>1. CASE TargetConfigFails(row) /\ UNCHANGED <<attempt, billed, charges, answer>>
  <2> DEFINE new == {}
  <2>1. billed' = billed \cup new /\ \A c \in new : c.n = attempt + 1 /\ attempt' = attempt + 1
    BY <1>1
  <2> HIDE DEF new
  <2> QED
    BY <1>0, <1>1, <2>1, FailsMoves, AttemptFailsSame
<1>2. CASE attempt' = next /\ UNCHANGED <<charges, billed, answer>>
           /\ (Fails(row) \/ (pc' = "failed" /\ UNCHANGED row))
  <2> DEFINE new == {}
  <2>1. billed' = billed \cup new /\ attempt' = attempt + 1 /\ \A c \in new : c.n = attempt + 1 /\ attempt' = attempt + 1
    BY <1>2 DEF next
  <2> HIDE DEF new
  <2> QED
    BY <1>0, <1>2, <2>1, FailsMoves, AttemptFailsSame
<1>3. ASSUME NEW exact \in BOOLEAN, attempt' = next, UNCHANGED <<charges, at>>,
             billed' = billed \cup {Call("main", next, conn, exact)},
             Settle(200, FillUsage(row, Call("main", next, conn, exact))), Answer(200)
      PROVE  RequestIInv'
  BY <1>0, <1>3, CallSettles
<1> DEFINE fresh == [row EXCEPT !.tokens = EmptyBag, !.est = FALSE]
<1>4. \A S : row \in Rows(S) => fresh \in Rows(S) /\ DOMAIN fresh.tokens = {}
  BY Restarted
<1> HIDE DEF fresh
<1>5. CASE attempt' = next /\ UNCHANGED <<charges, billed, answer>> /\ Fails(fresh)
  <2> DEFINE new == {}
  <2>1. billed' = billed \cup new /\ attempt' = attempt + 1 /\ \A c \in new : c.n = attempt'
    BY <1>5 DEF next
  <2>2. new # {} => attempt' = attempt + 1
    OBVIOUS
  <2> HIDE DEF new
  <2>3. row' \in Rows(billed') /\ Counted' = {} /\ pc' \in {"invoke", "failed"}
    <3>1. row \in Rows(billed') /\ row' = fresh /\ pc' \in {"invoke", "failed"}
      BY <1>0, <1>5, FailsMoves, Walking
    <3> QED
      BY <1>4, <3>1 DEF Counted
  <2> QED
    BY <1>0, <1>5, <2>1, <2>2, <2>3, AttemptFails
<1>6. ASSUME NEW exact \in BOOLEAN, attempt' = next, UNCHANGED charges,
             billed' = billed \cup {Call("llm", next, conn, exact)},
             \/ Settle(200, AddTo(fresh, Call("llm", next, conn, exact))) /\ Answer(200) /\ UNCHANGED at
             \/ Fails(AddTo(fresh, Call("llm", next, conn, exact))) /\ UNCHANGED answer
      PROVE  RequestIInv'
  <2> DEFINE call == Call("llm", next, conn, exact)
             r == AddTo(fresh, call)
             new == {call}
  <2>1. call.n = attempt + 1 /\ call.conn = conn /\ attempt' = attempt + 1 /\ billed' = billed \cup {call}
    BY <1>6 DEF Call, next
  <2> HIDE DEF call
  <2>2. fresh \in Rows(billed') /\ DOMAIN fresh.tokens = {} /\ call \in billed'
    <3>1. row \in Rows(billed')
      BY <1>0, <2>1, Walking
    <3> QED
      BY <1>4, <2>1, <3>1
  <2>3. r \in Rows(billed') /\ DOMAIN r.tokens = {call}
    BY <2>2, Added
  <2>4. \/ Settle(200, r) /\ Answer(200) /\ UNCHANGED at
        \/ Fails(r) /\ UNCHANGED answer
    BY <1>6 DEF call
  <2> HIDE DEF r
  <2>5. CASE Settle(200, r) /\ Answer(200) /\ UNCHANGED at
    BY ZenonT(60), <1>0, <1>6, <2>1, <2>3, <2>5, OneCallSettles
  <2>6. CASE Fails(r) /\ UNCHANGED answer
    <3>1. row' \in Rows(billed') /\ Counted' = {call} /\ pc' \in {"invoke", "failed"}
      BY <2>3, <2>6, FailsMoves DEF Counted
    <3>2. billed' = billed \cup new /\ \A c \in new : c.n = attempt' /\ c.n # 0
      <4>1. attempt \in Nat
        BY <1>0, Walking
      <4> QED
        BY <2>1, <4>1
    <3>3. \A c \in Counted' : c.n # 0
      BY <3>1, <3>2
    <3> HIDE DEF new
    <3> QED
      BY <1>0, <1>6, <2>1, <2>6, <3>1, <3>2, <3>3, AttemptFails
  <2> QED
    BY <2>4, <2>5, <2>6
<1>7. CASE RerankAPIAttempt
  BY <1>1, <1>2, <1>3, <1>7 DEF RerankAPIAttempt
<1>8. CASE RerankChatAttempt
  <2>1. CASE TargetConfigFails(row) /\ UNCHANGED <<attempt, billed, charges, answer>>
    BY <1>1, <2>1
  <2>2. CASE ~(TargetConfigFails(row) /\ UNCHANGED <<attempt, billed, charges, answer>>)
    <3>1. /\ attempt' = next /\ UNCHANGED charges
          /\ \/ \E exact \in BOOLEAN :
                /\ billed' = billed \cup {Call("llm", next, conn, exact)}
                /\ \/ Settle(200, AddTo(fresh, Call("llm", next, conn, exact))) /\ Answer(200) /\ UNCHANGED at
                   \/ Fails(AddTo(fresh, Call("llm", next, conn, exact))) /\ UNCHANGED answer
             \/ Fails(fresh) /\ UNCHANGED <<billed, answer>>
             \/ pc' = "failed" /\ UNCHANGED <<row, billed, answer>>
      BY <1>8, <2>2 DEF RerankChatAttempt, fresh
    <3> QED
      BY <1>2, <1>5, <1>6, <3>1
  <2> QED
    BY <2>1, <2>2
<1> QED
  BY <1>7, <1>8

\* A search of an attempt that made these embedding calls, and its reranks.
Searched(embeds, chatConn) ==
    \E calls \in IF embeds = {} THEN {{}} ELSE Reranks(next, chatConn, TRUE) :
      LET filled == IF embeds = {} THEN row ELSE FillUsage(row, CHOOSE c \in embeds : TRUE)
          counted == IF calls = {} THEN filled ELSE AddTo(filled, CHOOSE c \in calls : TRUE)
      IN /\ billed' = billed \cup embeds \cup calls
         /\ charges' = {SideCharge(c, TRUE) : c \in calls}
         /\ \/ Settle(200, counted) /\ Answer(200) /\ UNCHANGED <<at, retries>>
            \/ row' = [counted EXCEPT !.status = 200] /\ pc' = "failed" /\ UNCHANGED <<at, retries, answer>>

LEMMA RetrieveKeeps == ASSUME RequestIInv, RetrieveAttempt PROVE RequestIInv'
<1>0. /\ pc = "invoke" /\ ep \in Searching /\ ep \notin Chatting
      /\ UNCHANGED <<ep, gone, admitted, targets, priced, rows>> /\ attempt' = attempt + 1
  BY DEF RetrieveAttempt, Searching, Chatting, kept, next
<1>1. charges = {} /\ ChargedCalls = {} /\ Counted = {} /\ answer = Unanswered /\ attempt \in Nat
  BY <1>0, Walking
<1>2. ASSUME NEW new, billed' = billed \cup new, \A c \in new : c.n = attempt + 1,
             row' = row, pc' \in {"invoke", "failed"}, UNCHANGED <<charges, answer>>
      PROVE  RequestIInv'
  <2>1. row' \in Rows(billed') /\ Counted' = {} /\ ChargedCalls' = {} /\ charges' = {}
    BY <1>0, <1>1, <1>2, Walking DEF Counted, ChargedCalls
  <2> QED
    BY <1>0, <1>2, <2>1, AttemptKeeps DEF Billing, GoesOn, Settles
<1>3. CASE Fails(row) /\ UNCHANGED <<billed, charges, answer>>
  <2> DEFINE new == {}
  <2>1. billed' = billed \cup new /\ \A c \in new : c.n = attempt + 1
    BY <1>3
  <2> HIDE DEF new
  <2> QED
    BY <1>2, <1>3, <2>1, FailsMoves
<1>4. CASE /\ billed' = billed \cup {Call("embed", next, conn, TRUE)}
           /\ pc' = "failed" /\ UNCHANGED <<charges, row, at, retries, answer>>
  <2> DEFINE new == {Call("embed", next, conn, TRUE)}
  <2>1. billed' = billed \cup new /\ \A c \in new : c.n = attempt + 1
    BY <1>4 DEF Call, next
  <2> HIDE DEF new
  <2> QED
    BY <1>2, <1>4, <2>1
<1>5. ASSUME NEW embeds \in {{}} \cup {{Call("embed", next, conn, e)} : e \in BOOLEAN}, NEW chatConn \in ChatConns,
             NEW calls \in IF embeds = {} THEN {{}} ELSE Reranks(next, chatConn, TRUE),
             NEW filled, filled = IF embeds = {} THEN row ELSE FillUsage(row, CHOOSE c \in embeds : TRUE),
             NEW counted, counted = IF calls = {} THEN filled ELSE AddTo(filled, CHOOSE c \in calls : TRUE),
             billed' = billed \cup embeds \cup calls,
             charges' = {SideCharge(c, TRUE) : c \in calls},
             \/ Settle(200, counted) /\ Answer(200) /\ UNCHANGED at
             \/ row' = [counted EXCEPT !.status = 200] /\ pc' = "failed" /\ UNCHANGED answer
      PROVE  RequestIInv'
  <2>1. \/ embeds = {} /\ calls = {}
        \/ \E c : embeds = {c} /\ c.kind = "embed" /\ c.n = attempt + 1 /\ c.conn = conn
    <3>1. CASE embeds = {}
      BY <1>5, <3>1
    <3>2. CASE embeds # {}
      <4>1. PICK e \in BOOLEAN : embeds = {Call("embed", next, conn, e)}
        BY <3>2
      <4> DEFINE c == Call("embed", next, conn, e)
      <4>2. c.kind = "embed" /\ c.n = attempt + 1 /\ c.conn = conn
        BY DEF Call, next
      <4> HIDE DEF c
      <4>3. embeds = {c}
        BY <4>1 DEF c
      <4> QED
        BY <4>2, <4>3
    <3> QED
      BY <3>1, <3>2
  <2>2. \/ calls = {}
        \/ \E c : calls = {c} /\ c.kind # "embed" /\ c.n = attempt + 1
    <3>1. CASE embeds = {}
      BY <2>1, <3>1
    <3>2. CASE embeds # {}
      BY <3>2 DEF Call, next, Reranks
    <3> QED
      BY <3>1, <3>2
  <2> DEFINE new == embeds \cup calls
  <2>3. row \in Rows(billed') /\ billed' = billed \cup new
    <3>1. billed' = billed \cup new
      BY <1>5
    <3> HIDE DEF new
    <3> QED
      BY <1>0, <3>1, Walking
  <2>4. filled \in Rows(billed') /\ DOMAIN filled.tokens = embeds
    <3>1. CASE embeds = {}
      BY <1>1, <1>5, <2>3, <3>1 DEF Counted
    <3>2. ASSUME NEW c, embeds = {c}
          PROVE  filled \in Rows(billed') /\ DOMAIN filled.tokens = embeds
      <4>1. filled = FillUsage(row, c) /\ c \in billed'
        BY <1>5, <3>2
      <4> QED
        BY <2>3, <3>2, <4>1, Filled
    <3> QED
      BY <2>1, <3>1, <3>2
  <2>5. counted \in Rows(billed') /\ DOMAIN counted.tokens = new
    <3>1. CASE calls = {}
      BY <1>5, <2>4, <3>1
    <3>2. ASSUME NEW c, calls = {c}, c.kind # "embed"
          PROVE  counted \in Rows(billed') /\ DOMAIN counted.tokens = new
      <4>1. counted = AddTo(filled, c) /\ c \in billed' /\ c \notin embeds
        BY <1>5, <2>1, <3>2
      <4> QED
        BY <2>4, <3>2, <4>1, Added
    <3> QED
      BY <2>2, <3>1, <3>2
  <2>6. row' \in Rows(billed') /\ Counted' = new /\ row'.status = 200
    <3>1. row' = [counted EXCEPT !.status = 200] /\ 200 \in Nat
      BY ZenonT(60), <1>5 DEF Settle
    <3> QED
      BY <2>5, <3>1, WithStatus DEF Counted
  <2>7. ChargedCalls' = calls /\ \A ch \in charges' : ch.inRow
    <3> DEFINE made == {SideCharge(c, TRUE) : c \in calls}
    <3>1. \A ch \in made : ch.call \in calls /\ ch.inRow = TRUE
      BY DEF SideCharge
    <3>2. \A c \in calls : SideCharge(c, TRUE) \in made /\ SideCharge(c, TRUE).call = c
      BY DEF SideCharge
    <3>3. charges' = made
      BY <1>5
    <3> HIDE DEF made
    <3>4. \A c \in calls : c \in ChargedCalls'
      BY <3>2, <3>3 DEF ChargedCalls
    <3> QED
      BY <3>1, <3>3, <3>4 DEF ChargedCalls
  <2>8. \A c \in new : c.n = attempt' /\ (c \notin calls => c.conn = conn)
    BY <1>0, <2>1, <2>2
  <2>9. CASE Settle(200, counted) /\ Answer(200) /\ UNCHANGED at
    <3>1. pc' = "record" /\ answer' = 200 /\ UNCHANGED conn
      BY <1>0, <1>1, <2>9 DEF Settle, Answer, conn
    <3>2. AnswerTold' /\ answer' \in Statuses \cup {Unanswered}
      BY <2>6, <3>1 DEF AnswerTold, Statuses, Unanswered
    <3>3. \A c \in Counted' \ ChargedCalls' : c.conn = conn'
      BY <2>6, <2>7, <2>8, <3>1
    <3>4. ChargedCalls' \subseteq Counted'
      BY <2>6, <2>7
    <3>5. /\ attempt' = attempt + 1 /\ attempt' \in {attempt, attempt + 1}
          /\ \A c \in new : c.n = attempt'
      BY <1>0, <2>8
    <3>6. row'.status = 200 => /\ attempt' = attempt + 1 /\ Counted' = new
                               /\ \A c \in Counted' \ ChargedCalls' : c.conn = conn'
      BY <2>6, <3>3, <3>5
    <3>7. ep \notin Chatting => (\A ch \in charges' : ch.inRow) /\ ChargedCalls' \subseteq Counted'
      BY <2>7, <3>4
    <3>8. row' \in Rows(billed') /\ billed' = billed \cup new
      BY <2>3, <2>6
    <3> HIDE DEF new
    <3>9. Billing(new)
      BY <1>0, <3>5, <3>7, <3>8 DEF Billing
    <3>10. Settles(new)
      BY <3>1, <3>2, <3>6 DEF Settles
    <3> QED
      BY <1>0, <3>9, <3>10, AttemptKeeps
  <2>10. CASE pc' = "failed" /\ UNCHANGED answer
    <3>1. ChargedCalls' \subseteq Counted' /\ pc' \in {"invoke", "failed"} /\ pc' # "invoke"
      BY <2>6, <2>7, <2>10
    <3>2. /\ attempt' \in {attempt, attempt + 1}
          /\ \A c \in new : c.n = attempt'
      BY <1>0, <2>8
    <3>3. /\ pc' \in {"invoke", "failed"} /\ UNCHANGED answer
          /\ ep \notin Chatting /\ pc' = "invoke" => charges' = {} /\ (ep \in Searching => Counted' = {})
      BY <2>10, <3>1
    <3>4. new # {} => attempt' = attempt + 1
      BY <1>0
    <3>5. ep \notin Chatting => (\A ch \in charges' : ch.inRow) /\ ChargedCalls' \subseteq Counted'
      BY <2>7, <3>1
    <3>6. row' \in Rows(billed') /\ billed' = billed \cup new
      BY <2>3, <2>6
    <3> HIDE DEF new
    <3> QED
      BY <1>0, <3>2, <3>3, <3>4, <3>5, <3>6, AttemptKeeps DEF Billing, GoesOn, Settles
  <2> QED
    BY <1>5, <2>9, <2>10
<1>6. CASE \E embeds \in {{}} \cup {{Call("embed", next, conn, e)} : e \in BOOLEAN}, chatConn \in ChatConns :
           Searched(embeds, chatConn)
  <2>1. PICK embeds \in {{}} \cup {{Call("embed", next, conn, e)} : e \in BOOLEAN}, chatConn \in ChatConns : Searched(embeds, chatConn)
    BY <1>6
  <2>4. PICK calls \in IF embeds = {} THEN {{}} ELSE Reranks(next, chatConn, TRUE) :
             LET filled == IF embeds = {} THEN row ELSE FillUsage(row, CHOOSE c \in embeds : TRUE)
                 counted == IF calls = {} THEN filled ELSE AddTo(filled, CHOOSE c \in calls : TRUE)
             IN /\ billed' = billed \cup embeds \cup calls
                /\ charges' = {SideCharge(c, TRUE) : c \in calls}
                /\ \/ Settle(200, counted) /\ Answer(200) /\ UNCHANGED <<at, retries>>
                   \/ row' = [counted EXCEPT !.status = 200] /\ pc' = "failed" /\ UNCHANGED <<at, retries, answer>>
    BY <2>1 DEF Searched
  <2> DEFINE filled == IF embeds = {} THEN row ELSE FillUsage(row, CHOOSE c \in embeds : TRUE)
             counted == IF calls = {} THEN filled ELSE AddTo(filled, CHOOSE c \in calls : TRUE)
  <2>2. /\ billed' = billed \cup embeds \cup calls
        /\ charges' = {SideCharge(c, TRUE) : c \in calls}
        /\ \/ Settle(200, counted) /\ Answer(200) /\ UNCHANGED at
           \/ row' = [counted EXCEPT !.status = 200] /\ pc' = "failed" /\ UNCHANGED answer
    BY <2>4
  <2>3. /\ filled = IF embeds = {} THEN row ELSE FillUsage(row, CHOOSE c \in embeds : TRUE)
        /\ counted = IF calls = {} THEN filled ELSE AddTo(filled, CHOOSE c \in calls : TRUE)
    OBVIOUS
  <2> HIDE DEF filled, counted
  <2> QED
    BY ZenonT(60), <1>5, <2>2, <2>3
<1> QED
  BY <1>3, <1>4, <1>6 DEF RetrieveAttempt, Searched

LEMMA FailInvokeKeeps == ASSUME RequestIInv, FailInvoke PROVE RequestIInv'
<1>1. /\ pc = "failed" /\ pc' = "record"
      /\ UNCHANGED <<ep, gone, admitted, attempt, billed, charges, priced, rows>>
  BY DEF FailInvoke, walking
<1>2. /\ answer = Unanswered /\ row \in Rows(billed)
  BY <1>1 DEF RequestIInv, RequestTypeOK, Stage
<1>3. PICK status \in {400, 499, 500, 502} :
        /\ row' = [row EXCEPT !.status = status]
        /\ IF status = 499 THEN gone /\ answer' \in {Unanswered, 500} ELSE answer' = status
  BY <1>1, <1>2 DEF FailInvoke, Answer
<1>4. row' \in Rows(billed') /\ row'.status = status /\ row'.tokens = row.tokens
  BY <1>1, <1>2, <1>3, WithStatus, status \in Nat
<1>5. UNCHANGED <<Counted, ChargedCalls>>
  BY <1>1, <1>4 DEF Counted, ChargedCalls
<1>6. RequestTypeOK'
  BY <1>1, <1>3, <1>4 DEF RequestIInv, RequestTypeOK, Statuses
<1>7. Stage'
  BY <1>1, <1>3, <1>4 DEF RequestIInv, Stage, AnswerTold, Unanswered, Early, Preparing
<1>8. ChargesKnown'
  BY <1>1, <1>5 DEF RequestIInv, ChargesKnown
<1>9. SettledByWalk' /\ Accounting'
  BY <1>1, <1>3, <1>4 DEF SettledByWalk, Accounting, RowCountsEachCallOnce, Settled, ChargesAreOnTheRow
<1> QED
  BY <1>6, <1>7, <1>8, <1>9 DEF RequestIInv

LEMMA RecordKeeps == ASSUME RequestIInv, Record PROVE RequestIInv'
<1>1. /\ pc = "record" /\ pc' = "done" /\ row' = RecordedRow /\ priced' = PricedCalls /\ rows' \in {rows, rows + 1}
      /\ UNCHANGED <<ep, gone, admitted, targets, at, attempt, billed, charges, answer>>
  BY DEF Record, walking
<1>2. /\ row \in Rows(billed) /\ admitted /\ rows = 0 /\ AnswerTold /\ UNCHANGED <<ChargedCalls, conn, OwedCalls>>
  BY <1>1 DEF RequestIInv, RequestTypeOK, Stage, Early, ChargedCalls, conn, OwedCalls
<1>3. Counted \subseteq billed /\ row.tokens = SetToBag(Counted)
  <2>1. row.tokens \in Ones(billed)
    BY <1>2 DEF Rows
  <2> QED
    BY <2>1, OneOfEach DEF Counted
<1> DEFINE joined == {ch.call : ch \in NotInRow}
           all == Counted \cup ChargedCalls
<1>4. joined \cap Counted = {} /\ Counted \cup joined = all /\ ChargedCalls \subseteq billed
  <2>1. CASE ep \in Chatting
    <3>1. NotInRow = charges
      BY <2>1 DEF NotInRow, RequestIInv, ChargesKnown
    <3>2. joined = ChargedCalls
      BY <3>1 DEF ChargedCalls
    <3>3. /\ {c \in billed : c.n = 0 /\ c # QueryEmbedding} = ChargedCalls
          /\ \A c \in Counted : c.n # 0
      BY <1>1, <2>1 DEF RequestIInv, ChargesKnown
    <3> QED
      BY <3>2, <3>3
  <2>2. CASE ep \notin Chatting
    <3>1. NotInRow = {} /\ ChargedCalls \subseteq Counted
      BY <2>2 DEF NotInRow, RequestIInv, ChargesKnown
    <3>2. joined = {}
      BY <3>1
    <3> QED
      BY <1>3, <3>1, <3>2
  <2> QED
    BY <2>1, <2>2
<1> DEFINE b == row.tokens (+) SetToBag(joined)
           guess == row.est \/ \E ch \in NotInRow : ~ch.call.exact
<1>5. RecordedRow = [row EXCEPT !.tokens = b, !.est = guess]
  BY DEF RecordedRow
<1> HIDE DEF joined
<1>6. b = SetToBag(all) /\ b \in Ones(billed) /\ DOMAIN b = all
  <2>1. b = SetToBag(Counted \cup joined)
    BY <1>3, <1>4, AddDisjoint
  <2>2. b = SetToBag(all) /\ all \subseteq billed
    BY <1>3, <1>4, <2>1
  <2> QED
    BY <2>2, OneOfEachOf DEF Ones
<1>7. guess \in BOOLEAN
  OBVIOUS
<1> HIDE DEF b, guess
<1>8. row' \in Rows(billed') /\ row'.tokens = b /\ row'.status = row.status
  BY <1>1, <1>2, <1>5, <1>6, <1>7 DEF Rows
<1>9. Counted' = all /\ row'.tokens = SetToBag(all)
  BY <1>6, <1>8 DEF Counted
<1>10. RequestTypeOK'
  BY <1>1, <1>2, <1>8 DEF RequestIInv, RequestTypeOK
<1>11. Stage'
  BY <1>1, <1>2, <1>8 DEF RequestIInv, Stage, AnswerTold, Early, Preparing
<1>12. ChargesKnown'
  BY <1>1, <1>2, <1>9 DEF RequestIInv, ChargesKnown
<1>13. SettledByWalk'
  BY <1>1 DEF SettledByWalk
<1>14. ChargesAreOnTheRow'
  <2>1. ChargedCalls \subseteq all
    OBVIOUS
  <2> HIDE DEF all
  <2>2. SetToBag(ChargedCalls) \sqsubseteq SetToBag(all)
    BY <2>1 DEF SetToBag, \sqsubseteq
  <2> QED
    BY <1>2, <1>9, <2>2 DEF ChargesAreOnTheRow
<1>15. RowCountsEachCallOnce'
  <2> SUFFICES ASSUME row.status = 200
               PROVE  row'.tokens = SetToBag(OwedCalls) /\ priced' = {<<c, c.conn>> : c \in OwedCalls}
    BY <1>2, <1>8 DEF RowCountsEachCallOnce, Settled
  <2>1. /\ attempt # 0 /\ Counted = {c \in billed : c.n = attempt}
        /\ \A c \in Counted \ ChargedCalls : c.conn = conn
    BY <1>1 DEF RequestIInv, SettledByWalk
  <2>2. all = OwedCalls
    <3>1. CASE ep \in Chatting
      BY <2>1, <3>1 DEF RequestIInv, ChargesKnown, OwedCalls
    <3>2. CASE ep \notin Chatting
      BY <2>1, <3>2 DEF RequestIInv, ChargesKnown, OwedCalls
    <3> QED
      BY <3>1, <3>2
  <2>3. BagToSet(RecordedRow.tokens) = all
    BY <1>1, <1>9 DEF BagToSet, Counted
  <2>4. priced' = {<<c, conn>> : c \in all \ ChargedCalls} \cup {<<c, c.conn>> : c \in ChargedCalls}
    BY <1>1, <2>3 DEF PricedCalls
  <2>5. \A c \in all \ ChargedCalls : c.conn = conn
    BY <2>1
  <2>6. ChargedCalls \subseteq all
    OBVIOUS
  <2> HIDE DEF all
  <2>7. priced' = {<<c, c.conn>> : c \in all}
    BY <2>4, <2>5, <2>6
  <2> QED
    BY <1>9, <2>2, <2>7
<1> QED
  BY <1>10, <1>11, <1>12, <1>13, <1>14, <1>15 DEF RequestIInv, Accounting

LEMMA RequestSteps == ASSUME RequestIInv, [RequestNext]_reqVars PROVE RequestIInv'
BY RequestUnchanged, RequestLeaves, EarlyKeeps, LimitsKeep, PrepareSteps, OpenKeeps, ChatKeeps, EmbeddingsKeep, RerankKeeps,
   RetrieveKeeps, FailInvokeKeeps, RecordKeeps DEF RequestNext

\* In every reachable state the row counts calls that were paid for, each once,
\* and the side calls are charged before the walk or counted after it
\* (addSideCharge, fillUsage, invoke).
THEOREM RequestIInvAlways == RequestSpec => []RequestIInv
<1>1. RequestInit => RequestIInv
  BY RequestStarts
<1>2. RequestIInv /\ [RequestNext]_reqVars => RequestIInv'
  BY RequestSteps
<1> QED
  BY <1>1, <1>2, PTL DEF RequestSpec

\* Any number of retries, targets and connections: a settled row counts each call
\* that served the request once, priced with the connection that did the work,
\* and no charge is missing from a row when it is priced (record, addSideCharge).
THEOREM AlwaysAccounted == RequestSpec => []Accounting
<1>1. RequestIInv => Accounting
  BY RequestInvariants
<1> QED
  BY <1>1, RequestIInvAlways, PTL

\* Nothing is bought before the limits admit a request, and whatever fails or
\* leaves, a request is answered and logged at most once, with the row saying
\* what the client was told (failInvoke, record, checkLimits).
THEOREM AlwaysAnsweredAndLoggedOnce == RequestSpec => []AnsweredAndLoggedOnce
<1>1. RequestIInv => AnsweredAndLoggedOnce
  BY RequestInvariants
<1> QED
  BY <1>1, RequestIInvAlways, PTL
----------------------------------------------------------------------------
(* The streams of Streams.  The encoder folds over the parts of a chunk,   *)
(* and Deliver over the chunks of a step, so what a step does to the       *)
(* client's blocks is a fact about folds.  FoldLeft is a CHOOSE of a       *)
(* function on the sets of places done: FoldingOf unfolds it for each      *)
(* operator that is folded, FoldingExists shows there is such a function,  *)
(* and FoldStays carries a property over all places, each by way of a      *)
(* least counterexample (LeastNat).                                        *)

IsSeq(s) == \E S : s \in Seq(S)

\* Every non-empty set of numbers has a least one.
LEMMA LeastNat ==
    ASSUME NEW T \in SUBSET Nat, T # {}
    PROVE  \E k \in T : \A m \in T : k <= m
<1>1. PICK k \in T : \A m \in T : ~(<<m, k>> \in OpToRel(<, Nat))
  BY NatLessThanWellFounded, WFMin
<1>2. \A m \in T : ~(m < k)
  BY <1>1 DEF OpToRel
<1> QED
  BY <1>2

\* The last of the places that are done.
LEMMA MaxInterval ==
    ASSUME NEW n \in Nat, NEW s \in SUBSET (1..n), s # {}
    PROVE  Max(s) \in s /\ \A i \in s : i <= Max(s)
<1> DEFINE T == {n - i : i \in s}
<1>0. \A i \in s : i \in 1..n /\ n - i \in Nat
  OBVIOUS
<1>1. T \in SUBSET Nat /\ T # {}
  <2>1. \A x \in T : x \in Nat
    <3> TAKE x \in T
    <3>1. PICK i \in s : x = n - i
      OBVIOUS
    <3> QED BY <1>0, <3>1
  <2>2. PICK i \in s : TRUE
    OBVIOUS
  <2>3. n - i \in T
    OBVIOUS
  <2> QED BY <2>1, <2>3
<1>2. PICK k \in T : \A m \in T : k <= m
  <2> HIDE DEF T
  <2> QED BY <1>1, LeastNat
<1>3. PICK x \in s : k = n - x
  BY <1>2
<1>4. \A y \in s : x >= y
  <2> TAKE y \in s
  <2>1. n - y \in T
    OBVIOUS
  <2>2. k <= n - y
    BY <1>2, <2>1
  <2> QED
    BY <1>0, <1>3, <2>2
<1> QED
  BY <1>4 DEF Max

\* One more block, and a block that grows.
LEMMA AppendSeq ==
    ASSUME NEW s, IsSeq(s), NEW x
    PROVE  IsSeq(Append(s, x)) /\ Len(Append(s, x)) = Len(s) + 1 /\ Len(s) \in Nat
<1>1. PICK S : s \in Seq(S)
  BY DEF IsSeq
<1>2. s \in Seq(S \cup {x})
  BY <1>1
<1>3. Append(s, x) \in Seq(S \cup {x}) /\ Len(Append(s, x)) = Len(s) + 1
  BY <1>2, AppendProperties
<1> QED
  BY <1>1, <1>3, LenProperties DEF IsSeq

LEMMA ExceptSeqs ==
    ASSUME NEW s, IsSeq(s), NEW i, NEW x
    PROVE  IsSeq([s EXCEPT ![i] = x]) /\ Len([s EXCEPT ![i] = x]) = Len(s)
<1>1. PICK S : s \in Seq(S)
  BY DEF IsSeq
<1>2. s \in Seq(S \cup {x}) /\ x \in S \cup {x}
  BY <1>1
<1>3. CASE i \in 1..Len(s)
  BY <1>2, <1>3, ExceptSeq DEF IsSeq
<1>4. CASE i \notin 1..Len(s)
  <2>1. DOMAIN s = 1..Len(s) /\ s \in [1..Len(s) -> S]
    BY <1>1, LenProperties
  <2>2. [s EXCEPT ![i] = x] = s
    BY <1>4, <2>1
  <2> QED
    BY <2>2
<1> QED
  BY <1>3, <1>4

\* Along a fold over n places, what holds at the start and is kept by every
\* place holds at the end.
LEMMA FoldStays ==
    ASSUME NEW n \in Nat, NEW h, NEW P, h[{}] \in P,
           \A s \in SUBSET (1..n) : s # {} /\ h[s \ {Max(s)}] \in P => h[s] \in P
    PROVE  h[1..n] \in P
<1> DEFINE T == {k \in Nat : k <= n /\ h[1..k] \notin P}
<1>1. SUFFICES ASSUME n \in T PROVE FALSE
  OBVIOUS
<1>2. T \in SUBSET Nat /\ T # {}
  BY <1>1
<1>3. PICK k \in T : \A m \in T : k <= m
  <2> HIDE DEF T
  <2> QED BY <1>2, LeastNat
<1>4. k # 0
  <2>1. 1..0 = {}
    OBVIOUS
  <2> QED
    BY <1>3, <2>1
<1>5. h[1..(k - 1)] \in P
  BY <1>3, <1>4
<1>6. 1..k \in SUBSET (1..n) /\ 1..k # {} /\ Max(1..k) \in 1..k /\ \A i \in 1..k : i <= Max(1..k)
  <2>1. 1..k \in SUBSET (1..n) /\ 1..k # {}
    BY <1>3, <1>4
  <2> QED
    BY <2>1, MaxInterval
<1>7. Max(1..k) = k
  BY <1>3, <1>4, <1>6
<1>8. (1..k) \ {k} = 1..(k - 1)
  BY <1>3, <1>4
<1> QED
  BY <1>3, <1>5, <1>6, <1>7, <1>8

\* The operators that are folded, by name, so that one proof serves them all.
Fold(op, r, x) ==
    CASE op = "EncThought" -> EncThought(r, x) [] op = "EncCall" -> EncCall(r, x)
      [] op = "EncChunk" -> EncChunk(r, x) [] op = "Collect" -> Collect(r, x)

\* h gives, for every set of places, what the fold over them yields.
Folding(op, h, g, seq) ==
    h = [s \in SUBSET DOMAIN seq |-> IF s = {} THEN g ELSE Fold(op, h[s \ {Max(s)}], seq[Max(s)])]

Unfolded(op, g, seq) == CHOOSE h : Folding(op, h, g, seq)

\* What FoldLeft is for each of them (chunk, thinkingUpdate, toolUpdate, collect).
LEMMA FoldingOf ==
    ASSUME NEW g, NEW seq
    PROVE  /\ FoldLeft(EncThought, g, seq) = Unfolded("EncThought", g, seq)[DOMAIN seq]
           /\ FoldLeft(EncCall, g, seq) = Unfolded("EncCall", g, seq)[DOMAIN seq]
           /\ FoldLeft(EncChunk, g, seq) = Unfolded("EncChunk", g, seq)[DOMAIN seq]
           /\ FoldLeft(Collect, g, seq) = Unfolded("Collect", g, seq)[DOMAIN seq]
<1> DEFINE HT(h) == h = [s \in SUBSET DOMAIN seq |-> IF s = {} THEN g ELSE EncThought(h[s \ {Max(s)}], seq[Max(s)])]
           HC(h) == h = [s \in SUBSET DOMAIN seq |-> IF s = {} THEN g ELSE EncCall(h[s \ {Max(s)}], seq[Max(s)])]
           HK(h) == h = [s \in SUBSET DOMAIN seq |-> IF s = {} THEN g ELSE EncChunk(h[s \ {Max(s)}], seq[Max(s)])]
           HL(h) == h = [s \in SUBSET DOMAIN seq |-> IF s = {} THEN g ELSE Collect(h[s \ {Max(s)}], seq[Max(s)])]
<1>1. /\ FoldLeft(EncThought, g, seq) = (CHOOSE h : HT(h))[DOMAIN seq]
      /\ FoldLeft(EncCall, g, seq) = (CHOOSE h : HC(h))[DOMAIN seq]
      /\ FoldLeft(EncChunk, g, seq) = (CHOOSE h : HK(h))[DOMAIN seq]
      /\ FoldLeft(Collect, g, seq) = (CHOOSE h : HL(h))[DOMAIN seq]
  BY DEF FoldLeft, MapThenFoldSet
<1>2. \A r, x : /\ Fold("EncThought", r, x) = EncThought(r, x)
                /\ Fold("EncCall", r, x) = EncCall(r, x)
                /\ Fold("EncChunk", r, x) = EncChunk(r, x)
                /\ Fold("Collect", r, x) = Collect(r, x)
  BY DEF Fold
<1>3. /\ \A h : HT(h) <=> Folding("EncThought", h, g, seq)
      /\ \A h : HC(h) <=> Folding("EncCall", h, g, seq)
      /\ \A h : HK(h) <=> Folding("EncChunk", h, g, seq)
      /\ \A h : HL(h) <=> Folding("Collect", h, g, seq)
  <2>1. \A h : HT(h) <=> Folding("EncThought", h, g, seq)
    <3>1. ASSUME NEW h PROVE [s \in SUBSET DOMAIN seq |-> IF s = {} THEN g ELSE EncThought(h[s \ {Max(s)}], seq[Max(s)])]
                             = [s \in SUBSET DOMAIN seq |-> IF s = {} THEN g ELSE Fold("EncThought", h[s \ {Max(s)}], seq[Max(s)])]
      BY <1>2
    <3> QED
      BY <3>1 DEF Folding
  <2>2. \A h : HC(h) <=> Folding("EncCall", h, g, seq)
    <3>1. ASSUME NEW h PROVE [s \in SUBSET DOMAIN seq |-> IF s = {} THEN g ELSE EncCall(h[s \ {Max(s)}], seq[Max(s)])]
                             = [s \in SUBSET DOMAIN seq |-> IF s = {} THEN g ELSE Fold("EncCall", h[s \ {Max(s)}], seq[Max(s)])]
      BY <1>2
    <3> QED
      BY <3>1 DEF Folding
  <2>3. \A h : HK(h) <=> Folding("EncChunk", h, g, seq)
    <3>1. ASSUME NEW h PROVE [s \in SUBSET DOMAIN seq |-> IF s = {} THEN g ELSE EncChunk(h[s \ {Max(s)}], seq[Max(s)])]
                             = [s \in SUBSET DOMAIN seq |-> IF s = {} THEN g ELSE Fold("EncChunk", h[s \ {Max(s)}], seq[Max(s)])]
      BY <1>2
    <3> QED
      BY <3>1 DEF Folding
  <2>4. \A h : HL(h) <=> Folding("Collect", h, g, seq)
    <3>1. ASSUME NEW h PROVE [s \in SUBSET DOMAIN seq |-> IF s = {} THEN g ELSE Collect(h[s \ {Max(s)}], seq[Max(s)])]
                             = [s \in SUBSET DOMAIN seq |-> IF s = {} THEN g ELSE Fold("Collect", h[s \ {Max(s)}], seq[Max(s)])]
      BY <1>2
    <3> QED
      BY <3>1 DEF Folding
  <2> QED
    BY <2>1, <2>2, <2>3, <2>4
<1>4. /\ (CHOOSE h : HT(h)) = (CHOOSE h : Folding("EncThought", h, g, seq))
      /\ (CHOOSE h : HC(h)) = (CHOOSE h : Folding("EncCall", h, g, seq))
      /\ (CHOOSE h : HK(h)) = (CHOOSE h : Folding("EncChunk", h, g, seq))
      /\ (CHOOSE h : HL(h)) = (CHOOSE h : Folding("Collect", h, g, seq))
  <2> HIDE DEF HT, HC, HK, HL
  <2> QED
    BY <1>3
<1> QED
  BY <1>1, <1>4 DEF Unfolded

\* A fold over a sequence yields something: there is such an h, by adding place
\* after place.
LEMMA FoldingExists ==
    ASSUME NEW op, NEW g, NEW seq, NEW n \in Nat, DOMAIN seq = 1..n
    PROVE  \E h : Folding(op, h, g, seq)
<1> DEFINE Upto(h, k) == h = [s \in SUBSET (1..k) |-> IF s = {} THEN g ELSE Fold(op, h[s \ {Max(s)}], seq[Max(s)])]
           T == {k \in Nat : ~\E h : Upto(h, k)}
<1>1. SUFFICES ASSUME n \in T PROVE FALSE
  BY DEF Folding
<1>2. PICK k \in T : \A m \in T : k <= m
  <2>1. T \in SUBSET Nat /\ T # {}
    BY <1>1
  <2> HIDE DEF T
  <2> QED
    BY <2>1, LeastNat
<1>3. \E h : Upto(h, k)
  <2>1. CASE k = 0
    <3> DEFINE h == [s \in SUBSET (1..k) |-> g]
    <3>1. \A s \in SUBSET (1..k) : s = {}
      BY <2>1
    <3>2. Upto(h, k)
      BY <3>1
    <3> QED
      BY <3>2
  <2>2. CASE k # 0
    <3>0. k - 1 \in Nat /\ ~(k <= k - 1)
      BY <1>2, <2>2
    <3>1. k - 1 \in Nat /\ k - 1 \notin T
      <4> HIDE DEF T
      <4> QED
        BY <1>2, <3>0
    <3>2. PICK p : Upto(p, k - 1)
      BY <3>1
    <3> DEFINE h == [s \in SUBSET (1..k) |-> IF s = {} THEN g ELSE Fold(op, p[s \ {Max(s)}], seq[Max(s)])]
    <3>3. ASSUME NEW s \in SUBSET (1..k), s # {} PROVE s \ {Max(s)} \in SUBSET (1..(k - 1))
      <4>1. Max(s) \in s /\ \A i \in s : i <= Max(s)
        BY <1>2, <3>3, MaxInterval
      <4>2. k \in Nat
        BY <1>2
      <4>3. \A i \in s \ {Max(s)} : i \in 1..(k - 1)
        <5> DEFINE m == Max(s)
        <5>1. m \in s /\ \A i \in s : i <= m
          BY <4>1
        <5> HIDE DEF m
        <5>2. \A i \in s \ {m} : i \in 1..(k - 1)
          <6> TAKE i \in s \ {m}
          <6>1. i \in 1..k /\ m \in 1..k /\ i <= m /\ i # m
            BY <5>1
          <6> QED
            BY <4>2, <6>1
        <5> QED
          BY <5>2 DEF m
      <4> QED
        BY <4>3
    <3>4. \A s \in SUBSET (1..(k - 1)) : h[s] = p[s]
      <4>1. \A s \in SUBSET (1..(k - 1)) : s \in SUBSET (1..k)
        BY <1>2
      <4>2. \A s \in SUBSET (1..(k - 1)) : p[s] = IF s = {} THEN g ELSE Fold(op, p[s \ {Max(s)}], seq[Max(s)])
        BY <3>2
      <4> QED
        BY <4>1, <4>2
    <3>5. \A s \in SUBSET (1..k) : s # {} => p[s \ {Max(s)}] = h[s \ {Max(s)}]
      <4> HIDE DEF h
      <4> QED
        BY <3>3, <3>4
    <3>6. h = [s \in SUBSET (1..k) |-> IF s = {} THEN g ELSE Fold(op, h[s \ {Max(s)}], seq[Max(s)])]
      BY <3>5
    <3> HIDE DEF h
    <3> QED
      BY <3>6
  <2> QED
    BY <2>1, <2>2
<1> QED
  BY <1>2, <1>3

UnfoldsTo(op, h, g, seq, n) ==
    /\ h[{}] = g
    /\ \A s \in SUBSET (1..n) : s # {} => Max(s) \in 1..n /\ h[s] = Fold(op, h[s \ {Max(s)}], seq[Max(s)])

\* Hence the fold of an empty set of places is the start, and each further
\* place is one application of the operator.
LEMMA FoldSteps ==
    ASSUME NEW op, NEW g, NEW seq, NEW n \in Nat, DOMAIN seq = 1..n
    PROVE  UnfoldsTo(op, Unfolded(op, g, seq), g, seq, n)
<1> DEFINE h == Unfolded(op, g, seq)
<1>1. Folding(op, h, g, seq)
  BY FoldingExists DEF Unfolded
<1>2. \A s \in SUBSET (1..n) : h[s] = IF s = {} THEN g ELSE Fold(op, h[s \ {Max(s)}], seq[Max(s)])
  <2> HIDE DEF h
  <2> QED
    BY <1>1 DEF Folding
<1>3. \A s \in SUBSET (1..n) : s # {} => Max(s) \in 1..n
  BY MaxInterval
<1>4. h[{}] = g
  <2> HIDE DEF h
  <2> QED BY <1>2
<1> HIDE DEF h
<1>5. \A s \in SUBSET (1..n) : s # {} => Max(s) \in 1..n /\ h[s] = Fold(op, h[s \ {Max(s)}], seq[Max(s)])
  BY <1>2, <1>3
<1> QED
  BY <1>4, <1>5 DEF h, UnfoldsTo

EncFields == {"started", "next", "open", "kind", "thinking", "tools", "sawTool", "stop"}

\* The client has followed the stream without an objection: block open is open
\* (None: no block), and n blocks have been started.
Hears(g, open, begun, closed, n) ==
    /\ DOMAIN g = {"a", "blocks", "open", "begun", "closed", "bad"}
    /\ g.open = open /\ g.begun = begun /\ g.closed = closed /\ g.bad = FALSE
    /\ IsSeq(g.blocks) /\ Len(g.blocks) = n

\* The encoder and its client agree on what is open and what comes next.
InStep(r) ==
    /\ DOMAIN r = {"e", "g"} /\ DOMAIN r.e = EncFields
    /\ r.e.started \in BOOLEAN /\ r.e.next \in Nat /\ r.e.open \in Nat \cup {None}
    /\ r.e.open # None => r.e.started = TRUE
    /\ Hears(r.g, r.e.open, r.e.started, FALSE, r.e.next)

Begun(r) == InStep(r) /\ r.e.started = TRUE

LEMMA HearBegin ==
    ASSUME NEW g, NEW open, NEW closed, NEW n, Hears(g, open, FALSE, closed, n)
    PROVE  Hears(HearEvent(g, Event("begin", None, "", <<>>)), open, TRUE, closed, n)
<1>1. HearEvent(g, Event("begin", None, "", <<>>)) = [g EXCEPT !.begun = TRUE, !.bad = g.bad \/ g.begun]
  BY DEF HearEvent, Event
<1>2. (g.bad \/ g.begun) = FALSE
  BY DEF Hears
<1> QED
  BY <1>1, <1>2 DEF Hears

LEMMA HearStart ==
    ASSUME NEW g, NEW n, NEW kind, NEW body, Hears(g, None, TRUE, FALSE, n)
    PROVE  Hears(HearEvent(g, Event("start", n, kind, body)), n, TRUE, FALSE, n + 1)
<1> DEFINE b == [kind |-> kind, body |-> body]
           l == Append(g.blocks, b)
<1>1. HearEvent(g, Event("start", n, kind, body))
      = [g EXCEPT !.open = n, !.bad = g.bad \/ ~g.begun \/ g.open # None \/ n # Len(g.blocks) \/ g.closed, !.blocks = l]
  BY DEF HearEvent, Event
<1>2. IsSeq(l) /\ Len(l) = n + 1
  <2> HIDE DEF b
  <2> QED
    BY AppendSeq DEF Hears
<1>3. (g.bad \/ ~g.begun \/ g.open # None \/ n # Len(g.blocks) \/ g.closed) = FALSE
  BY DEF Hears
<1> HIDE DEF l
<1> QED
  BY <1>1, <1>2, <1>3 DEF Hears

LEMMA HearDelta ==
    ASSUME NEW g, NEW block, NEW body, NEW begun, NEW closed, NEW n, Hears(g, block, begun, closed, n)
    PROVE  Hears(HearEvent(g, Event("delta", block, "", body)), block, begun, closed, n)
<1> DEFINE x == [g.blocks[block + 1] EXCEPT !.body = g.blocks[block + 1].body \o body]
           l == [g.blocks EXCEPT ![block + 1] = x]
<1>1. HearEvent(g, Event("delta", block, "", body)) = [g EXCEPT !.blocks = l]
  BY DEF HearEvent, Event, Hears
<1>2. IsSeq(l) /\ Len(l) = Len(g.blocks)
  <2> HIDE DEF x
  <2> QED
    BY ExceptSeqs DEF Hears
<1> HIDE DEF l
<1> QED
  BY <1>1, <1>2 DEF Hears

LEMMA HearStop ==
    ASSUME NEW g, NEW block, NEW begun, NEW closed, NEW n, Hears(g, block, begun, closed, n)
    PROVE  Hears(HearEvent(g, Event("stop", block, "", <<>>)), None, begun, closed, n)
<1>1. HearEvent(g, Event("stop", block, "", <<>>)) = [g EXCEPT !.open = None, !.bad = g.bad \/ g.open # block]
  BY DEF HearEvent, Event
<1>2. (g.bad \/ g.open # block) = FALSE
  BY DEF Hears
<1> QED
  BY <1>1, <1>2 DEF Hears

LEMMA HearEnd ==
    ASSUME NEW g, NEW n, NEW why, Hears(g, None, TRUE, FALSE, n)
    PROVE  Hears(HearEvent(g, EndEvent(why)), None, TRUE, TRUE, n)
<1> DEFINE a == [g.a EXCEPT !.finish = why]
<1>1. HearEvent(g, EndEvent(why))
      = [g EXCEPT !.closed = TRUE, !.bad = g.bad \/ ~g.begun \/ g.open # None \/ g.closed, !.a = a]
  BY DEF HearEvent, EndEvent
<1>2. (g.bad \/ ~g.begun \/ g.open # None \/ g.closed) = FALSE
  BY DEF Hears
<1> HIDE DEF a
<1> QED
  BY <1>1, <1>2 DEF Hears
----------------------------------------------------------------------------
\* The writes of MessagesEncoder keep the two in step.
LEMMA BeginInStep ==
    ASSUME NEW r, InStep(r)
    PROVE  Begun(EncBegin(r))
<1>1. CASE r.e.started = TRUE
  BY <1>1 DEF EncBegin, Begun
<1>2. CASE r.e.started = FALSE
  <2> DEFINE e == [r.e EXCEPT !.started = TRUE]
             h == HearEvent(r.g, Event("begin", None, "", <<>>))
  <2>1. EncBegin(r) = [e |-> e, g |-> h]
    BY <1>2 DEF EncBegin, Written
  <2>2. DOMAIN e = EncFields /\ e.started = TRUE /\ e.next = r.e.next /\ e.open = r.e.open
    BY DEF InStep, EncFields
  <2>3. Hears(h, r.e.open, TRUE, FALSE, r.e.next)
    BY <1>2, HearBegin DEF InStep
  <2> HIDE DEF e, h
  <2>4. Begun([e |-> e, g |-> h])
    BY <2>2, <2>3 DEF InStep, Begun
  <2> QED
    BY <2>1, <2>4
<1> QED
  BY <1>1, <1>2 DEF InStep

LEMMA CloseInStep ==
    ASSUME NEW r, InStep(r)
    PROVE  /\ InStep(EncClose(r)) /\ EncClose(r).e.open = None /\ EncClose(r).e.started = r.e.started
           /\ EncClose(r).e.next = r.e.next
<1>1. CASE r.e.open = None
  BY <1>1 DEF EncClose
<1>2. CASE r.e.open # None
  <2> DEFINE e == [r.e EXCEPT !.open = None, !.kind = ""]
             h == HearEvent(r.g, Event("stop", r.e.open, "", <<>>))
  <2>1. EncClose(r) = [e |-> e, g |-> h]
    BY <1>2 DEF EncClose, Written
  <2>2. DOMAIN e = EncFields /\ e.started = r.e.started /\ e.next = r.e.next /\ e.open = None
    BY DEF InStep, EncFields
  <2>3. Hears(h, None, r.e.started, FALSE, r.e.next)
    BY HearStop DEF InStep
  <2> HIDE DEF e, h
  <2>4. InStep([e |-> e, g |-> h])
    BY <2>2, <2>3 DEF InStep
  <2> QED
    BY <2>1, <2>2, <2>4
<1> QED
  BY <1>1, <1>2

LEMMA OpenInStep ==
    ASSUME NEW r, NEW kind, Begun(r)
    PROVE  Begun(EncOpen(r, kind)) /\ EncOpen(r, kind).e.open \in Nat
<1> DEFINE c == EncClose(r)
           e == [c.e EXCEPT !.open = c.e.next, !.next = c.e.next + 1, !.kind = kind]
           h == HearEvent(c.g, Event("start", c.e.next, kind, <<>>))
<1>1. EncOpen(r, kind) = [e |-> e, g |-> h]
  BY DEF EncOpen, Written
<1>2. InStep(c) /\ c.e.open = None /\ c.e.started = TRUE
  BY CloseInStep DEF Begun
<1> HIDE DEF c
<1>3. DOMAIN e = EncFields /\ e.started = TRUE /\ e.next = c.e.next + 1 /\ e.open = c.e.next
  BY <1>2 DEF InStep, EncFields
<1>4. c.e.next \in Nat /\ Hears(c.g, None, TRUE, FALSE, c.e.next)
  BY <1>2 DEF InStep
<1>5. Hears(h, c.e.next, TRUE, FALSE, c.e.next + 1)
  BY <1>4, HearStart
<1> HIDE DEF e, h
<1>6. e.next \in Nat /\ e.open \in Nat
  BY <1>3, <1>4
<1>7. Begun([e |-> e, g |-> h])
  BY <1>3, <1>5, <1>6 DEF InStep, Begun
<1> QED
  BY <1>1, <1>6, <1>7

LEMMA DeltaInStep ==
    ASSUME NEW r, NEW body, Begun(r)
    PROVE  Begun(EncDelta(r, r.e.open, body))
<1> DEFINE h == HearEvent(r.g, Event("delta", r.e.open, "", body))
<1>1. EncDelta(r, r.e.open, body) = [e |-> r.e, g |-> h]
  BY DEF EncDelta, Written
<1>2. Hears(h, r.e.open, r.e.started, FALSE, r.e.next)
  BY HearDelta DEF InStep, Begun
<1> HIDE DEF h
<1>3. Begun([e |-> r.e, g |-> h])
  BY <1>2 DEF InStep, Begun
<1> QED
  BY <1>1, <1>3

LEMMA ThoughtInStep ==
    ASSUME NEW r, NEW t, Begun(r)
    PROVE  Begun(EncThought(r, t))
<1> DEFINE n == EncOpen(r, "thinking")
           m == [n EXCEPT !.e.thinking = n.e.open]
           o == IF r.e.thinking # None THEN r ELSE m
<1>1. Begun(n)
  BY OpenInStep
<1>2. Begun(m)
  <2> HIDE DEF n
  <2> QED
    BY <1>1 DEF Begun, InStep, EncFields
<1>3. Begun(o)
  BY <1>2
<1>4. EncThought(r, t) = IF t # <<>> /\ o.e.thinking = o.e.open THEN EncDelta(o, o.e.open, t) ELSE o
  BY DEF EncThought
<1> HIDE DEF o
<1> QED
  BY <1>3, <1>4, DeltaInStep

LEMMA TextInStep ==
    ASSUME NEW r, NEW text, Begun(r)
    PROVE  Begun(EncText(r, text))
<1> DEFINE o == IF r.e.kind = "text" THEN r ELSE EncOpen(r, "text")
<1>1. Begun(o)
  BY OpenInStep
<1>2. EncText(r, text) = IF text = <<>> THEN r ELSE EncDelta(o, o.e.open, text)
  BY DEF EncText
<1> HIDE DEF o
<1> QED
  BY <1>1, <1>2, DeltaInStep

LEMMA CallInStep ==
    ASSUME NEW r, NEW d, Begun(r)
    PROVE  Begun(EncCall(r, d))
<1> DEFINE n == EncOpen(r, "tool_use")
           m == [n EXCEPT !.e.tools = Append(@, n.e.open), !.e.sawTool = TRUE]
           o == IF d.index < Len(r.e.tools) THEN r ELSE m
<1>1. Begun(n)
  BY OpenInStep
<1>2. Begun(m)
  <2> HIDE DEF n
  <2> QED
    BY <1>1 DEF Begun, InStep, EncFields
<1>3. Begun(o)
  BY <1>2
<1>4. EncCall(r, d) = IF d.args > 0 /\ o.e.tools[d.index + 1] = o.e.open THEN EncDelta(o, o.e.open, <<"args">>) ELSE o
  BY DEF EncCall
<1> HIDE DEF o
<1> QED
  BY <1>3, <1>4, DeltaInStep

\* A chunk with any number of thinking updates and tool calls.
LEMMA ThoughtsInStep ==
    ASSUME NEW r, NEW seq, Begun(r), IsSeq(seq)
    PROVE  Begun(FoldLeft(EncThought, r, seq))
<1> DEFINE n == Len(seq)
<1>1. n \in Nat /\ DOMAIN seq = 1..n
  BY LenProperties DEF IsSeq
<1> HIDE DEF n
<1> DEFINE h == Unfolded("EncThought", r, seq)
<1>2. /\ h[{}] = r
      /\ \A s \in SUBSET (1..n) : s # {} =>
            Max(s) \in 1..n /\ h[s] = Fold("EncThought", h[s \ {Max(s)}], seq[Max(s)])
  <2>1. UnfoldsTo("EncThought", h, r, seq, n)
    BY <1>1, FoldSteps
  <2> QED
    BY <2>1 DEF UnfoldsTo
<1> HIDE DEF h
<1> DEFINE P == {h[s] : s \in {t \in SUBSET (1..n) : Begun(h[t])}}
<1>3. ASSUME NEW s \in SUBSET (1..n), s # {}, h[s \ {Max(s)}] \in P PROVE h[s] \in P
  <2>1. Begun(h[s \ {Max(s)}])
    BY <1>3
  <2>2. h[s] = EncThought(h[s \ {Max(s)}], seq[Max(s)])
    BY <1>2, <1>3 DEF Fold
  <2>3. Begun(h[s])
    BY <2>1, <2>2, ThoughtInStep
  <2> QED
    BY <2>3
<1>4. h[{}] \in P
  BY <1>2
<1>5. h[1..n] \in P
  <2> HIDE DEF P
  <2> QED
    BY <1>1, <1>3, <1>4, FoldStays
<1>6. FoldLeft(EncThought, r, seq) = h[1..n]
  BY <1>1, FoldingOf DEF h
<1> QED
  BY <1>5, <1>6

LEMMA CallsInStep ==
    ASSUME NEW r, NEW seq, Begun(r), IsSeq(seq)
    PROVE  Begun(FoldLeft(EncCall, r, seq))
<1> DEFINE n == Len(seq)
<1>1. n \in Nat /\ DOMAIN seq = 1..n
  BY LenProperties DEF IsSeq
<1> HIDE DEF n
<1> DEFINE h == Unfolded("EncCall", r, seq)
<1>2. /\ h[{}] = r
      /\ \A s \in SUBSET (1..n) : s # {} =>
             Max(s) \in 1..n /\ h[s] = Fold("EncCall", h[s \ {Max(s)}], seq[Max(s)])
  <2>1. UnfoldsTo("EncCall", h, r, seq, n)
    BY <1>1, FoldSteps
  <2> QED
    BY <2>1 DEF UnfoldsTo
<1> HIDE DEF h
<1> DEFINE P == {h[s] : s \in {t \in SUBSET (1..n) : Begun(h[t])}}
<1>3. ASSUME NEW s \in SUBSET (1..n), s # {}, h[s \ {Max(s)}] \in P PROVE h[s] \in P
  <2>1. Begun(h[s \ {Max(s)}])
    BY <1>3
  <2>2. h[s] = EncCall(h[s \ {Max(s)}], seq[Max(s)])
    BY <1>2, <1>3 DEF Fold
  <2>3. Begun(h[s])
    BY <2>1, <2>2, CallInStep
  <2> QED
    BY <2>3
<1>4. h[{}] \in P
  BY <1>2
<1>5. h[1..n] \in P
  <2> HIDE DEF P
  <2> QED
    BY <1>1, <1>3, <1>4, FoldStays
<1>6. FoldLeft(EncCall, r, seq) = h[1..n]
  BY <1>1, FoldingOf DEF h
<1> QED
  BY <1>5, <1>6

\* What an adapter sends: chunks whose thinking updates and calls are sequences.
Proper(c) == DOMAIN c = {"text", "thoughts", "calls", "finish", "bare"} /\ IsSeq(c.thoughts) /\ IsSeq(c.calls)

Good(chunks) == IsSeq(chunks) /\ \A i \in DOMAIN chunks : Proper(chunks[i])

LEMMA FinishReasonInStep ==
    ASSUME NEW r, NEW finish, Begun(r)
    PROVE  Begun(EncFinishReason(r, finish))
<1> DEFINE c == EncClose(r)
           m == [c EXCEPT !.e.stop = MessagesStopReason(finish)]
<1>1. Begun(c)
  BY CloseInStep DEF Begun
<1>2. Begun(m)
  <2> HIDE DEF c
  <2> QED
    BY <1>1 DEF Begun, InStep, EncFields
<1>3. EncFinishReason(r, finish) = IF finish = "" THEN r ELSE m
  BY DEF EncFinishReason
<1> HIDE DEF m
<1> QED
  BY <1>2, <1>3

LEMMA ChunkInStep ==
    ASSUME NEW r, NEW c, InStep(r), Proper(c)
    PROVE  InStep(EncChunk(r, c))
<1> DEFINE b == EncBegin(r)
           t == FoldLeft(EncThought, b, c.thoughts)
           x == EncText(t, c.text)
           k == FoldLeft(EncCall, x, c.calls)
<1>1. EncChunk(r, c) = IF c.bare THEN r ELSE EncFinishReason(k, c.finish)
  BY DEF EncChunk
<1>2. Begun(b)
  BY BeginInStep
<1>3. Begun(t)
  <2> HIDE DEF b
  <2> QED
    BY <1>2, ThoughtsInStep DEF Proper
<1>4. Begun(x)
  <2> HIDE DEF t
  <2> QED
    BY <1>3, TextInStep
<1>5. Begun(k)
  <2> HIDE DEF x
  <2> QED
    BY <1>4, CallsInStep DEF Proper
<1> HIDE DEF k
<1>6. Begun(EncFinishReason(k, c.finish))
  BY <1>5, FinishReasonInStep
<1> QED
  BY <1>1, <1>6 DEF Begun

LEMMA ChunksInStep ==
    ASSUME NEW r, NEW seq, InStep(r), Good(seq)
    PROVE  InStep(FoldLeft(EncChunk, r, seq))
<1> DEFINE n == Len(seq)
<1>1. n \in Nat /\ DOMAIN seq = 1..n
  BY LenProperties DEF Good, IsSeq
<1> HIDE DEF n
<1> DEFINE h == Unfolded("EncChunk", r, seq)
<1>2. /\ h[{}] = r
      /\ \A s \in SUBSET (1..n) : s # {} =>
             Max(s) \in 1..n /\ h[s] = Fold("EncChunk", h[s \ {Max(s)}], seq[Max(s)])
  <2>1. UnfoldsTo("EncChunk", h, r, seq, n)
    BY <1>1, FoldSteps
  <2> QED
    BY <2>1 DEF UnfoldsTo
<1> HIDE DEF h
<1> DEFINE P == {h[s] : s \in {t \in SUBSET (1..n) : InStep(h[t])}}
<1>3. ASSUME NEW s \in SUBSET (1..n), s # {}, h[s \ {Max(s)}] \in P PROVE h[s] \in P
  <2>1. InStep(h[s \ {Max(s)}])
    BY <1>3
  <2>2. h[s] = EncChunk(h[s \ {Max(s)}], seq[Max(s)]) /\ Max(s) \in DOMAIN seq
    BY <1>1, <1>2, <1>3 DEF Fold
  <2>3. InStep(h[s])
    BY <2>1, <2>2, ChunkInStep DEF Good
  <2> QED
    BY <2>3
<1>4. h[{}] \in P
  BY <1>2
<1>5. h[1..n] \in P
  <2> HIDE DEF P
  <2> QED
    BY <1>1, <1>3, <1>4, FoldStays
<1>6. FoldLeft(EncChunk, r, seq) = h[1..n]
  BY <1>1, FoldingOf DEF h
<1> QED
  BY <1>5, <1>6

\* Finish ends a stream with every block closed.
LEMMA FinishEnds ==
    ASSUME NEW r, InStep(r)
    PROVE  \E n : Hears(EncFinish(r).g, None, TRUE, TRUE, n)
<1> DEFINE c == EncClose(EncBegin(r))
           why == IF c.e.stop # "" THEN c.e.stop ELSE IF c.e.sawTool THEN "tool_use" ELSE "end_turn"
<1>1. EncFinish(r) = [e |-> c.e, g |-> HearEvent(c.g, EndEvent(why))]
  BY DEF EncFinish, Written
<1>2. InStep(c) /\ c.e.open = None /\ c.e.started = TRUE
  <2>1. Begun(EncBegin(r))
    BY BeginInStep
  <2> QED
    BY <2>1, CloseInStep DEF Begun
<1>3. Hears(c.g, None, TRUE, FALSE, c.e.next)
  BY <1>2 DEF InStep
<1> HIDE DEF why, c
<1>5. EncFinish(r).g = HearEvent(c.g, EndEvent(why))
  BY <1>1
<1>4. Hears(HearEvent(c.g, EndEvent(why)), None, TRUE, TRUE, c.e.next)
  BY <1>3, HearEnd
<1> QED
  BY <1>4, <1>5
----------------------------------------------------------------------------
LEMMA SmallSeqs ==
    /\ IsSeq(<<>>)
    /\ \A x : IsSeq(<<x>>) /\ DOMAIN <<x>> = 1..1
<1>1. <<>> \in Seq({})
  OBVIOUS
<1>2. ASSUME NEW x PROVE <<x>> \in Seq({x}) /\ DOMAIN <<x>> = 1..1
  OBVIOUS
<1> QED
  BY <1>1, <1>2 DEF IsSeq

LEMMA FunctionIsSeq ==
    ASSUME NEW f, NEW n \in Nat, f = [i \in 1..n |-> f[i]]
    PROVE  IsSeq(f) /\ Len(f) = n
<1> DEFINE S == {f[i] : i \in 1..n}
<1>1. f \in [1..n -> S]
  OBVIOUS
<1>2. f \in Seq(S)
  BY <1>1
<1>3. Len(f) = n
  BY <1>1, <1>2, LenProperties
<1> QED
  BY <1>2, <1>3 DEF IsSeq

LEMMA NoChunk == Good(<<>>)
<1>1. IsSeq(<<>>) /\ DOMAIN <<>> = {}
  BY SmallSeqs
<1> QED
  BY <1>1 DEF Good

LEMMA OneChunk ==
    ASSUME NEW c, Proper(c)
    PROVE  Good(<<c>>)
<1>1. IsSeq(<<c>>)
  BY SmallSeqs
<1>2. \A i \in DOMAIN <<c>> : <<c>>[i] = c
  OBVIOUS
<1> QED
  BY <1>1, <1>2 DEF Good

LEMMA MoreChunks ==
    ASSUME NEW s, NEW t, Good(s), Good(t)
    PROVE  Good(s \o t)
<1>1. PICK S : s \in Seq(S)
  BY DEF Good, IsSeq
<1>2. PICK T : t \in Seq(T)
  BY DEF Good, IsSeq
<1>3. s \in Seq(S \cup T) /\ t \in Seq(S \cup T)
  BY <1>1, <1>2
<1>4. s \o t \in Seq(S \cup T) /\ Len(s \o t) = Len(s) + Len(t)
  BY <1>3
<1>5. /\ Len(s) \in Nat /\ Len(t) \in Nat /\ DOMAIN s = 1..Len(s) /\ DOMAIN t = 1..Len(t)
      /\ DOMAIN (s \o t) = 1..(Len(s) + Len(t))
  BY <1>3, <1>4, LenProperties
<1>6. ASSUME NEW i \in 1..(Len(s) + Len(t)) PROVE Proper((s \o t)[i])
  <2>1. CASE i <= Len(s)
    <3>1. (s \o t)[i] = s[i] /\ i \in DOMAIN s
      BY <1>3, <1>5, <2>1
    <3> QED
      BY <3>1 DEF Good
  <2>2. CASE i > Len(s)
    <3>1. (s \o t)[i] = t[i - Len(s)] /\ i - Len(s) \in DOMAIN t
      BY <1>3, <1>5, <2>2
    <3> QED
      BY <3>1 DEF Good
  <2> QED
    BY <1>5, <2>1, <2>2
<1> QED
  BY <1>4, <1>5, <1>6 DEF Good, IsSeq

LEMMA FewerChunks ==
    ASSUME NEW s, Good(s), Len(s) > 0
    PROVE  Good(Tail(s)) /\ Proper(s[1])
<1>1. PICK S : s \in Seq(S)
  BY DEF Good, IsSeq
<1>2. Len(s) \in Nat /\ DOMAIN s = 1..Len(s)
  BY <1>1, LenProperties
<1>3. s # <<>>
  BY <1>1, <1>2
<1>4. Tail(s) \in Seq(S) /\ Len(Tail(s)) = Len(s) - 1
  BY <1>1, <1>3
<1>5. DOMAIN Tail(s) = 1..(Len(s) - 1)
  BY <1>4, LenProperties
<1>6. \A i \in 1..(Len(s) - 1) : Tail(s)[i] = s[i + 1] /\ i + 1 \in DOMAIN s
  BY <1>1, <1>2, <1>3
<1>7. 1 \in DOMAIN s
  BY <1>2
<1> QED
  BY <1>4, <1>5, <1>6, <1>7 DEF Good, IsSeq

LEMMA OtherFinish ==
    ASSUME NEW s, NEW i, NEW why, Good(s)
    PROVE  Good([s EXCEPT ![i].finish = why])
<1> DEFINE c == [s[i] EXCEPT !.finish = why]
           t == [s EXCEPT ![i] = c]
<1>1. i \in DOMAIN s => Proper(c)
  BY DEF Good, Proper
<1> HIDE DEF c
<1>2. IsSeq(t)
  BY ExceptSeqs DEF Good
<1>3. DOMAIN t = DOMAIN s /\ \A j \in DOMAIN s : t[j] = IF j = i THEN c ELSE s[j]
  OBVIOUS
<1>4. Good(t)
  <2> HIDE DEF t
  <2> QED
    BY <1>1, <1>2, <1>3 DEF Good
<1> QED
  BY <1>4 DEF c

LEMMA PlainChunks ==
    /\ Proper(Chunk)
    /\ \A text : Proper([Chunk EXCEPT !.text = text])
    /\ \A t : Proper([Chunk EXCEPT !.thoughts = <<t>>])
    /\ \A d : Proper([Chunk EXCEPT !.calls = <<d>>])
    /\ \A why : Proper([Chunk EXCEPT !.finish = why])
    /\ Proper([Chunk EXCEPT !.bare = TRUE])
  BY SmallSeqs DEF Proper, Chunk

LEMMA WholeChunks ==
    ASSUME NEW calls, IsSeq(calls)
    PROVE  Good(WholeCalls(calls)) /\ Len(WholeCalls(calls)) = Len(calls)
<1> DEFINE w == WholeCalls(calls)
           n == Len(calls)
           c(i) == [Chunk EXCEPT !.calls = <<[index |-> Len(ad.blocks) + i - 1, args |-> calls[i].args, sig |-> calls[i].sig]>>]
<1>1. n \in Nat /\ DOMAIN calls = 1..n
  BY LenProperties DEF IsSeq
<1>2. w = [i \in 1..n |-> c(i)]
  BY <1>1 DEF WholeCalls
<1>3. \A i \in 1..n : Proper(c(i))
  BY PlainChunks
<1> HIDE DEF c, w
<1>4. w = [i \in 1..n |-> w[i]] /\ DOMAIN w = 1..n /\ \A i \in 1..n : w[i] = c(i)
  BY <1>2
<1>5. IsSeq(w) /\ Len(w) = n
  BY <1>1, <1>4, FunctionIsSeq
<1>6. Good(w) /\ Len(w) = n
  BY <1>3, <1>4, <1>5 DEF Good
<1> QED
  BY <1>6 DEF w
----------------------------------------------------------------------------
\* geminiSignatures keeps the calls of a frame in a sequence.
Collecting(s) == DOMAIN s = {"calls", "first", "pending", "seenCall"} /\ IsSeq(s.calls)

LEMMA CollectKeepsSeq ==
    ASSUME NEW s, NEW p, Collecting(s)
    PROVE  Collecting(Collect(s, p))
<1> DEFINE own == p = "signed"
           first == ~s.seenCall
           call == NewCall(1, own \/ (first /\ s.pending))
           more == Append(s.calls, call)
           place == IF first THEN Len(s.calls) + 1 ELSE s.first
           a == [s EXCEPT !.calls = more, !.seenCall = TRUE, !.pending = s.pending /\ ~first, !.first = place]
           x == [s.calls[s.first] EXCEPT !.sig = TRUE]
           l == [s.calls EXCEPT ![s.first] = x]
           b == [s EXCEPT !.calls = l]
           c == [s EXCEPT !.pending = TRUE]
<1>1. Collect(s, p) \in {a, b, c, s}
  BY DEF Collect
<1>2. IsSeq(more)
  <2> HIDE DEF call
  <2> QED
    BY AppendSeq DEF Collecting
<1>3. IsSeq(l)
  <2> HIDE DEF x
  <2> QED
    BY ExceptSeqs DEF Collecting
<1> HIDE DEF more, l, place, first
<1>4. Collecting(a)
  BY <1>2 DEF Collecting
<1>5. Collecting(b)
  BY <1>3 DEF Collecting
<1>6. Collecting(c)
  BY DEF Collecting
<1> HIDE DEF a, b, c
<1> QED
  BY <1>1, <1>4, <1>5, <1>6

LEMMA FrameCalls ==
    ASSUME NEW parts, IsSeq(parts)
    PROVE  IsSeq(CollectFrame(parts).calls)
<1> DEFINE r == [calls |-> <<>>, first |-> 0, pending |-> ad.pending, seenCall |-> ad.seenCall]
           n == Len(parts)
<1>0. Collecting(r)
  BY SmallSeqs DEF Collecting
<1>1. n \in Nat /\ DOMAIN parts = 1..n
  BY LenProperties DEF IsSeq
<1>7. CollectFrame(parts) = FoldLeft(Collect, r, parts)
  BY DEF CollectFrame
<1> HIDE DEF n, r
<1> DEFINE h == Unfolded("Collect", r, parts)
<1>2. /\ h[{}] = r
      /\ \A s \in SUBSET (1..n) : s # {} =>
             Max(s) \in 1..n /\ h[s] = Fold("Collect", h[s \ {Max(s)}], parts[Max(s)])
  <2>1. UnfoldsTo("Collect", h, r, parts, n)
    BY <1>1, FoldSteps
  <2> QED
    BY <2>1 DEF UnfoldsTo
<1> HIDE DEF h
<1> DEFINE P == {h[s] : s \in {t \in SUBSET (1..n) : Collecting(h[t])}}
<1>3. ASSUME NEW s \in SUBSET (1..n), s # {}, h[s \ {Max(s)}] \in P PROVE h[s] \in P
  <2>1. Collecting(h[s \ {Max(s)}])
    BY <1>3
  <2>2. h[s] = Collect(h[s \ {Max(s)}], parts[Max(s)])
    BY <1>2, <1>3 DEF Fold
  <2>3. Collecting(h[s])
    BY <2>1, <2>2, CollectKeepsSeq
  <2> QED
    BY <2>3
<1>4. h[{}] \in P
  BY <1>0, <1>2
<1>5. h[1..n] \in P
  <2> HIDE DEF P
  <2> QED
    BY <1>1, <1>3, <1>4, FoldStays
<1>6. FoldLeft(Collect, r, parts) = h[1..n]
  BY <1>1, FoldingOf DEF h
<1> QED
  BY <1>5, <1>6, <1>7 DEF Collecting
----------------------------------------------------------------------------
\* The state: the canonical client is in step with the encoder, the client of a
\* native stream with the upstream.
WireFields == {"n", "phase", "open", "type", "next", "left", "returned", "late", "error"}

RouteOK ==
    /\ route.sink \in {"chat", "messages", "native"}
    /\ route.sink = "native" => route.kind = "anthropic" /\ route.form = NoInput
    /\ DOMAIN wire = WireFields
    /\ ended \in {"", "last", "ok", "failed"}

\* While ChatStream runs.
Answering ==
    /\ route.sink = "chat" => Hears(got, None, FALSE, FALSE, 0)
    /\ route.sink = "messages" => InStep(Encoding)

Upstreams ==
    route.sink = "native" =>
        /\ wire.phase \in {"start", "body", "final", "finished"} /\ wire.next \in Nat /\ wire.type # "answer"
        /\ wire.phase \in {"final", "finished"} => wire.open = None
        /\ Hears(got, wire.open, wire.phase # "start", wire.phase = "finished", wire.next)

NestInv ==
    /\ RouteOK
    /\ ended \in {"", "last"} => Answering /\ Upstreams
    /\ BlocksNest

LEMMA HearingNests ==
    ASSUME NEW g, NEW open, NEW begun, NEW closed, NEW n, Hears(g, open, begun, closed, n), closed = TRUE => open = None
    PROVE  ~g.bad /\ (g.closed => g.open = None)
BY DEF Hears

LEMMA NestInit == StreamInit => NestInv
<1> SUFFICES ASSUME StreamInit PROVE NestInv
  OBVIOUS
<1>1. /\ got.blocks = <<>> /\ got.open = None /\ got.begun = FALSE /\ got.closed = FALSE /\ got.bad = FALSE
      /\ DOMAIN got = {"a", "blocks", "open", "begun", "closed", "bad"}
  BY DEF StreamInit
<1>2. IsSeq(got.blocks) /\ Len(got.blocks) = 0
  BY <1>1, SmallSeqs
<1>3. Hears(got, None, FALSE, FALSE, 0)
  BY <1>1, <1>2 DEF Hears
<1>4. /\ enc.started = FALSE /\ enc.next = 0 /\ enc.open = None /\ DOMAIN enc = EncFields
      /\ wire.phase = "start" /\ wire.open = None /\ wire.next = 0 /\ wire.type = "" /\ DOMAIN wire = WireFields
      /\ ended = ""
  BY DEF StreamInit, EncFields, WireFields
<1>5. InStep(Encoding)
  <2>1. Encoding = [e |-> enc, g |-> got]
    BY DEF Encoding
  <2>2. Hears(got, enc.open, enc.started, FALSE, enc.next)
    BY <1>3, <1>4
  <2>3. enc.started \in BOOLEAN /\ enc.next \in Nat /\ enc.open \in Nat \cup {None} /\ (enc.open # None => enc.started = TRUE)
    <3>1. enc.next = 0 /\ enc.open = None /\ enc.started = FALSE
      BY <1>4
    <3>2. enc.next \in Nat
      BY <3>1
    <3> QED
      BY <3>1, <3>2
  <2>4. InStep([e |-> enc, g |-> got])
    <3> DEFINE r == [e |-> enc, g |-> got]
    <3>1. DOMAIN r = {"e", "g"} /\ r.e = enc /\ r.g = got
      OBVIOUS
    <3> HIDE DEF r
    <3>2. InStep(r)
      BY <1>4, <2>2, <2>3, <3>1 DEF InStep
    <3> QED
      BY <3>2 DEF r
  <2> QED
    BY <2>1, <2>4
<1>6. PICK k \in Kinds : route \in [kind : {k}, sink : Sinks(k), form : IF k = "anthropic" THEN Inputs \cup {NoInput} ELSE {NoInput}]
  BY DEF StreamInit
<1>7. RouteOK
  <2>1. route.kind = k /\ route.sink \in Sinks(k) /\ (route.sink = "native" => route.form = NoInput)
    BY <1>6 DEF StreamInit
  <2>2. route.sink \in {"chat", "messages", "native"} /\ (route.sink = "native" => k = "anthropic")
    BY <2>1 DEF Sinks
  <2> QED
    BY <1>4, <2>1, <2>2 DEF RouteOK
<1>8. Answering /\ Upstreams
  <2>1. (wire.phase # "start") = FALSE /\ (wire.phase = "finished") = FALSE
    BY <1>4
  <2>2. Hears(got, wire.open, wire.phase # "start", wire.phase = "finished", wire.next)
    BY <1>3, <1>4, <2>1, Zenon
  <2>3. wire.phase \in {"start", "body", "final", "finished"} /\ wire.next \in Nat /\ wire.type # "answer"
    <3>1. wire.next = 0
      BY <1>4
    <3>2. wire.next \in Nat
      BY <3>1
    <3> QED
      BY <1>4, <3>2
  <2>4. wire.phase \notin {"final", "finished"}
    BY <1>4
  <2>5. Upstreams
    BY <2>2, <2>3, <2>4, Zenon DEF Upstreams
  <2> QED
    BY <1>3, <1>5, <2>5 DEF Answering
<1>9. BlocksNest
  BY <1>1 DEF BlocksNest
<1> QED
  BY <1>7, <1>8, <1>9 DEF NestInv

\* A step that writes chunks.
LEMMA DeliverNests ==
    ASSUME NestInv, ended = "", route.sink # "native", NEW chunks, Good(chunks), Deliver(chunks), UNCHANGED route,
           ended' \in {"", "last"}, DOMAIN wire' = WireFields
    PROVE  NestInv'
<1>1. RouteOK'
  BY DEF NestInv, RouteOK
<1>2. CASE route.sink = "chat"
  <2>1. Hears(got, None, FALSE, FALSE, 0)
    BY <1>2 DEF NestInv, Answering
  <2> DEFINE a == FoldLeft(HearChunk, got.a, chunks)
  <2>2. got' = [got EXCEPT !.a = a]
    BY <1>2 DEF Deliver
  <2> HIDE DEF a
  <2>3. Hears(got', None, FALSE, FALSE, 0)
    BY <2>1, <2>2 DEF Hears
  <2>4. BlocksNest'
    BY <2>3, HearingNests DEF BlocksNest
  <2> QED
    BY <1>1, <1>2, <2>3, <2>4 DEF NestInv, Answering, Upstreams
<1>3. CASE route.sink = "messages"
  <2> DEFINE r == FoldLeft(EncChunk, Encoding, chunks)
  <2>1. InStep(Encoding)
    BY <1>3 DEF NestInv, Answering
  <2>2. InStep(r)
    BY <2>1, ChunksInStep
  <2>3. got' = r.g /\ enc' = r.e
    BY <1>3 DEF Deliver
  <2> HIDE DEF r
  <2>4. InStep(Encoding') /\ Encoding' = [e |-> enc', g |-> got']
    <3>1. Encoding' = [e |-> r.e, g |-> r.g]
      BY <2>3 DEF Encoding
    <3> QED
      BY <2>2, <2>3, <3>1 DEF InStep
  <2>5. Hears(got', enc'.open, enc'.started, FALSE, enc'.next)
    BY <2>2, <2>3 DEF InStep
  <2>6. BlocksNest'
    BY <2>5, HearingNests DEF BlocksNest
  <2> QED
    BY <1>1, <1>3, <2>4, <2>6 DEF NestInv, Answering, Upstreams
<1> QED
  BY <1>2, <1>3 DEF NestInv, RouteOK

LEMMA ReturnNests ==
    ASSUME NestInv, ended \in {"", "last"}, NEW how \in {"ok", "failed"}, Return(how), UNCHANGED route, DOMAIN wire' = WireFields
    PROVE  NestInv'
<1>1. RouteOK' /\ ended' = how
  BY DEF NestInv, RouteOK, Return
<1>2. CASE how = "ok" /\ route.sink = "messages"
  <2>1. InStep(Encoding)
    BY <1>2 DEF NestInv, Answering
  <2>2. got' = EncFinish(Encoding).g
    BY <1>2 DEF Return
  <2>3. PICK n : Hears(got', None, TRUE, TRUE, n)
    BY <2>1, <2>2, FinishEnds
  <2>4. BlocksNest'
    BY <2>3, HearingNests DEF BlocksNest
  <2> QED
    BY <1>1, <2>4 DEF NestInv
<1>3. CASE ~(how = "ok" /\ route.sink = "messages")
  <2>1. UNCHANGED got
    BY <1>3 DEF Return
  <2> QED
    BY <1>1, <2>1 DEF NestInv, BlocksNest
<1> QED
  BY <1>2, <1>3
----------------------------------------------------------------------------
LEMMA OpenAINests ==
    ASSUME NestInv,
           \/ OpenAIText \/ OpenAIReasoning \/ OpenAIBare \/ OpenAIError
           \/ \E args \in 0..1 : OpenAICall(args)
           \/ \E i \in 0..3 : OpenAIArgs(i)
           \/ \E why \in FinishReasons : OpenAIFinish(why)
    PROVE  NestInv'
<1> DEFINE Step(chunks) == ended = "" /\ route.kind # "anthropic" /\ Deliver(chunks) /\ Good(chunks) /\ UNCHANGED <<route, ended>>
                           /\ DOMAIN wire' = WireFields
<1>0. DOMAIN wire = WireFields
  BY DEF NestInv, RouteOK
<1>1. ASSUME NEW chunks, Step(chunks) PROVE NestInv'
  <2>1. route.sink # "native"
    BY <1>1 DEF NestInv, RouteOK
  <2> QED
    BY <1>1, <2>1, DeliverNests
<1>2. Good(<<>>) /\ Good(<<[Chunk EXCEPT !.bare = TRUE]>>)
  BY NoChunk, OneChunk, PlainChunks
<1>3. CASE OpenAIText
  <2>1. Step(<<[Chunk EXCEPT !.text = <<"t">>]>>)
    BY <1>0, <1>3, OneChunk, PlainChunks DEF OpenAIText, Sends, Sent, OpenAILike, WireFields
  <2> QED BY <1>1, <2>1
<1>4. CASE OpenAIReasoning
  <2>1. Step(<<[Chunk EXCEPT !.thoughts = <<<<"r">>>>]>>)
    BY <1>0, <1>4, OneChunk, PlainChunks DEF OpenAIReasoning, Sends, Sent, OpenAILike, WireFields
  <2> QED BY <1>1, <2>1
<1>5. CASE OpenAIBare
  <2>1. Step(IF route.kind = "azure" /\ wire.phase = "start" THEN <<>> ELSE <<[Chunk EXCEPT !.bare = TRUE]>>)
    BY <1>0, <1>2, <1>5 DEF OpenAIBare, Sends, Sent, OpenAILike, WireFields
  <2> QED BY <1>1, <2>1
<1>6. CASE OpenAIError
  <2>1. CASE route.kind = "azure"
    <3>1. Return("failed") /\ UNCHANGED route /\ DOMAIN wire' = WireFields /\ ended = ""
      BY <1>0, <1>6, <2>1 DEF OpenAIError, Sends, Sent, WireFields
    <3> QED BY <3>1, ReturnNests
  <2>2. CASE route.kind # "azure"
    <3>1. Step(<<[Chunk EXCEPT !.bare = TRUE]>>)
      BY <1>0, <1>2, <1>6, <2>2 DEF OpenAIError, Sends, Sent, OpenAILike, WireFields
    <3> QED BY <1>1, <3>1
  <2> QED BY <2>1, <2>2
<1>7. ASSUME NEW args \in 0..1, OpenAICall(args) PROVE NestInv'
  <2> DEFINE d == [index |-> Len(said.calls), args |-> args, sig |-> FALSE]
  <2>1. Step(<<[Chunk EXCEPT !.calls = <<d>>]>>)
    BY <1>0, <1>7, OneChunk, PlainChunks DEF OpenAICall, Sends, Sent, OpenAILike, WireFields
  <2> QED BY <1>1, <2>1
<1>8. ASSUME NEW i \in 0..3, OpenAIArgs(i) PROVE NestInv'
  <2> DEFINE d == [index |-> i, args |-> 1, sig |-> FALSE]
  <2>1. Step(<<[Chunk EXCEPT !.calls = <<d>>]>>)
    BY <1>0, <1>8, OneChunk, PlainChunks DEF OpenAIArgs, Sends, Sent, OpenAILike, WireFields
  <2> QED BY <1>1, <2>1
<1>9. ASSUME NEW why \in FinishReasons, OpenAIFinish(why) PROVE NestInv'
  <2>1. Step(<<[Chunk EXCEPT !.finish = why]>>)
    BY <1>0, <1>9, OneChunk, PlainChunks DEF OpenAIFinish, Sends, Sent, OpenAILike, WireFields
  <2> QED BY <1>1, <2>1
<1> QED
  BY <1>3, <1>4, <1>5, <1>6, <1>7, <1>8, <1>9

LEMMA GeminiNests ==
    ASSUME NestInv, NEW parts \in Frames, NEW reason, GeminiFrame(parts, reason)
    PROVE  NestInv'
<1> DEFINE s == CollectFrame(parts)
           thoughts == IF ThoughtsOf(parts) = <<>> THEN <<>> ELSE <<ThoughtsOf(parts)>>
           opening == [Chunk EXCEPT !.text = TextOf(parts), !.thoughts = thoughts]
           why == IF Len(ad.blocks) + Len(s.calls) > 0 THEN "tool_calls" ELSE GeminiFinish(reason)
           first == IF opening # Chunk \/ s.calls = <<>> THEN <<opening>> ELSE <<>>
           whole == WholeCalls(s.calls)
           last == IF reason = "" THEN <<>> ELSE <<[Chunk EXCEPT !.finish = why]>>
<1>1. /\ ended = "" /\ route.kind = "gemini" /\ UNCHANGED <<route, ended>>
      /\ Deliver(first \o whole \o last)
      /\ DOMAIN wire' = WireFields
  BY DEF GeminiFrame, Sends, Sent, NestInv, RouteOK, WireFields
<1>2. IsSeq(parts)
  <2>1. parts = <<>> \/ (\E p : parts = <<p>>) \/ (\E p, q : parts = <<p, q>>)
    BY DEF Frames
  <2>2. \A p, q : <<p, q>> \in Seq({p, q})
    OBVIOUS
  <2>3. \A p, q : IsSeq(<<p, q>>)
    BY <2>2 DEF IsSeq
  <2> QED
    BY <2>1, <2>3, SmallSeqs
<1>3. Good(whole)
  BY <1>2, FrameCalls, WholeChunks
<1>4. Proper(opening)
  <2>1. IsSeq(thoughts)
    BY SmallSeqs
  <2> HIDE DEF thoughts
  <2> QED
    BY <2>1, SmallSeqs DEF Proper, Chunk
<1>5. Good(first)
  <2> HIDE DEF opening
  <2> QED
    BY <1>4, NoChunk, OneChunk
<1>6. Good(last)
  <2> HIDE DEF why
  <2> QED
    BY NoChunk, OneChunk, PlainChunks
<1> HIDE DEF first, whole, last
<1>7. Good(first \o whole \o last)
  BY <1>3, <1>5, <1>6, MoreChunks
<1>8. route.sink # "native"
  BY <1>1 DEF NestInv, RouteOK
<1> QED
  BY <1>1, <1>7, <1>8, DeliverNests

LEMMA OllamaNests ==
    ASSUME NestInv, NEW text, NEW thoughts, NEW calls \in 0..2, NEW done, OllamaLine(text, thoughts, calls, done)
    PROVE  NestInv'
<1> DEFINE cs == [i \in 1..calls |-> NewCall(1, FALSE)]
           whole == WholeCalls(cs)
           ts == IF thoughts = <<>> THEN <<>> ELSE <<thoughts>>
           opening == [Chunk EXCEPT !.text = text, !.thoughts = ts]
           why == IF Len(ad.blocks) + calls > 0 THEN "tool_calls" ELSE done
           chunks == IF calls = 0 THEN <<opening>> ELSE <<[opening EXCEPT !.calls = whole[1].calls]>> \o Tail(whole)
           all == IF done = "" THEN chunks
                  ELSE [chunks EXCEPT ![Len(chunks)].finish = why] \o <<[Chunk EXCEPT !.bare = TRUE]>>
<1>1. /\ ended = "" /\ route.kind = "ollama" /\ UNCHANGED route /\ ended' \in {"", "last"}
      /\ Deliver(all)
      /\ DOMAIN wire' = WireFields
  BY DEF OllamaLine, Sends, Sent, NestInv, RouteOK, WireFields
<1>2. Good(whole) /\ Len(whole) = calls
  <2> DEFINE v(i) == NewCall(1, FALSE)
  <2>1. cs = [i \in 1..calls |-> cs[i]]
    OBVIOUS
  <2>2. IsSeq(cs) /\ Len(cs) = calls
    <3> HIDE DEF cs
    <3> QED
      BY <2>1, FunctionIsSeq
  <2> HIDE DEF cs
  <2> QED
    BY <2>2, WholeChunks
<1>3. Proper(opening)
  <2>1. IsSeq(ts)
    BY SmallSeqs
  <2> HIDE DEF ts
  <2> QED
    BY <2>1, SmallSeqs DEF Proper, Chunk
<1> HIDE DEF whole, opening
<1>4. Good(chunks)
  <2>1. CASE calls = 0
    BY <1>3, <2>1, OneChunk
  <2>2. CASE calls # 0
    <3> DEFINE c == [opening EXCEPT !.calls = whole[1].calls]
    <3>1. Good(Tail(whole)) /\ Proper(whole[1])
      BY <1>2, <2>2, FewerChunks
    <3>2. Proper(c)
      BY <1>3, <3>1 DEF Proper
    <3> HIDE DEF c
    <3>3. Good(<<c>>)
      BY <3>2, OneChunk
    <3>4. Good(<<c>> \o Tail(whole))
      BY <3>1, <3>3, MoreChunks
    <3> QED
      BY <2>2, <3>4 DEF c
  <2> QED
    BY <2>1, <2>2
<1> HIDE DEF chunks, why
<1>5. Good([chunks EXCEPT ![Len(chunks)].finish = why])
  BY <1>4, OtherFinish
<1>6. Good(all)
  <2> DEFINE f == [chunks EXCEPT ![Len(chunks)].finish = why]
             b == <<[Chunk EXCEPT !.bare = TRUE]>>
  <2>1. Good(f) /\ Good(b)
    BY <1>5, OneChunk, PlainChunks
  <2>2. all = IF done = "" THEN chunks ELSE f \o b
    OBVIOUS
  <2> HIDE DEF f, b, all
  <2> QED
    BY <1>4, <2>1, <2>2, MoreChunks
<1>7. route.sink # "native"
  BY <1>1 DEF NestInv, RouteOK
<1> HIDE DEF all
<1> QED
  BY <1>1, <1>6, <1>7, DeliverNests

LEMMA PassNests ==
    ASSUME NestInv, ended = "", route.sink = "native", UNCHANGED <<route, ended>>,
           NEW phase \in {"start", "body", "final", "finished"}, NEW open, NEW n \in Nat, NEW begun, NEW closed,
           DOMAIN wire' = WireFields, wire'.phase = phase, wire'.open = open, wire'.next = n, wire'.type # "answer",
           phase \in {"final", "finished"} => open = None,
           begun = (phase # "start"), closed = (phase = "finished"), Hears(got', open, begun, closed, n)
    PROVE  NestInv'
<1>1. RouteOK'
  BY DEF NestInv, RouteOK
<1>2. closed = TRUE => open = None
  OBVIOUS
<1>3. BlocksNest'
  BY <1>2, HearingNests DEF BlocksNest
<1>4. Upstreams'
  <2>1. Hears(got', wire'.open, wire'.phase # "start", wire'.phase = "finished", wire'.next)
    BY Zenon
  <2> QED
    BY <2>1 DEF Upstreams
<1>5. Answering'
  BY DEF Answering
<1> QED
  BY <1>1, <1>3, <1>4, <1>5 DEF NestInv

LEMMA NativeState ==
    ASSUME NestInv, ended = "", route.sink = "native", NEW phase, wire.phase = phase, NEW begun, begun = (phase # "start"),
           NEW closed, closed = (phase = "finished")
    PROVE  /\ phase \in {"start", "body", "final", "finished"} /\ wire.next \in Nat /\ wire.type # "answer"
           /\ phase \in {"final", "finished"} => wire.open = None
           /\ Hears(got, wire.open, begun, closed, wire.next)
BY Zenon DEF NestInv, Upstreams

LEMMA ChunksOrEvents ==
    ASSUME NestInv, ended = "", UNCHANGED <<route, ended>>, DOMAIN wire' = WireFields,
           route.sink = "native" => NestInv',
           route.sink # "native" => \E chunks : Good(chunks) /\ Deliver(chunks)
    PROVE  NestInv'
<1>1. CASE route.sink # "native"
  <2>1. PICK chunks : Good(chunks) /\ Deliver(chunks)
    BY <1>1
  <2> QED
    BY <1>1, <2>1, DeliverNests
<1> QED
  BY <1>1

LEMMA AnthropicStartNests == ASSUME NestInv, AnthropicStart PROVE NestInv'
<1>1. ended = "" /\ wire.phase = "start" /\ UNCHANGED <<route, ended>> /\ DOMAIN wire = WireFields
      /\ wire' = [[wire EXCEPT !.phase = "body"] EXCEPT !.n = @ + 1]
  BY DEF AnthropicStart, Sends, Sent, NestInv, RouteOK
<1>2. /\ DOMAIN wire' = WireFields /\ wire'.phase = "body" /\ wire'.open = wire.open /\ wire'.next = wire.next
      /\ wire'.type = wire.type
  BY <1>1 DEF WireFields
<1>3. ASSUME route.sink = "native" PROVE NestInv'
  <2>1. got' = HearEvent(got, Event("begin", None, "", <<>>))
    BY <1>3 DEF AnthropicStart, Pass
  <2>2. Hears(got, wire.open, FALSE, FALSE, wire.next) /\ wire.next \in Nat /\ wire.type # "answer"
    BY <1>1, <1>3, NativeState
  <2>3. Hears(got', wire.open, TRUE, FALSE, wire.next)
    BY <2>1, <2>2, HearBegin
  <2> QED
    BY <1>1, <1>2, <1>3, <2>2, <2>3, PassNests
<1>4. ASSUME route.sink # "native" PROVE \E chunks : Good(chunks) /\ Deliver(chunks)
  BY <1>4, OneChunk, PlainChunks DEF AnthropicStart
<1> QED
  BY <1>1, <1>2, <1>3, <1>4, ChunksOrEvents

LEMMA AnthropicBlockNests == ASSUME NestInv, NEW type, AnthropicBlock(type) PROVE NestInv'
<1> DEFINE left == IF type = "answer" THEN route.form.tokens ELSE <<>>
<1>1. ended = "" /\ wire.phase = "body" /\ wire.open = None /\ type \in BlockTypes /\ UNCHANGED <<route, ended>>
      /\ DOMAIN wire = WireFields
      /\ wire' = [[wire EXCEPT !.open = wire.next, !.type = type, !.next = wire.next + 1, !.left = left] EXCEPT !.n = @ + 1]
  BY DEF AnthropicBlock, Sends, Sent, NestInv, RouteOK
<1> HIDE DEF left
<1>2. /\ DOMAIN wire' = WireFields /\ wire'.phase = "body" /\ wire'.open = wire.next /\ wire'.next = wire.next + 1
      /\ wire'.type = type
  BY <1>1 DEF WireFields
<1>3. ASSUME route.sink = "native" PROVE NestInv'
  <2> DEFINE body == IF type = "redacted_thinking" THEN <<"r">> ELSE <<>>
  <2>1. got' = HearEvent(got, Event("start", wire.next, type, body))
    BY <1>3 DEF AnthropicBlock, Pass
  <2> HIDE DEF body
  <2>2. Hears(got, None, TRUE, FALSE, wire.next) /\ wire.next \in Nat
    BY <1>1, <1>3, NativeState
  <2>3. Hears(got', wire.next, TRUE, FALSE, wire.next + 1)
    BY <2>1, <2>2, HearStart
  <2>4. type # "answer"
    BY <1>1, <1>3 DEF BlockTypes, AnswerTool, NestInv, RouteOK
  <2>5. wire.next + 1 \in Nat
    BY <2>2
  <2> QED
    BY <1>1, <1>2, <1>3, <2>3, <2>4, <2>5, PassNests
<1>4. ASSUME route.sink # "native" PROVE \E chunks : Good(chunks) /\ Deliver(chunks)
  <2> DEFINE d == [index |-> Len(ad.blocks), args |-> 0, sig |-> FALSE]
             chunks == CASE type = "tool_use" -> <<[Chunk EXCEPT !.calls = <<d>>]>>
                         [] type = "thinking" -> <<[Chunk EXCEPT !.thoughts = <<<<>>>>]>>
                         [] type = "redacted_thinking" -> <<[Chunk EXCEPT !.thoughts = <<<<"r">>>>]>>
                         [] OTHER -> <<>>
  <2>1. Deliver(chunks)
    BY <1>4 DEF AnthropicBlock
  <2> HIDE DEF d
  <2>2. Good(chunks)
    BY NoChunk, OneChunk, PlainChunks
  <2> QED
    BY <2>1, <2>2
<1> QED
  BY <1>1, <1>2, <1>3, <1>4, ChunksOrEvents

LEMMA AnthropicDeltaNests == ASSUME NestInv, AnthropicDelta PROVE NestInv'
<1>1. ended = "" /\ wire.phase = "body" /\ UNCHANGED <<route, ended>> /\ DOMAIN wire = WireFields
      /\ wire' = [wire EXCEPT !.n = @ + 1]
  BY DEF AnthropicDelta, Sends, Sent, NestInv, RouteOK
<1>2. /\ DOMAIN wire' = WireFields /\ wire'.phase = "body" /\ wire'.open = wire.open /\ wire'.next = wire.next
      /\ wire'.type = wire.type
  BY <1>1 DEF WireFields
<1>3. ASSUME route.sink = "native" PROVE NestInv'
  <2> DEFINE body == <<CASE wire.type = "text" -> "t" [] wire.type = "thinking" -> "r" [] OTHER -> "args">>
  <2>1. got' = HearEvent(got, Event("delta", wire.open, "", body))
    BY <1>3 DEF AnthropicDelta, Pass
  <2> HIDE DEF body
  <2>2. Hears(got, wire.open, TRUE, FALSE, wire.next) /\ wire.next \in Nat /\ wire.type # "answer"
    BY <1>1, <1>3, NativeState
  <2>3. Hears(got', wire.open, TRUE, FALSE, wire.next)
    BY <2>1, <2>2, HearDelta
  <2> QED
    BY <1>1, <1>2, <1>3, <2>2, <2>3, PassNests
<1>4. ASSUME route.sink # "native" PROVE \E chunks : Good(chunks) /\ Deliver(chunks)
  <2> DEFINE d == [index |-> ToolIndex(wire.open), args |-> 1, sig |-> FALSE]
             chunks == CASE wire.type = "text" -> <<[Chunk EXCEPT !.text = <<"t">>]>>
                         [] wire.type = "thinking" -> <<[Chunk EXCEPT !.thoughts = <<<<"r">>>>]>>
                         [] OTHER -> <<[Chunk EXCEPT !.calls = <<d>>]>>
  <2>1. Deliver(chunks)
    BY <1>4 DEF AnthropicDelta
  <2> HIDE DEF d
  <2>2. Good(chunks)
    BY OneChunk, PlainChunks
  <2> QED
    BY <2>1, <2>2
<1> QED
  BY <1>1, <1>2, <1>3, <1>4, ChunksOrEvents

LEMMA AnthropicAnswerDeltaNests == ASSUME NestInv, NEW n, AnthropicAnswerDelta(n) PROVE NestInv'
<1> DEFINE f == Feed(ad, route.form.wrapped, SubSeq(wire.left, 1, n))
           left == SubSeq(wire.left, n + 1, Len(wire.left))
           chunks == IF f.out = <<>> THEN <<>> ELSE <<[Chunk EXCEPT !.text = f.out]>>
<1>1. ended = "" /\ wire.phase = "body" /\ wire.type = "answer" /\ UNCHANGED <<route, ended>> /\ DOMAIN wire = WireFields
      /\ wire' = [[wire EXCEPT !.left = left] EXCEPT !.n = @ + 1] /\ Deliver(chunks)
  BY DEF AnthropicAnswerDelta, Sends, Sent, NestInv, RouteOK
<1> HIDE DEF f, left
<1>2. DOMAIN wire' = WireFields
  BY <1>1 DEF WireFields
<1>3. route.sink # "native"
  BY <1>1 DEF NestInv, Upstreams
<1>4. Good(chunks)
  BY NoChunk, OneChunk, PlainChunks
<1> QED
  BY <1>1, <1>2, <1>3, <1>4, DeliverNests

LEMMA AnthropicStopNests == ASSUME NestInv, AnthropicStop PROVE NestInv'
<1> DEFINE tail == IF wire.type = "answer" THEN Flush(ad, route.form.wrapped) ELSE <<>>
<1>1. ended = "" /\ wire.phase = "body" /\ UNCHANGED <<route, ended>> /\ DOMAIN wire = WireFields
      /\ wire' = [[wire EXCEPT !.open = None] EXCEPT !.n = @ + 1]
  BY DEF AnthropicStop, Sends, Sent, NestInv, RouteOK
<1>2. /\ DOMAIN wire' = WireFields /\ wire'.phase = "body" /\ wire'.open = None /\ wire'.next = wire.next
      /\ wire'.type = wire.type
  BY <1>1 DEF WireFields
<1>3. ASSUME route.sink = "native" PROVE NestInv'
  <2>1. got' = HearEvent(got, Event("stop", wire.open, "", <<>>))
    BY <1>3 DEF AnthropicStop, Pass
  <2>2. Hears(got, wire.open, TRUE, FALSE, wire.next) /\ wire.next \in Nat /\ wire.type # "answer"
    BY <1>1, <1>3, NativeState
  <2>3. Hears(got', None, TRUE, FALSE, wire.next)
    BY <2>1, <2>2, HearStop
  <2> QED
    BY <1>1, <1>2, <1>3, <2>2, <2>3, PassNests
<1>4. ASSUME route.sink # "native" PROVE \E chunks : Good(chunks) /\ Deliver(chunks)
  <2> DEFINE chunks == IF tail = <<>> THEN <<>> ELSE <<[Chunk EXCEPT !.text = tail]>>
  <2>1. Deliver(chunks)
    BY <1>4 DEF AnthropicStop
  <2> HIDE DEF tail
  <2>2. Good(chunks)
    BY NoChunk, OneChunk, PlainChunks
  <2> QED
    BY <2>1, <2>2
<1> QED
  BY <1>1, <1>2, <1>3, <1>4, ChunksOrEvents

LEMMA AnthropicMessageDeltaNests == ASSUME NestInv, NEW stop, AnthropicMessageDelta(stop) PROVE NestInv'
<1>1. ended = "" /\ wire.phase = "body" /\ wire.open = None /\ UNCHANGED <<route, ended>> /\ DOMAIN wire = WireFields
      /\ wire' = [[wire EXCEPT !.phase = "final"] EXCEPT !.n = @ + 1]
  BY DEF AnthropicMessageDelta, Sends, Sent, NestInv, RouteOK
<1>2. /\ DOMAIN wire' = WireFields /\ wire'.phase = "final" /\ wire'.open = wire.open /\ wire'.next = wire.next
      /\ wire'.type = wire.type
  BY <1>1 DEF WireFields
<1>3. ASSUME route.sink = "native" PROVE NestInv'
  <2>1. got' = got
    BY <1>3 DEF AnthropicMessageDelta
  <2>2. Hears(got, wire.open, TRUE, FALSE, wire.next) /\ wire.next \in Nat /\ wire.type # "answer"
    BY <1>1, <1>3, NativeState
  <2>3. Hears(got', wire.open, TRUE, FALSE, wire.next)
    BY <2>1, <2>2
  <2> QED
    BY <1>1, <1>2, <1>3, <2>2, <2>3, PassNests
<1>4. ASSUME route.sink # "native" PROVE \E chunks : Good(chunks) /\ Deliver(chunks)
  <2> DEFINE why == Finished(stop, ad.answered, Len(ad.blocks))
  <2>1. Deliver(<<[Chunk EXCEPT !.finish = why]>>)
    BY <1>4 DEF AnthropicMessageDelta
  <2> HIDE DEF why
  <2> QED
    BY <2>1, OneChunk, PlainChunks
<1> QED
  BY <1>1, <1>2, <1>3, <1>4, ChunksOrEvents

LEMMA AnthropicMessageStopNests == ASSUME NestInv, AnthropicMessageStop PROVE NestInv'
<1>1. ended = "" /\ wire.phase = "final" /\ UNCHANGED <<route, ended>> /\ DOMAIN wire = WireFields
      /\ wire' = [[wire EXCEPT !.phase = "finished"] EXCEPT !.n = @ + 1]
  BY DEF AnthropicMessageStop, Sends, Sent, NestInv, RouteOK
<1>2. /\ DOMAIN wire' = WireFields /\ wire'.phase = "finished" /\ wire'.open = wire.open /\ wire'.next = wire.next
      /\ wire'.type = wire.type
  BY <1>1 DEF WireFields
<1>3. ASSUME route.sink = "native" PROVE NestInv'
  <2>1. got' = HearEvent(got, EndEvent(said.finish))
    BY <1>3 DEF AnthropicMessageStop, Pass
  <2>2. /\ Hears(got, wire.open, TRUE, FALSE, wire.next) /\ wire.next \in Nat /\ wire.type # "answer"
        /\ wire.open = None
    BY <1>1, <1>3, NativeState
  <2>3. Hears(got', None, TRUE, TRUE, wire.next)
    BY <2>1, <2>2, HearEnd
  <2> QED
    BY <1>1, <1>2, <1>3, <2>2, <2>3, PassNests
<1>4. ASSUME route.sink # "native" PROVE \E chunks : Good(chunks) /\ Deliver(chunks)
  BY <1>4, OneChunk, PlainChunks DEF AnthropicMessageStop
<1> QED
  BY <1>1, <1>2, <1>3, <1>4, ChunksOrEvents

LEMMA EndsNest ==
    ASSUME NestInv, AnthropicError \/ OllamaReturns \/ OllamaError \/ Closes \/ Breaks
    PROVE  NestInv'
<1>1. DOMAIN wire = WireFields
  BY DEF NestInv, RouteOK
<1>2. CASE AnthropicError \/ OllamaError
  <2>1. Return("failed") /\ ended = "" /\ UNCHANGED route /\ DOMAIN wire' = WireFields
    BY <1>1, <1>2 DEF AnthropicError, OllamaError, Sends, Sent, WireFields
  <2> QED
    BY <2>1, ReturnNests
<1>3. CASE OllamaReturns
  <2>1. Return("ok") /\ ended = "last" /\ UNCHANGED <<route, wire>>
    BY <1>3 DEF OllamaReturns
  <2> QED
    BY <1>1, <2>1, ReturnNests
<1>4. CASE Closes
  <2> DEFINE how == IF route.kind = "ollama" THEN "failed" ELSE "ok"
  <2>1. Return(how) /\ ended = "" /\ UNCHANGED <<route, wire>> /\ how \in {"ok", "failed"}
    BY <1>4 DEF Closes
  <2> HIDE DEF how
  <2> QED
    BY <1>1, <2>1, ReturnNests
<1>5. CASE Breaks
  <2>1. Return("failed") /\ ended = "" /\ UNCHANGED <<route, wire>>
    BY <1>5 DEF Breaks
  <2> QED
    BY <1>1, <2>1, ReturnNests
<1> QED
  BY <1>2, <1>3, <1>4, <1>5

LEMMA NestNext == NestInv /\ [StreamNext]_stVars => NestInv'
<1> SUFFICES ASSUME NestInv, [StreamNext]_stVars PROVE NestInv'
  OBVIOUS
<1>1. CASE UNCHANGED stVars
  BY <1>1 DEF stVars, NestInv, RouteOK, Answering, Upstreams, BlocksNest, Encoding
<1>2. CASE \/ OpenAIText \/ OpenAIReasoning \/ OpenAIBare \/ OpenAIError
           \/ \E args \in 0..1 : OpenAICall(args)
           \/ \E i \in 0..3 : OpenAIArgs(i)
           \/ \E why \in FinishReasons : OpenAIFinish(why)
  BY <1>2, OpenAINests
<1>3. CASE AnthropicStart \/ AnthropicDelta \/ AnthropicStop \/ AnthropicMessageStop
  BY <1>3, AnthropicStartNests, AnthropicDeltaNests, AnthropicStopNests, AnthropicMessageStopNests
<1>4. CASE \E type \in {"text", "thinking", "redacted_thinking", "tool_use", "answer"} : AnthropicBlock(type)
  BY <1>4, AnthropicBlockNests
<1>5. CASE \E n \in 1..8 : AnthropicAnswerDelta(n)
  BY <1>5, AnthropicAnswerDeltaNests
<1>6. CASE \E stop \in StopReasons : AnthropicMessageDelta(stop)
  BY <1>6, AnthropicMessageDeltaNests
<1>7. CASE \E parts \in Frames, reason \in {"", "STOP", "MAX_TOKENS", "SAFETY"} : GeminiFrame(parts, reason)
  BY <1>7, GeminiNests
<1>8. CASE \E text \in {<<>>, <<"t">>}, thoughts \in {<<>>, <<"r">>}, calls \in 0..2, done \in {"", "stop", "length"} :
             OllamaLine(text, thoughts, calls, done)
  BY <1>8, OllamaNests
<1>9. CASE AnthropicError \/ OllamaReturns \/ OllamaError \/ Closes \/ Breaks
  BY <1>9, EndsNest
<1> QED
  BY <1>1, <1>2, <1>3, <1>4, <1>5, <1>6, <1>7, <1>8, <1>9 DEF StreamNext

\* MessagesEncoder and MessagesStream.Relay, whatever the adapter, the order in
\* which text, thinking and calls arrive and the way the stream ends: a Messages
\* stream begins once, has one block open at a time, numbers its blocks without
\* a gap, and is closed with none open.
THEOREM BlocksAlwaysNest == StreamSpec => []BlocksNest
<1>1. NestInv => BlocksNest
  BY DEF NestInv
<1> QED
  BY <1>1, NestInit, NestNext, PTL DEF StreamSpec
----------------------------------------------------------------------------
(* The thinking a provider is asked for (effort.go, setupAnthropicThinking, *)
(* planGeminiThinking, planOllamaThink), for every request.                *)

Asking == [front : {"chat", "messages"}, model : DOMAIN Models,
           effort : Efforts \cup {"unset", "enabled", "adaptive", "disabled"}, maxTokens : Nat,
           choice : {"auto", "forced"}, format : {"none", "json"}, context : {"none", "system", "before_last"}]

LEMMA LevelsHaveEnds ==
    ASSUME NEW levels \in SUBSET Efforts, levels # {}
    PROVE  Lowest(levels) \in levels /\ Highest(levels) \in levels
<1>1. \E l \in levels : \A k \in levels : Rank[l] <= Rank[k]
  <2>1. \A k \in levels : Rank[k] \in 0..6
    BY DEF Efforts, Rank
  <2>2. \E n \in 0..6 : (\E l \in levels : Rank[l] = n) /\ \A m \in 0..n - 1 : ~\E l \in levels : Rank[l] = m
    BY <2>1
  <2> QED
    BY <2>1, <2>2
<1>2. \E l \in levels : \A k \in levels : Rank[l] >= Rank[k]
  <2>1. \A k \in levels : Rank[k] \in 0..6
    BY DEF Efforts, Rank
  <2>2. \E n \in 0..6 : (\E l \in levels : Rank[l] = n) /\ \A m \in n + 1..6 : ~\E l \in levels : Rank[l] = m
    BY <2>1
  <2> QED
    BY <2>1, <2>2
<1> QED
  BY <1>1, <1>2 DEF Lowest, Highest

LEMMA ClampEffortFits ==
    ASSUME NEW levels \in SUBSET Efforts, levels # {}, NEW want
    PROVE  ClampEffort(levels, want) \in levels
<1> DEFINE w == IF want = "minimal" THEN "low" ELSE want
           below == {l \in levels : Rank[l] < Rank[w]}
<1>1. below \in SUBSET Efforts /\ (below # {} => Highest(below) \in levels)
  <2>1. below \in SUBSET Efforts /\ below \subseteq levels
    OBVIOUS
  <2> HIDE DEF below
  <2> QED
    BY <2>1, LevelsHaveEnds
<1>2. ClampEffort(levels, want) \in {w} \cap levels \/ (below # {} /\ ClampEffort(levels, want) = Highest(below))
      \/ ClampEffort(levels, want) = Lowest(levels)
  BY DEF ClampEffort
<1> QED
  BY <1>1, <1>2, LevelsHaveEnds

LEMMA PickLevelFits ==
    ASSUME NEW levels \in SUBSET Efforts, levels # {}, NEW want
    PROVE  PickLevel(levels, want) \in levels
<1> DEFINE above == {l \in levels : Rank[l] > Rank[want]}
<1>1. above # {} => Lowest(above) \in levels
  <2>1. above \in SUBSET Efforts /\ above \subseteq levels
    OBVIOUS
  <2> HIDE DEF above
  <2> QED
    BY <2>1, LevelsHaveEnds
<1>2. (want \in levels /\ PickLevel(levels, want) = want) \/ (above # {} /\ PickLevel(levels, want) = Lowest(above))
      \/ PickLevel(levels, want) = Highest(levels)
  BY DEF PickLevel
<1> QED
  BY <1>1, <1>2, LevelsHaveEnds

\* The rows of the model table.
AnthropicRow(r) ==
    /\ r.kind = "anthropic" /\ r.levels \in SUBSET Efforts /\ r.mode \in {"none", "budget", "adaptive"}
    /\ r.mode = "adaptive" => r.levels # {}
    /\ r.off \in {"disabled", "between_tools", "unsupported"}
    /\ r.off = "between_tools" => r.forced = FALSE
GeminiRow(r) ==
    /\ r.kind = "gemini" /\ r.mode \in {"budget", "level"}
    /\ r.mode = "budget" => r.lo \in Nat /\ r.hi \in Nat /\ r.lo <= r.hi
    /\ r.mode = "level" => r.levels \in SUBSET Efforts /\ r.levels # {}
OllamaRow(r) ==
    /\ r.kind = "ollama" /\ r.mode \in {"toggle", "level"} /\ r.levels \in SUBSET Efforts
    /\ r.mode = "level" => r.levels # {}

LEMMA ModelRows ==
    ASSUME NEW m \in DOMAIN Models
    PROVE  AnthropicRow(Models[m]) \/ GeminiRow(Models[m]) \/ OllamaRow(Models[m])
<1>1. CASE m \in {"claude3", "sonnet40", "opus45", "haiku55", "sonnet55", "claudeNew"}
  <2>1. AnthropicRow(Models[m])
    BY <1>1 DEF Models, AnthropicRow, Efforts
  <2> QED BY <2>1
<1>2. CASE m \in {"gemini25pro", "gemini25lite", "gemini3pro", "gemini3flash"}
  <2>1. GeminiRow(Models[m])
    BY <1>2 DEF Models, GeminiRow, Efforts
  <2> QED BY <2>1
<1>3. CASE m \in {"llama", "gptoss"}
  <2>1. OllamaRow(Models[m])
    BY <1>3 DEF Models, OllamaRow, Efforts
  <2> QED BY <2>1
<1> QED
  BY <1>1, <1>2, <1>3 DEF Models

LEMMA ReasoningKnown ==
    ASSUME asked \in Asking
    PROVE  Reasoning \in Efforts \cup {"unset"}
BY DEF Asking, Reasoning, Efforts

LEMMA PlanFields ==
    ASSUME NEW thinking, NEW budget_, NEW effort, NEW max, NEW p, p = Plan(thinking, budget_, effort, max)
    PROVE  p.thinking = thinking /\ p.budget = budget_ /\ p.effort = effort /\ p.max = max
BY DEF Plan

\* A budget of thinking leaves room for the answer, or lies in the row's range.
LeavesRoom(p) == p.budget >= 1024 /\ p.budget < p.max
InRange(p, r) == (p.budget = 0 /\ r.canDisable) \/ (p.budget >= r.lo /\ p.budget <= r.hi)

\* What PlanIsAccepted says of the request s for a row r, part by part.
RequestFits(s, r, answerTool) ==
    /\ s.plan.thinking = "enabled" /\ r.mode = "budget" =>
         s.choice # "forced" /\ (s.kind # "native" => LeavesRoom(s.plan))
    /\ s.kind = "anthropic" /\ answerTool => s.plan.thinking \in {"", "disabled"}
    /\ s.kind # "native" /\ s.plan.effort # "" => s.plan.effort \in r.levels
    /\ s.kind = "gemini" /\ s.plan.thinking = "budget" => InRange(s.plan, r)

\* The canonical plan of an Anthropic model.
AnthropicFits(p) ==
    /\ p.thinking = "enabled" => model.mode = "budget" /\ LeavesRoom(p)
    /\ p.effort # "" => p.effort \in model.levels

LEMMA UnplannedFits == AnthropicFits(Unplanned)
BY DEF AnthropicFits, Unplanned, Plan

LEMMA UnthoughtFits ==
    ASSUME NEW effort, NEW max, effort # "" => effort \in model.levels
    PROVE  AnthropicFits(Plan("", 0, effort, max))
BY DEF AnthropicFits, Plan

LEMMA BudgetPlanFits ==
    ASSUME asked \in Asking, AnthropicRow(model), model.mode = "budget", NEW e \in Efforts
    PROVE  AnthropicFits(BudgetPlan(e))
<1>1. CASE e = "none"
  BY <1>1, UnplannedFits DEF BudgetPlan
<1>2. CASE e # "none"
  <2> DEFINE effort == IF model.levels = {} THEN "" ELSE ClampEffort(model.levels, e)
             b == IF asked.maxTokens # 0 /\ asked.maxTokens <= Budgets[e] THEN asked.maxTokens - 1024 ELSE Budgets[e]
             max == IF asked.maxTokens = 0 THEN Budgets[e] + DefaultMaxTokens ELSE asked.maxTokens
  <2>1. BudgetPlan(e) = IF b < 1024 THEN Plan("", 0, effort, max) ELSE Plan("enabled", b, effort, max)
    BY <1>2 DEF BudgetPlan
  <2>2. effort # "" => effort \in model.levels
    BY ClampEffortFits DEF AnthropicRow
  <2>3. asked.maxTokens \in Nat /\ Budgets[e] \in Nat
    BY <1>2 DEF Asking, Efforts, Budgets
  <2>4. b \in Int /\ b < max
    BY <2>3 DEF DefaultMaxTokens
  <2> HIDE DEF effort, b, max
  <2>5. CASE b < 1024
    <3>1. BudgetPlan(e) = Plan("", 0, effort, max)
      BY <2>1, <2>5, Zenon
    <3>2. AnthropicFits(Plan("", 0, effort, max))
      BY <2>2, UnthoughtFits
    <3> QED
      BY <3>1, <3>2, Zenon
  <2>6. CASE ~(b < 1024)
    <3>1. BudgetPlan(e) = Plan("enabled", b, effort, max)
      BY <2>1, <2>6, Zenon
    <3>2. /\ BudgetPlan(e).budget = b /\ BudgetPlan(e).max = max
          /\ BudgetPlan(e).effort = effort
      BY <3>1, PlanFields
    <3>3. LeavesRoom(BudgetPlan(e))
      BY <2>4, <2>6, <3>2 DEF LeavesRoom
    <3> QED
      BY <2>2, <3>2, <3>3 DEF AnthropicFits
  <2> QED
    BY <2>5, <2>6
<1> QED
  BY <1>1, <1>2

LEMMA AdaptivePlanFits ==
    ASSUME AnthropicRow(model), model.mode = "adaptive", NEW e \in Efforts
    PROVE  AnthropicFits(AdaptivePlan(e))
<1> DEFINE want == IF e = "none" THEN "low" ELSE e
           level == ClampEffort(model.levels, want)
           max == IF asked.maxTokens = 0 /\ Rank[level] >= Rank["high"] THEN 16000 ELSE Unplanned.max
<1>1. AdaptivePlan(e) = IF e = "none" /\ model.off # "unsupported" THEN [Unplanned EXCEPT !.thinking = model.off]
                        ELSE Plan("adaptive", 0, level, max)
  BY DEF AdaptivePlan
<1>2. level \in model.levels
  BY ClampEffortFits DEF AnthropicRow
<1> HIDE DEF level, max
<1>3. AnthropicFits(Plan("adaptive", 0, level, max))
  BY <1>2 DEF AnthropicFits, Plan
<1>4. AnthropicFits([Unplanned EXCEPT !.thinking = model.off])
  BY DEF AnthropicFits, Unplanned, Plan, AnthropicRow
<1> QED
  BY <1>1, <1>3, <1>4

LEMMA EffortPlanFits ==
    ASSUME asked \in Asking, AnthropicRow(model)
    PROVE  AnthropicFits(EffortPlan)
<1>1. CASE Reasoning = "unset" \/ model.mode = "none"
  BY <1>1, UnplannedFits DEF EffortPlan
<1>2. CASE Reasoning # "unset" /\ model.mode = "budget"
  <2>1. EffortPlan = BudgetPlan(Reasoning)
    BY <1>2 DEF EffortPlan
  <2> QED
    BY <1>2, <2>1, ReasoningKnown, BudgetPlanFits
<1>3. CASE Reasoning # "unset" /\ model.mode = "adaptive"
  <2>1. EffortPlan = AdaptivePlan(Reasoning)
    BY <1>3 DEF EffortPlan
  <2> QED
    BY <1>3, <2>1, ReasoningKnown, AdaptivePlanFits
<1> QED
  BY <1>1, <1>2, <1>3 DEF AnthropicRow

LEMMA AnthropicPlanFits ==
    ASSUME asked \in Asking, AnthropicRow(model), NEW ms
    PROVE  LET p == AnthropicPlan(ms) IN
           /\ AnthropicFits(p)
           /\ p.thinking = "enabled" => ~Forced
           /\ ToolMode => p.thinking \in {"", "disabled"}
<1> DEFINE formatted == IF ToolMode /\ EffortPlan.thinking \notin {"", "disabled"} THEN DropThinking(EffortPlan) ELSE EffortPlan
           q == IF formatted.thinking = "enabled" /\ (Forced \/ UnthoughtToolTurn(ms)) THEN DropThinking(formatted) ELSE formatted
<1>0. ASSUME NEW p, AnthropicFits(p) PROVE AnthropicFits(DropThinking(p)) /\ DropThinking(p).thinking = ""
  BY <1>0 DEF AnthropicFits, DropThinking, Plan
<1>1. AnthropicFits(EffortPlan)
  BY EffortPlanFits
<1>2. AnthropicFits(formatted) /\ (ToolMode => formatted.thinking \in {"", "disabled"})
  BY <1>0, <1>1
<1> HIDE DEF formatted
<1>3. AnthropicFits(q) /\ (q.thinking = "enabled" => ~Forced) /\ (ToolMode => q.thinking \in {"", "disabled"})
  BY <1>0, <1>2
<1>4. AnthropicPlan(ms) = q
  BY DEF AnthropicPlan, formatted
<1> QED
  BY <1>3, <1>4

LEMMA GeminiPlanFits ==
    ASSUME asked \in Asking, GeminiRow(model)
    PROVE  LET p == GeminiPlan IN
           /\ p.thinking # "enabled" /\ (p.effort # "" => p.effort \in model.levels)
           /\ p.thinking = "budget" => InRange(p, model)
<1> DEFINE e == Reasoning
           want == CASE e \in {"xhigh", "max"} -> "high" [] e = "none" -> "minimal" [] OTHER -> e
           level == PickLevel(model.levels, want)
           b == IF e \in DOMAIN GeminiBudgets THEN GeminiBudgets[e] ELSE model.hi
           clipped == IF b < model.lo THEN model.lo ELSE IF b > model.hi THEN model.hi ELSE b
           n == IF e = "none" THEN IF model.canDisable THEN 0 ELSE model.lo ELSE clipped
<1>1. CASE e = "unset"
  BY <1>1 DEF GeminiPlan, Unplanned, Plan
<1>2. CASE e # "unset" /\ model.mode = "level"
  <2>1. GeminiPlan = Plan("level", 0, level, Unplanned.max)
    BY <1>2 DEF GeminiPlan
  <2>2. level \in model.levels
    BY <1>2, PickLevelFits DEF GeminiRow
  <2> HIDE DEF level
  <2> QED
    BY <2>1, <2>2 DEF Plan
<1>3. CASE e # "unset" /\ model.mode = "budget"
  <2>1. GeminiPlan = Plan("budget", n, "", Unplanned.max)
    BY <1>3 DEF GeminiPlan
  <2>2. model.lo \in Nat /\ model.hi \in Nat /\ model.lo <= model.hi /\ b \in Int
    BY <1>3 DEF GeminiRow, GeminiBudgets
  <2> HIDE DEF b
  <2>3. (n = 0 /\ model.canDisable) \/ (n >= model.lo /\ n <= model.hi)
    BY <2>2
  <2> HIDE DEF n
  <2>4. GeminiPlan.budget = n /\ GeminiPlan.effort = "" /\ GeminiPlan.thinking = "budget"
    BY <2>1 DEF Plan
  <2>5. InRange(GeminiPlan, model)
    BY <2>3, <2>4 DEF InRange
  <2> QED
    BY <2>4, <2>5
<1> QED
  BY <1>1, <1>2, <1>3 DEF GeminiRow

LEMMA OllamaPlanFits ==
    ASSUME asked \in Asking, OllamaRow(model)
    PROVE  OllamaPlan.thinking # "enabled" /\ (OllamaPlan.effort # "" => OllamaPlan.effort \in model.levels)
<1>1. CASE Reasoning = "unset"
  BY <1>1 DEF OllamaPlan, Unplanned, Plan
<1>2. CASE Reasoning = "none"
  BY <1>2 DEF OllamaPlan, Unplanned, Plan
<1>3. CASE model.mode = "toggle" /\ Reasoning \notin {"unset", "none"}
  BY <1>3 DEF OllamaPlan, Unplanned, Plan
<1>4. CASE model.mode = "level" /\ Reasoning \notin {"unset", "none"}
  <2> DEFINE level == ClampEffort(model.levels, Reasoning)
  <2>1. OllamaPlan = Plan("level", 0, level, Unplanned.max)
    BY <1>4 DEF OllamaPlan
  <2>2. level \in model.levels
    BY <1>4, ClampEffortFits DEF OllamaRow
  <2> HIDE DEF level
  <2> QED
    BY <2>1, <2>2 DEF Plan
<1> QED
  BY <1>1, <1>2, <1>3, <1>4 DEF OllamaRow

PlanInv == asked \in Asking /\ PlanIsAccepted

LEMMA PlanInvInit == ASSUME TranslateInit PROVE PlanInv
BY AsksAssumption DEF TranslateInit, PlanInv, PlanIsAccepted, Asking

LEMMA RequestIsAccepted == PlanIsAccepted <=> (sent # NotSent => RequestFits(sent, model, ToolMode))
BY DEF PlanIsAccepted, RequestFits, LeavesRoom, InRange

\* A chat conversation for Anthropic (buildAnthropicRequest).
LEMMA AnthropicIsAccepted ==
    ASSUME asked \in Asking, AnthropicRow(model), NEW ms
    PROVE  RequestFits(ToAnthropic(ms), model, ToolMode)
<1> DEFINE p == AnthropicPlan(ms)
           s == ToAnthropic(ms)
<1>1. s.kind = "anthropic" /\ s.plan = p /\ (s.choice = "forced" => ToolMode \/ Forced)
  BY DEF ToAnthropic, Upstream
<1>2. AnthropicFits(p) /\ (p.thinking = "enabled" => ~Forced) /\ (ToolMode => p.thinking \in {"", "disabled"})
  BY AnthropicPlanFits
<1> HIDE DEF p, s
<1>3. RequestFits(s, model, ToolMode)
  BY <1>1, <1>2 DEF RequestFits, AnthropicFits
<1> QED
  BY <1>3 DEF s

\* A client's own Messages body for Anthropic (applyMessagesThinkingRules).
LEMMA NativeIsAccepted == RequestFits(Native, model, ToolMode)
<1> DEFINE held == IF StripHistory THEN DropThinkingTurns(turns) ELSE turns
           forced == Forced /\ model.forced
           off == asked.effort = "enabled" /\ model.mode = "budget" /\ (forced \/ UnthoughtToolRound(held))
           ts == IF Injected /\ asked.context = "before_last" THEN LeadLastUserTurn(held) ELSE held
           p == Plan(IF off \/ asked.effort = "unset" THEN "" ELSE asked.effort, 5000, "", asked.maxTokens)
           s == Upstream("native", ts, p, IF forced THEN "forced" ELSE "auto")
<1>1. Native = s
  BY DEF Native
<1>2. s.kind = "native" /\ s.plan = p /\ s.choice = IF forced THEN "forced" ELSE "auto"
  BY DEF Upstream
<1>3. p.thinking = IF off \/ asked.effort = "unset" THEN "" ELSE asked.effort
  BY DEF Plan
<1> HIDE DEF s, p, ts, held
<1>4. p.thinking = "enabled" /\ model.mode = "budget" => ~forced
  BY <1>3
<1> HIDE DEF forced, off
<1>5. p.thinking = "enabled" /\ model.mode = "budget" => s.choice # "forced"
  BY <1>2, <1>4
<1>6. RequestFits(s, model, ToolMode)
  BY <1>2, <1>5 DEF RequestFits
<1> QED
  BY <1>1, <1>6

\* A conversation for Gemini (buildGeminiRequest).
LEMMA GeminiIsAccepted ==
    ASSUME asked \in Asking, GeminiRow(model), NEW ms
    PROVE  RequestFits(ToGemini(ms), model, ToolMode)
<1> DEFINE s == ToGemini(ms)
<1>1. s.kind = "gemini" /\ s.plan = GeminiPlan
  BY DEF ToGemini, Upstream
<1> HIDE DEF s
<1>2. RequestFits(s, model, ToolMode)
  BY <1>1, GeminiPlanFits DEF RequestFits
<1> QED
  BY <1>2 DEF s

\* A conversation for Ollama (buildOllamaRequest).
LEMMA OllamaIsAccepted ==
    ASSUME asked \in Asking, OllamaRow(model), NEW ms
    PROVE  RequestFits(ToOllama(ms), model, ToolMode)
<1> DEFINE s == ToOllama(ms)
<1>1. s.kind = "ollama" /\ s.plan = OllamaPlan
  BY DEF ToOllama, Upstream
<1> HIDE DEF s
<1>2. RequestFits(s, model, ToolMode)
  BY <1>1, OllamaPlanFits DEF RequestFits
<1> QED
  BY <1>2 DEF s

LEMMA SendIsAccepted ==
    ASSUME asked \in Asking, Send
    PROVE  RequestFits(sent', model, ToolMode)
<1>1. AnthropicRow(model) \/ GeminiRow(model) \/ OllamaRow(model)
  <2>1. asked.model \in DOMAIN Models
    BY DEF Asking
  <2> QED
    BY <2>1, ModelRows DEF model
<1>2. /\ AnthropicRow(model) => model.kind = "anthropic"
      /\ GeminiRow(model) => model.kind = "gemini"
      /\ OllamaRow(model) => model.kind = "ollama"
  BY DEF AnthropicRow, GeminiRow, OllamaRow
<1>3. asked.front \in {"chat", "messages"}
  BY DEF Asking
<1> DEFINE ms == Inject(Chat)
<1>4. sent' = CASE model.kind = "anthropic" /\ asked.front = "messages" -> Native
                [] model.kind = "anthropic" /\ asked.front = "chat" -> ToAnthropic(ms)
                [] model.kind = "gemini" -> ToGemini(ms)
                [] OTHER -> ToOllama(ms)
  BY DEF Send
<1> HIDE DEF ms
<1>5. CASE AnthropicRow(model)
  <2>1. sent' = Native \/ sent' = ToAnthropic(ms)
    BY <1>2, <1>3, <1>4, <1>5
  <2> QED
    BY <1>5, <2>1, NativeIsAccepted, AnthropicIsAccepted
<1>6. CASE GeminiRow(model)
  <2>1. sent' = ToGemini(ms)
    BY <1>2, <1>4, <1>6
  <2> QED
    BY <1>6, <2>1, GeminiIsAccepted
<1>7. CASE OllamaRow(model)
  <2>1. sent' = ToOllama(ms)
    BY <1>2, <1>4, <1>7
  <2> QED
    BY <1>7, <2>1, OllamaIsAccepted
<1> QED
  BY <1>1, <1>5, <1>6, <1>7

LEMMA PlanInvStep ==
    ASSUME PlanInv, [TranslateNext]_trVars
    PROVE  PlanInv'
<1>1. asked' = asked
  BY DEF TranslateNext, Say, Send, trVars
<1>2. asked \in Asking /\ asked' \in Asking
  BY <1>1 DEF PlanInv
<1>3. model' = model /\ (ToolMode' <=> ToolMode)
  BY <1>1 DEF model, ToolMode
<1>4. sent' # NotSent => RequestFits(sent', model, ToolMode)
  <2>1. sent # NotSent => RequestFits(sent, model, ToolMode)
    BY RequestIsAccepted DEF PlanInv
  <2>2. CASE sent' = sent
    BY <2>1, <2>2
  <2>3. CASE Send
    BY <1>2, <2>3, SendIsAccepted
  <2> QED
    BY <2>2, <2>3 DEF TranslateNext, Say, trVars
<1>5. PlanIsAccepted'
  <2>1. sent' # NotSent => RequestFits(sent', model', ToolMode')
    BY <1>3, <1>4 DEF RequestFits
  <2>2. PlanIsAccepted' <=> (sent' # NotSent => RequestFits(sent', model', ToolMode'))
    BY DEF PlanIsAccepted, RequestFits, LeavesRoom, InRange
  <2> QED
    BY <2>1, <2>2
<1> QED
  BY <1>2, <1>5 DEF PlanInv

(* For every request (any max_tokens, every row of the model table, every   *)
(* conversation however long): the thinking an adapter asks for is one its  *)
(* provider takes.  budgetPlan and adaptivePlan (effort.go) stay under      *)
(* max_tokens and inside the model's levels, setupAnthropicThinking drops a *)
(* budget next to a forced tool, planGeminiThinking stays in range and      *)
(* planOllamaThink picks a level the model has.                             *)
THEOREM ThinkingIsTaken == TranslateSpec => []PlanIsAccepted
<1>1. TranslateInit => PlanInv
  BY PlanInvInit
<1>2. PlanInv /\ [TranslateNext]_trVars => PlanInv'
  BY PlanInvStep
<1>3. PlanInv => PlanIsAccepted
  BY DEF PlanInv
<1> QED
  BY <1>1, <1>2, <1>3, PTL DEF TranslateSpec
=============================================================================
