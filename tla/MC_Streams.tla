------------------------------ MODULE MC_Streams ------------------------------
(* The streams of the instances of Streams, for TLC.                       *)
EXTENDS Streams

\* Long enough for two blocks of an Anthropic stream, three chunks of the others.
EventsOf ==
    [k \in Kinds |-> CASE k = "anthropic" -> 9 [] k \in {"openai", "azure"} -> 5 [] OTHER -> 3]

\* Wrapped answers with a brace of their own, space behind them, or nothing in
\* them, and answers that are not wrapped.
Wrapped(tokens) == [wrapped |-> TRUE, tokens |-> tokens]
Unwrapped(tokens) == [wrapped |-> FALSE, tokens |-> tokens]
AnswerInputs ==
    {Wrapped(<<"{", "value:", "x", "}">>), Wrapped(<<"{", "value:", "{", "x", "}", " ", "}">>),
     Wrapped(<<"{", "value:", "x", "}", " ">>), Wrapped(<<"{", "}">>), Wrapped(<<>>),
     Unwrapped(<<"{", "x", "}">>), Unwrapped(<<"{", "}">>)}
===============================================================================
