---------------------------- MODULE ProviderStream ----------------------------
(***************************************************************************)
(* One streamed call: stream_execute_prompt() of the router over           *)
(* stream_generate() of the vendors (infrastructure/providers/router.py,   *)
(* streaming.py, claude.py, gemini.py, openai_provider.py,                 *)
(* groq_provider.py, openrouter_provider.py).                              *)
(*                                                                         *)
(* Two handlers wait behind the vendor's stream: stream_generate() answers *)
(* any exception with generate(), and the router answers what that raises  *)
(* with execute_prompt() (module ProviderFailover).  A text is the         *)
(* sequence of its pieces, and a piece is named for the generation it is   *)
(* part of: two generations never give the same text.                      *)
(***************************************************************************)
EXTENDS Naturals, Sequences, SequencesExt

CONSTANTS
    Keyed,          \* providers whose health_check() passes
    Mock,           \* those of them in mock mode: no key, or asked for
    MarkFinish,     \* those that mark the chunk with the SDK's finish_reason as
                    \* final: OpenAI, Groq, OpenRouter (not Claude, Gemini)
    MAX_PIECES,     \* bound on the pieces of a streamed text (max_tokens)
    None

\* Assumed by the module that gives the constants their values.
ProviderStreamAssumption ==
    /\ Mock \subseteq Keyed /\ MarkFinish \subseteq Keyed
    /\ MAX_PIECES \in Nat
    /\ None \notin Keyed

Generations == {"native", "vendor", "rerouted"}

VARIABLES
    pc,             \* where the generators are
    provider,       \* the one selected
    accumulated,    \* the local variable of stream_generate()
    chunks          \* what the consumer has received

vars == <<pc, provider, accumulated, chunks>>

Control ==
    {"new", "native", "marked", "generate", "reroute", "ended", "failed", "closed"}

Text == UNION {[1..n -> Generations] : n \in 0..MAX_PIECES + 1}

TypeOK ==
    /\ pc \in Control
    /\ provider \in Keyed \cup {None}
    /\ accumulated \in Text
    /\ \A i \in DOMAIN chunks :
           chunks[i] \in [delta : Text, accumulated : Text, is_final : BOOLEAN]

Init ==
    /\ pc = "new"
    /\ provider = None
    /\ accumulated = <<>>
    /\ chunks = <<>>

Yield(delta, text, final) ==
    chunks' = Append(chunks, [delta |-> delta, accumulated |-> text, is_final |-> final])

\* Seeded faults (see JobEngine).
FaultAppendToStream(text, g) == Yield(<<g>>, text \o <<g>>, TRUE)
FaultStreamAgain == /\ pc \in {"native", "marked"} /\ pc' = "native"
                    /\ accumulated' = <<>>
                    /\ UNCHANGED <<provider, chunks>>

-----------------------------------------------------------------------------
\* A provider is selected as for a blocking call; without any the router raises.
SelectProvider ==
    /\ pc = "new"
    /\ IF Keyed = {}
       THEN pc' = "failed" /\ UNCHANGED provider
       ELSE \E p \in Keyed :
                /\ provider' = p
                /\ pc' = IF p \in Mock THEN "generate" ELSE "native"
    /\ UNCHANGED <<accumulated, chunks>>

\* The SDK delivers one more piece, which may be empty.
NativeChunk ==
    /\ pc = "native"
    /\ Len(chunks) < MAX_PIECES
    /\ \E delta \in {<<>>, <<"native">>} :
           /\ accumulated' = accumulated \o delta
           /\ Yield(delta, accumulated', FALSE)
    /\ UNCHANGED <<pc, provider>>

\* The last piece of an OpenAI-like SDK carries its finish_reason.
FinishChunk ==
    /\ pc = "native"
    /\ provider \in MarkFinish
    /\ Len(chunks) <= MAX_PIECES
    /\ \E delta \in {<<>>, <<"native">>} :
           /\ accumulated' = accumulated \o delta
           /\ Yield(delta, accumulated', TRUE)
    /\ pc' = "marked"
    /\ UNCHANGED provider

\* The SDK's stream is over; the final chunk has the token counts.
FinalChunk ==
    /\ pc \in {"native", "marked"}
    /\ Yield(<<>>, accumulated, TRUE)
    /\ pc' = "ended"
    /\ UNCHANGED <<provider, accumulated>>

\* The SDK raises, before the first piece or after any: generate() is next.
StreamBreaks ==
    /\ pc \in {"native", "marked"}
    /\ pc' = "generate"
    /\ UNCHANGED <<provider, accumulated, chunks>>

\* stream_from_response(): the whole answer of another generation in one chunk.
WholeResponse(text, g) == Yield(<<g>>, <<g>>, TRUE)

VendorGenerates ==
    /\ pc = "generate"
    /\ WholeResponse(accumulated, "vendor")
    /\ pc' = "ended"
    /\ UNCHANGED <<provider, accumulated>>

VendorRaises ==
    /\ pc = "generate"
    /\ provider \notin Mock
    /\ pc' = "reroute"
    /\ UNCHANGED <<provider, accumulated, chunks>>

\* execute_prompt() answers, with any provider, or raises.
Reroute ==
    /\ pc = "reroute"
    /\ \/ WholeResponse(accumulated, "rerouted") /\ pc' = "ended"
       \/ UNCHANGED chunks /\ pc' = "failed"
    /\ UNCHANGED <<provider, accumulated>>

\* The consumer closes the generator at a yield: GeneratorExit is no Exception,
\* so neither handler starts another generation.
Close ==
    /\ pc \in {"native", "marked"}
    /\ chunks # <<>>
    /\ pc' = "closed"
    /\ UNCHANGED <<provider, accumulated, chunks>>

Advance ==
    \/ SelectProvider
    \/ NativeChunk
    \/ FinishChunk
    \/ FinalChunk
    \/ StreamBreaks
    \/ VendorGenerates
    \/ VendorRaises
    \/ Reroute

Done == pc \in {"ended", "failed", "closed"} /\ UNCHANGED vars

Next == Advance \/ Close \/ Done

Spec == Init /\ [][Next]_vars

\* The consumer pulls the next chunk, and every SDK call comes back.
FairSpec == Spec /\ WF_vars(Advance)
-----------------------------------------------------------------------------
collect_stream == IF chunks = <<>> THEN <<>> ELSE Last(chunks).accumulated

\* What collect_stream() returns from a stream that ended is the text of one
\* generation, all of it, and never a mix of a broken stream and its
\* replacement; its last chunk is marked final.
CollectsOneAnswer ==
    pc = "ended" =>
        /\ chunks # <<>>
        /\ Last(chunks).is_final
        /\ collect_stream \in {accumulated, <<"vendor">>, <<"rerouted">>}
        /\ \A i, k \in DOMAIN collect_stream : collect_stream[i] = collect_stream[k]

\* The accumulated text of successive chunks only ever grows, except that it
\* may start again, once, with the whole text of another generation.
TextGrowsOrRestarts ==
    [][\/ IsPrefix(collect_stream, collect_stream')
       \/ /\ pc' = "ended"
          /\ Len(collect_stream') = 1
          /\ ~Contains(collect_stream, Head(collect_stream'))]_vars

\* A stream ends in a final chunk, in an error or by the consumer.
StreamEnds == <>(pc \in {"ended", "failed", "closed"})
=============================================================================
