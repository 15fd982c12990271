-------------------------------- MODULE MCChat --------------------------------
(***************************************************************************)
(* Small instances of what one chat request goes through beside the billing *)
(* of its session: the rate limiter, the history it is sent with, and the   *)
(* answer pipeline.  The three share no variable, so a behaviour of ChatSpec *)
(* exercises one of them: part says which.                                  *)
(***************************************************************************)
EXTENDS AnswerPipeline, TLC

CONSTANTS
    basic, genius, nemotron, oss, llama,    \* tiers and models
    chat, redeem, other,                    \* keys of the rate limiter
    Keys, Limit, Window, MaxKeys, Evicted, MaxTime, MaxGranted,
    Prompts, Replies, Budget, MaxSent, Overhead, Shortest, MaxTurns

\* a tier with a fallback, a dearer tier with one model
TierModels == (basic :> <<nemotron, oss>>) @@ (genius :> <<llama>>)
TierPrice == (basic :> 1) @@ (genius :> 7)

KeyLimit == (chat :> 2) @@ (redeem :> 1) @@ (other :> 1)

\* turns in ASCII and in a script of three bytes a unit, a prompt as long as the
\* budget and one longer
Turn(r, u, b) == [role |-> r, units |-> u, bytes |-> b]
SomePrompts == {Turn("user", 1, 1), Turn("user", 4, 4), Turn("user", 2, 6), Turn("user", 9, 9)}
SomeReplies == {Turn("assistant", 1, 1), Turn("assistant", 2, 2)}

VARIABLES part, now, order, hits, granted, forgotten,
          history, snapshot, asking, truncated, restarts

limiterVars == <<now, order, hits, granted, forgotten>>
historyVars == <<history, snapshot, asking, truncated, restarts>>

Limiter == INSTANCE RateLimiter
History == INSTANCE ConversationHistory WITH crashes <- restarts

ASSUME PartsAssumption == Limiter!RateAssumption /\ History!HistoryAssumption

ChatInit == part \in {"answer", "limit", "history"} /\ Init /\ Limiter!Init /\ History!Init

ChatNext ==
    \/ part = "answer" /\ Next /\ UNCHANGED <<part, limiterVars, historyVars>>
    \/ part = "limit" /\ Limiter!Next /\ UNCHANGED <<part, vars, historyVars>>
    \/ part = "history" /\ History!Next /\ UNCHANGED <<part, vars, limiterVars>>

ChatSpec == ChatInit /\ [][ChatNext]_<<part, vars, limiterVars, historyVars>>

-----------------------------------------------------------------------------
(* Properties of the parts, stated in their modules *)

\* Every variable of the chat's parts keeps its type, the limiter's Map its size
\* (server.js:193-345).
ChatTypeOK == TypeOK /\ Limiter!TypeOK /\ History!TypeOK

\* server.js:312-321
LimitIsExact == Limiter!LimitIsExact

\* server.js:312
WithinLimit == Limiter!WithinLimit

\* server.js:195-206
LongestEndThatFits == History!LongestEndThatFits

\* server.js:519-524
WholeExchanges == History!WholeExchanges

\* server.js:193-195
AsciiFits == History!AsciiFits

\* server.js:193
BytesFit == History!BytesFit
=============================================================================
