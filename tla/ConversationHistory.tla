-------------------------- MODULE ConversationHistory --------------------------
(***************************************************************************)
(* What a chat remembers: buildMessages and the history of a session        *)
(* (src/ux-prototype/server.js).  The history rides inside the notarized    *)
(* request, which carries at most MaxSent bytes; it is cut by Budget, which *)
(* counts UTF-16 units.  A turn is its two lengths, one its role.           *)
(*                                                                          *)
(* A reply is in the snapshot before its turns are in the history, so a     *)
(* crash restores a conversation that may lack its end.                     *)
(***************************************************************************)
EXTENDS SequencesExt

CONSTANTS
    Prompts,    \* user turns, see Turn
    Replies,    \* assistant turns: at most 400 characters of the reply
    Budget,     \* HISTORY_BUDGET, 2400
    MaxSent,    \* MAX_SENT_DATA, 4096
    Overhead,   \* bytes of the request around the turns
    Shortest,   \* units of a turn without content, 28
    MaxTurns,   \* bound: turns in a history
    MaxCrashes  \* bound: bridge crashes

Turn(role) == [role : {role}, units : Nat, bytes : Nat]

\* A UTF-16 unit takes between one and three bytes of UTF-8.  Beside a full budget the
\* request has room for a comma a turn: 2400 <= 28 * (4096 - Overhead - 2400) leaves
\* 1610 bytes for all the rest of it.
HistoryAssumption ==
    /\ Prompts \subseteq Turn("user") /\ Replies \subseteq Turn("assistant")
    /\ \A t \in Prompts \union Replies :
           Shortest <= t.units /\ t.units <= t.bytes /\ t.bytes <= 3 * t.units
    /\ {Budget, MaxSent, Overhead, MaxTurns, MaxCrashes} \subseteq Nat
    /\ Shortest \in Nat \ {0}
    /\ Overhead + Budget <= MaxSent
    /\ Budget <= Shortest * (MaxSent - Overhead - Budget)

VARIABLES
    history,   \* s.history
    snapshot,  \* the history in sessions.json
    asking,    \* the turns of the request in flight, <<>> for none
    truncated, \* what its answer says was left out
    crashes

vars == <<history, snapshot, asking, truncated, crashes>>

Turns == Turn("user") \union Turn("assistant")

TypeOK ==
    /\ history \in Seq(Turns)
    /\ snapshot \in Seq(Turns)
    /\ asking \in Seq(Turns)
    /\ truncated \in BOOLEAN
    /\ crashes \in 0..MaxCrashes

Init ==
    /\ history = <<>>
    /\ snapshot = <<>>
    /\ asking = <<>>
    /\ truncated = FALSE
    /\ crashes = 0

-----------------------------------------------------------------------------

\* one turn more, from the newest back; the newest is kept whatever its length
ChecksTooLate(kept, turn) == kept.size > Budget /\ kept.messages # <<>>
TooLong(kept, turn) == kept.size + turn.units > Budget /\ kept.messages # <<>>

Keep(turn, kept) ==
    IF kept.truncated \/ TooLong(kept, turn)
    THEN [kept EXCEPT !.truncated = TRUE]
    ELSE [kept EXCEPT !.messages = <<turn>> \o @, !.size = @ + turn.units]

\* kept[i]: after the i newest turns
NothingKept == [messages |-> <<>>, size |-> 0, truncated |-> FALSE]

BuildMessages(turns) ==
    LET kept[i \in 0..Len(turns)] ==
            IF i = 0 THEN NothingKept ELSE Keep(turns[Len(turns) - i + 1], kept[i - 1])
    IN  kept[Len(turns)]

Ask(prompt) ==
    /\ asking = <<>>
    /\ Len(history) < MaxTurns
    /\ LET built == BuildMessages(Append(history, prompt))
       IN  asking' = built.messages /\ truncated' = built.truncated
    /\ UNCHANGED <<history, snapshot, crashes>>

\* the answer is charged and saved, then its two turns are remembered
PromptOnly(reply) == <<Last(asking)>>
Pair(reply) == <<Last(asking), reply>>

Remember(reply) ==
    /\ asking # <<>>
    /\ snapshot' = history
    /\ history' = history \o Pair(reply)
    /\ asking' = <<>>
    /\ UNCHANGED <<truncated, crashes>>

\* an error, a full hold, a settled session: the prompt is forgotten
Forget ==
    /\ asking # <<>>
    /\ asking' = <<>>
    /\ UNCHANGED <<history, snapshot, truncated, crashes>>

\* another session's request saves them all
Persist ==
    /\ snapshot' = history
    /\ UNCHANGED <<history, asking, truncated, crashes>>

Restored == snapshot

CrashRestart ==
    /\ crashes < MaxCrashes
    /\ crashes' = crashes + 1
    /\ history' = Restored
    /\ asking' = <<>>
    /\ UNCHANGED <<snapshot, truncated>>

Next ==
    \/ \E p \in Prompts : Ask(p)
    \/ \E r \in Replies : Remember(r)
    \/ Forget \/ Persist \/ CrashRestart

Spec == Init /\ [][Next]_vars

-----------------------------------------------------------------------------
(* Properties *)

Total(lengths) ==
    LET sum[i \in 0..Len(lengths)] == IF i = 0 THEN 0 ELSE sum[i - 1] + lengths[i]
    IN  sum[Len(lengths)]

Units(turns) == Total([i \in 1..Len(turns) |-> turns[i].units])
Bytes(turns) == Total([i \in 1..Len(turns) |-> turns[i].bytes])
EndFrom(turns, i) == SubSeq(turns, i, Len(turns))

\* What is sent is the longest end of the conversation that fits the budget, or
\* the prompt alone, and the answer says whether it is all (server.js:195-206).
LongestEndThatFits ==
    asking # <<>> =>
        LET turns == Append(history, Last(asking))
            fits == {i \in 1..Len(turns) : i = Len(turns) \/ Units(EndFrom(turns, i)) <= Budget}
            first == CHOOSE i \in fits : \A j \in fits : i <= j
        IN  asking = EndFrom(turns, first) /\ truncated = (first > 1)

\* The model is never shown half an exchange in the middle: the conversation
\* stays prompts and replies in turn, over failures and crashes, which forget
\* whole exchanges (server.js:519-524).
WholeExchanges ==
    /\ Len(history) % 2 = 0
    /\ \A i \in 1..Len(history) : history[i].role = IF i % 2 = 1 THEN "user" ELSE "assistant"

Sent(turns) == Overhead + Bytes(turns) + Len(turns)

\* A conversation in ASCII whose prompt is within the budget never outgrows the
\* notarized request (server.js:193-195).
AsciiFits ==
    (\A i \in 1..Len(asking) : asking[i].bytes = asking[i].units)
        /\ (asking # <<>> => Last(asking).units <= Budget)
    => Sent(asking) <= MaxSent

\* The same of every conversation (server.js:193: a byte budget that must stay
\* under MAX_SENT_DATA).  The code breaks it: the length it adds up counts UTF-16
\* units, and the prompt is sent whatever its length.
BytesFit == asking # <<>> => Sent(asking) <= MaxSent
=============================================================================
