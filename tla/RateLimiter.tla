----------------------------- MODULE RateLimiter -----------------------------
(***************************************************************************)
(* rateOk (src/ux-prototype/server.js): a sliding window of the requests    *)
(* granted to each client and bucket, kept in a Map of bounded size.  A Map *)
(* keeps its keys in the order they were first set, so what is evicted is   *)
(* the key that was seen first, not the one that was quiet longest.         *)
(***************************************************************************)
EXTENDS Naturals, Sequences, FiniteSets

CONSTANTS
    Keys,      \* client and bucket
    Limit,     \* key -> requests its bucket grants per window
    Window,    \* windowMs
    MaxKeys,   \* keys the Map holds, 5000
    Evicted,   \* keys dropped when it holds more, 1000
    MaxTime,   \* bound: the clock
    MaxGranted \* bound: requests granted to a key within a window

RateAssumption ==
    /\ Limit \in [Keys -> Nat \ {0}]
    /\ Window \in Nat \ {0}
    /\ Evicted \in Nat \ {0} /\ MaxKeys \in Nat /\ Evicted <= MaxKeys
    /\ MaxTime \in Nat /\ MaxGranted \in Nat

VARIABLES
    now,       \* Date.now()
    order,     \* the keys of rateHits, as they were inserted
    hits,      \* key -> the times in rateHits
    granted,   \* history: key -> every request granted within the last window
    forgotten  \* history: keys that were evicted

vars == <<now, order, hits, granted, forgotten>>

SeenKeys == {order[i] : i \in 1..Len(order)}

TypeOK ==
    /\ now \in 0..MaxTime
    /\ order \in Seq(Keys)
    /\ hits \in [Keys -> Seq(0..MaxTime)]
    /\ \A k \in Keys : Len(hits[k]) <= Limit[k]
    /\ granted \in [Keys -> Seq(0..MaxTime)]
    /\ forgotten \subseteq Keys
    /\ Len(order) <= MaxKeys
    /\ \A k \in Keys : hits[k] # <<>> => k \in SeenKeys

Init ==
    /\ now = 0
    /\ order = <<>>
    /\ hits = [k \in Keys |-> <<>>]
    /\ granted = [k \in Keys |-> <<>>]
    /\ forgotten = {}

\* the filter: in their order, the times within the window that ends at w; it is
\* open at its old end
After(times, w) ==
    LET kept[i \in 0..Len(times)] ==
            IF i = 0 THEN <<>>
            ELSE IF times[i] + Window > w THEN Append(kept[i - 1], times[i])
            ELSE kept[i - 1]
    IN  kept[Len(times)]

Narrower(times) == After(times, now + 1)
Recent(times) == After(times, now)

Inserted(k) == IF k \in SeenKeys THEN order ELSE Append(order, k)

Over(keys) == Len(keys) > MaxKeys
Oldest(keys) == IF Over(keys) THEN {keys[i] : i \in 1..Evicted} ELSE {}
Youngest(keys) == IF Over(keys) THEN SubSeq(keys, Evicted + 1, Len(keys)) ELSE keys

Grant(k) ==
    /\ Len(Recent(hits[k])) < Limit[k]
    /\ Len(granted[k]) < MaxGranted
    /\ LET old == Oldest(Inserted(k))
       IN  /\ hits' = [j \in Keys |-> IF j \in old THEN <<>>
                                      ELSE IF j = k THEN Append(Recent(hits[k]), now) ELSE hits[j]]
           /\ order' = Youngest(Inserted(k))
           /\ forgotten' = forgotten \union old
    /\ granted' = [granted EXCEPT ![k] = Append(@, now)]
    /\ UNCHANGED now

\* a refused request is not counted
NotCounted(times) == times

Refuse(k) ==
    /\ Len(Recent(hits[k])) >= Limit[k]
    /\ hits' = [hits EXCEPT ![k] = NotCounted(Recent(@))]
    /\ UNCHANGED <<now, order, granted, forgotten>>

Tick ==
    /\ now < MaxTime
    /\ now' = now + 1
    /\ granted' = [k \in Keys |-> After(granted[k], now + 1)]
    /\ UNCHANGED <<order, hits, forgotten>>

Next == Tick \/ \E k \in Keys : Grant(k) \/ Refuse(k)

Spec == Init /\ [][Next]_vars

-----------------------------------------------------------------------------
(* Properties *)

\* The window slides exactly: unless its key was evicted a client gets no more
\* than its limit in any window, one across two fixed ones included, and it is
\* refused only when it was granted its whole limit in the window before, so that
\* hammering a full window does not lengthen the ban (server.js:312-321).
LimitIsExact ==
    \A k \in Keys :
        /\ k \notin forgotten => Len(granted[k]) <= Limit[k]
        /\ Len(Recent(hits[k])) >= Limit[k] => Len(granted[k]) >= Limit[k]

\* The limit as it is announced (server.js:312).  The code breaks it: the first
\* keys seen are evicted first, and a client still sending starts from zero.
WithinLimit == \A k \in Keys : Len(granted[k]) <= Limit[k]
=============================================================================
