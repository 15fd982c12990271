---------------------------- MODULE BartokCredits ----------------------------
(***************************************************************************)
(* POST /api/credits/redeem (src/ux-prototype/server.js): a code is checked *)
(* against the wallet's claimed codes, fund_buyer mints the grant (minutes, *)
(* in the queue of binaries), and only then the code is claimed.            *)
(*                                                                          *)
(* The claimed codes of a wallet are a JavaScript object.  A request keeps  *)
(* the object it checked across the mint and then stores that very object,  *)
(* so its identity matters: heap[b] holds the objects of wallet b.  A       *)
(* request that finds none makes its own, named here by the request's slot; *)
(* a wallet that once has an object never makes another one, so no slot     *)
(* names two.                                                               *)
(***************************************************************************)
EXTENDS Integers, Sequences, FiniteSets

CONSTANTS
    Buyers,      \* wallet ids
    Slots,       \* slots for concurrent redeem requests
    Plain,       \* the shared code, CONFIG.discountCode
    Rungs,       \* the numbered codes are 0..Rungs-1 (100 of them in the code)
    None,
    MaxRedeems,  \* bound: redeem requests that pass the checks
    MaxCrashes   \* bound: bridge crashes

ASSUME CreditsAssumption ==
    /\ Rungs \in Nat /\ MaxRedeems \in Nat /\ MaxCrashes \in Nat
    /\ Plain \notin Int
    /\ None \notin Buyers \union Slots

VARIABLES
    heap,     \* buyer -> object -> the codes it marks as claimed
    codes,    \* buyer -> users[b].codes: an object or None
    legacy,   \* buyer -> users[b].redeemed, the flag of older records
    disk,     \* users.json: buyer -> [has : there is a codes map, codes, legacy]
    request,  \* slot -> one redeem in progress
    queue,    \* slots whose fund_buyer is queued; the head's is running
    landed,   \* the running mint is on the chain
    orphans,  \* mints whose binary outlived the bridge that spawned it
    minted,   \* buyer -> code -> grants on the chain
    risky,    \* (history) buyers for whom the check was not enough, see Redeem
    redeems, crashes

memory == <<heap, codes, legacy>>
vars == <<memory, disk, request, queue, landed, orphans, minted, risky, redeems, crashes>>

Codes == {Plain} \union 0..(Rungs - 1)
Redemption == [buyer : Buyers, code : Codes, object : Slots]
NoRequest == [buyer |-> None, code |-> Plain, object |-> None]

TypeOK ==
    /\ heap \in [Buyers -> [Slots -> SUBSET Codes]]
    /\ codes \in [Buyers -> Slots \union {None}]
    /\ legacy \in [Buyers -> BOOLEAN]
    /\ disk \in [Buyers -> [has : BOOLEAN, codes : SUBSET Codes, legacy : BOOLEAN]]
    /\ request \in [Slots -> Redemption \union {NoRequest}]
    /\ queue \in Seq(Slots)
    /\ landed \in BOOLEAN
    /\ orphans \subseteq [buyer : Buyers, code : Codes, crash : Nat]
    /\ minted \in [Buyers -> [Codes -> Nat]]
    /\ risky \subseteq Buyers
    /\ redeems \in 0..MaxRedeems
    /\ crashes \in 0..MaxCrashes

\* the codes the old boolean flag stands for
MigrateNothing(b) == {}
Migrated(b) == IF legacy[b] THEN {Plain} ELSE {}

\* what a new request finds claimed
Claimed(b) == IF codes[b] = None THEN Migrated(b) ELSE heap[b][codes[b]]

Busy(b) == {s \in Slots : request[s].buyer = b}

\* users.json as saveUsers writes it after this step
SavesTooEarly ==
    disk' = [b \in Buyers |->
        [has |-> codes[b] # None,
         codes |-> IF codes[b] = None THEN {} ELSE heap[b][codes[b]],
         legacy |-> legacy[b]]]
SaveUsers ==
    disk' = [b \in Buyers |->
        [has |-> codes'[b] # None,
         codes |-> IF codes'[b] = None THEN {} ELSE heap'[b][codes'[b]],
         legacy |-> legacy'[b]]]

\* older records: the plain code was minted and only the flag says so
Init ==
    /\ heap = [b \in Buyers |-> [o \in Slots |-> {}]]
    /\ codes = [b \in Buyers |-> None]
    /\ legacy \in [Buyers -> BOOLEAN]
    /\ disk = [b \in Buyers |-> [has |-> FALSE, codes |-> {}, legacy |-> legacy[b]]]
    /\ request = [s \in Slots |-> NoRequest]
    /\ queue = <<>>
    /\ landed = FALSE
    /\ orphans = {}
    /\ minted = [b \in Buyers |-> [c \in Codes |-> IF c = Plain /\ legacy[b] THEN 1 ELSE 0]]
    /\ risky = {}
    /\ redeems = 0
    /\ crashes = 0

-----------------------------------------------------------------------------
(* One request *)

\* the codes the pattern accepts
ValidCodes == {Plain} \union 0..(Rungs - 1)

\* numbered codes unlock in order: c is the lowest rung not claimed
NoOrder(c, claimed) == TRUE
Unlocked(c, claimed) == {i \in 0..(Rungs - 1) : c # Plain /\ i < c} \subseteq claimed

EarlyClaim(b, o, c) == heap' = [heap EXCEPT ![b][o] = Claimed(b) \union {c}]
ClaimsUndefined(b, o, c) == heap' = [heap EXCEPT ![b][o] = Claimed(b) \union {None}]
Checks(b, o, c) == heap' = [heap EXCEPT ![b][o] = Claimed(b)]

\* The checks and runMiden(), one turn.  The wallet is risky from here on if
\* another request of it is in flight for the same code, or holds another
\* object: of the two objects the later claim wins and the other is forgotten.
Redeem(s, b, c) ==
    LET o == IF codes[b] = None THEN s ELSE codes[b]
        races == \E t \in Busy(b) : request[t].code = c \/ request[t].object # o
    IN  /\ request[s] = NoRequest
        /\ redeems < MaxRedeems
        /\ c \notin Claimed(b)
        /\ Unlocked(c, Claimed(b))
        /\ Checks(b, o, c)
        /\ request' = [request EXCEPT ![s] = [buyer |-> b, code |-> c, object |-> o]]
        /\ queue' = Append(queue, s)
        /\ risky' = IF races THEN risky \union {b} ELSE risky
        /\ redeems' = redeems + 1
        /\ UNCHANGED <<codes, legacy, disk, landed, orphans, minted, crashes>>

\* fund_buyer's transaction is accepted
MintLands ==
    /\ queue # <<>>
    /\ ~landed
    /\ landed' = TRUE
    /\ LET q == request[Head(queue)] IN minted' = [minted EXCEPT ![q.buyer][q.code] = @ + 1]
    /\ UNCHANGED <<memory, disk, request, queue, orphans, risky, redeems, crashes>>

\* The request is answered and the next binary starts.
ChainBreaks(s) ==
    /\ request' = [request EXCEPT ![s] = NoRequest]
    /\ queue' = IF landed THEN Tail(queue) ELSE <<>>
    /\ landed' = FALSE
Answered(s) ==
    /\ request' = [request EXCEPT ![s] = NoRequest]
    /\ queue' = Tail(queue)
    /\ landed' = FALSE

\* exit 0 with the JSON line: claim the code in the object that was checked
MintOk ==
    /\ queue # <<>>
    /\ landed
    /\ LET s == Head(queue)
           q == request[s]
       IN  /\ heap' = [heap EXCEPT ![q.buyer][q.object] = @ \union {q.code}]
           /\ codes' = [codes EXCEPT ![q.buyer] = q.object]
           /\ legacy' = [legacy EXCEPT ![q.buyer] = FALSE]
           /\ SaveUsers
           /\ Answered(s)
    /\ UNCHANGED <<orphans, minted, risky, redeems, crashes>>

\* Exit other than 0, no JSON line, or killed at the timeout: mint_failed.  The
\* transaction may be on the chain all the same.
MintFails ==
    /\ queue # <<>>
    /\ Answered(Head(queue))
    /\ risky' = IF landed THEN risky \union {request[Head(queue)].buyer} ELSE risky
    /\ UNCHANGED <<memory, disk, orphans, minted, redeems, crashes>>

-----------------------------------------------------------------------------
(* The bridge crashes and boots from users.json *)

CrashRestart ==
    /\ crashes < MaxCrashes
    /\ crashes' = crashes + 1
    /\ codes' = [b \in Buyers |-> IF disk[b].has THEN codes[b] ELSE None]
    /\ heap' = [b \in Buyers |-> [o \in Slots |->
                   IF disk[b].has /\ o = codes[b] THEN disk[b].codes ELSE {}]]
    /\ legacy' = [b \in Buyers |-> disk[b].legacy]
    /\ request' = [s \in Slots |-> NoRequest]
    /\ queue' = <<>>
    /\ landed' = FALSE
    /\ IF queue = <<>>
       THEN UNCHANGED <<orphans, risky>>
       ELSE LET q == request[Head(queue)]
            IN  /\ risky' = risky \union {q.buyer}
                /\ orphans' = IF landed THEN orphans
                              ELSE orphans \union {[buyer |-> q.buyer, code |-> q.code, crash |-> crashes]}
    /\ UNCHANGED <<disk, minted, redeems>>

\* a binary that outlived the bridge mints after all, or exits without
OrphanExits(j) ==
    /\ orphans' = orphans \ {j}
    /\ \/ minted' = [minted EXCEPT ![j.buyer][j.code] = @ + 1]
       \/ UNCHANGED minted
    /\ UNCHANGED <<memory, disk, request, queue, landed, risky, redeems, crashes>>

Next ==
    \/ \E s \in Slots, b \in Buyers, c \in ValidCodes : Redeem(s, b, c)
    \/ MintLands
    \/ MintOk
    \/ MintFails
    \/ CrashRestart
    \/ \E j \in orphans : OrphanExits(j)

\* runMiden kills a binary at its timeout, so the running one exits
Fairness == WF_vars(MintOk \/ MintFails)

Spec == Init /\ [][Next]_vars /\ Fairness

-----------------------------------------------------------------------------
(* Properties *)

\* No wallet is marked for a grant it was never given: the claim follows the
\* mint, in memory and after a restart (server.js:660-667).
ClaimedWasMinted == \A b \in Buyers : \A c \in Claimed(b) : minted[b][c] >= 1

\* The numbered codes a wallet has claimed are always the first ones of the
\* ladder, whatever requests overlap, fail or are lost (server.js:648-658).
LadderIsPrefix ==
    \A b \in Buyers : \A i, j \in 0..(Rungs - 1) :
        i \in Claimed(b) /\ j < i => j \in Claimed(b)

\* A wallet is granted a code at most once unless two of its requests race for
\* the same code or for the first claimed-codes object, a mint that landed is
\* reported as failed, or the bridge crashes during its mint: overlapping
\* requests for different codes and the migration of old records are safe
\* (server.js:646-667).
OnceUnlessRisky == \A b \in Buyers \ risky : \A c \in Codes : minted[b][c] <= 1

\* Every redeem request is answered, whatever happens to its mint and to those
\* queued before it, or dies with the bridge (server.js:660-668).
RedeemAnswered == \A s \in Slots : request[s] # NoRequest ~> request[s] = NoRequest

\* The comment of server.js:640, "Each code is claimable ONCE per wallet".
OncePerWallet == \A b \in Buyers, c \in Codes : minted[b][c] <= 1

-----------------------------------------------------------------------------
(* The inductive invariant behind them *)

\* the queue holds requests in progress, each once
QueueInv ==
    /\ \A i \in DOMAIN queue : request[queue[i]] # NoRequest
    /\ \A i, j \in DOMAIN queue : queue[i] = queue[j] => i = j
    /\ landed => queue # <<>>

\* before the first claim each request has its own object
ObjectInv ==
    \A b \in Buyers : codes[b] = None => \A s \in Busy(b) : request[s].object = s

\* users.json is what memory holds
SavedInv ==
    \A b \in Buyers :
        /\ disk[b].has = (codes[b] # None)
        /\ codes[b] # None => disk[b].codes = heap[b][codes[b]]
        /\ disk[b].legacy = legacy[b]

\* every object holds a prefix, and what a request checked still holds
LadderInv ==
    /\ \A b \in Buyers, o \in Slots : \A i \in heap[b][o] : Unlocked(i, heap[b][o])
    /\ \A s \in Slots : \A b \in Buyers :
          request[s].buyer = b => Unlocked(request[s].code, heap[b][request[s].object])

MintedInv ==
    /\ \A b \in Buyers, o \in Slots : \A c \in heap[b][o] : minted[b][c] >= 1
    /\ \A b \in Buyers : legacy[b] => minted[b][Plain] >= 1
    /\ landed => LET q == request[Head(queue)] IN minted[q.buyer][q.code] >= 1

\* Of a wallet that is not risky, a code is granted once, and then it is claimed
\* or about to be; its requests ask for distinct codes, all against what is
\* claimed now and in one object.
OnceInv ==
    \A b \in Buyers \ risky :
        /\ \A s \in Busy(b) :
              /\ heap[b][request[s].object] = Claimed(b)
              /\ request[s].code \notin Claimed(b)
        /\ \A s, t \in Busy(b) : s # t =>
              /\ request[s].code # request[t].code
              /\ request[s].object = request[t].object
        /\ \A c \in Codes :
              /\ minted[b][c] <= 1
              /\ minted[b][c] = 1 =>
                    \/ c \in Claimed(b)
                    \/ /\ landed
                       /\ request[Head(queue)].buyer = b
                       /\ request[Head(queue)].code = c
        /\ \A j \in orphans : j.buyer # b

CreditsInv ==
    /\ QueueInv
    /\ ObjectInv
    /\ SavedInv
    /\ LadderInv
    /\ MintedInv
    /\ OnceInv
=============================================================================
