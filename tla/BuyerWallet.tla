------------------------------ MODULE BuyerWallet ------------------------------
(***************************************************************************)
(* The buyer's wallet (src/ux-prototype/src/wallet.js): its account is a    *)
(* Guardian multisig, so consuming notes (absorbNotes) and funding an       *)
(* escrow (fundEscrow) are proposals the Guardian countersigns.  Several    *)
(* absorb loops and a funding run side by side in a page.                   *)
(*                                                                          *)
(* The Guardian (external) refuses a second delta while one is pending,     *)
(* discards an orphan after a while, keeps at most MaxProposals proposals   *)
(* that were not executed, and drops one when its transaction lands.        *)
(***************************************************************************)
EXTENDS Naturals, FiniteSets

CONSTANTS
    P2ID,          \* notes paid to the wallet: mints and refunds
    Escrows,       \* escrow notes the wallet funds
    Loops,         \* absorb loops: the sweep of a visit, a redeem, a refund
    None,
    Tries,         \* retries of withPendingRetry, 20
    MaxProposals,  \* the Guardian's cap, 20
    MaxSyncErrors, \* bound: syncProposals that fail
    MaxFailures    \* bound: steps that fail for another reason

ASSUME WalletAssumption ==
    /\ P2ID \intersect Escrows = {}
    /\ None \notin Escrows /\ IsFiniteSet(Loops)
    /\ Tries \in Nat /\ MaxProposals \in Nat /\ MaxSyncErrors \in Nat /\ MaxFailures \in Nat

VARIABLES
    note,       \* the notes as the chain and the client's store have them
    proposals,  \* at the Guardian, not executed
    delta,      \* the account's delta at the Guardian
    loop,       \* the absorb loops
    fund,       \* the fundEscrow in progress
    locked,     \* transactions that funded an escrow
    syncErrors,
    failures

vars == <<note, proposals, delta, loop, fund, locked, syncErrors, failures>>

\* an id of a proposal that is gone is given out again once nobody holds it
Ids == 1..(MaxProposals + Cardinality(Loops) + 1)
Proposal == [id : Ids, type : {"consume_notes", "bartok_escrow"}, notes : SUBSET (P2ID \union Escrows)]

Loop == [at : {"idle", "listed", "execute", "pushed"}, ids : SUBSET (P2ID \union Escrows), proposal : {0} \union Ids]
NoLoop == [at |-> "idle", ids |-> {}, proposal |-> 0]
Fund == [at : {"idle", "propose", "submit", "pushed"}, escrow : Escrows \union {None},
         tries : 0..Tries, proposal : {0} \union Ids]
NoFund == [at |-> "idle", escrow |-> None, tries |-> 0, proposal |-> 0]

TypeOK ==
    /\ note \in [P2ID \union Escrows -> {"none", "built", "available", "spent"}]
    /\ proposals \subseteq Proposal
    /\ delta \in {"none", "pending", "landed"}
    /\ loop \in [Loops -> Loop]
    /\ fund \in Fund
    /\ locked \in [Escrows -> Nat]
    /\ syncErrors \in 0..MaxSyncErrors
    /\ failures \in 0..MaxFailures

Init ==
    /\ note = [n \in P2ID \union Escrows |-> "none"]
    /\ proposals = {}
    /\ delta = "none"
    /\ loop = [l \in Loops |-> NoLoop]
    /\ fund = NoFund
    /\ locked = [e \in Escrows |-> 0]
    /\ syncErrors = 0
    /\ failures = 0

Free(i) == \A p \in proposals : p.id # i
Unknown(i) == Free(i) /\ fund.proposal # i /\ \A l \in Loops : loop[l].proposal # i
NewId(i) == Unknown(i) /\ \A j \in 1..(i - 1) : ~Unknown(j)
Full == Cardinality(proposals) >= MaxProposals
Named(i) == CHOOSE p \in proposals : p.id = i
Drops(i) == proposals' = {p \in proposals : p.id # i}

\* nothing is admitted beside a pending delta: "conflict_pending_delta"
Conflict == delta # "none"

-----------------------------------------------------------------------------
(* External: the chain and the Guardian *)

\* a mint or a refund is on the chain and the client's sync or import has it
Arrive(n) ==
    /\ note[n] = "none"
    /\ note' = [note EXCEPT ![n] = "available"]
    /\ UNCHANGED <<proposals, delta, loop, fund, locked, syncErrors, failures>>

\* the operator settles the session
Settle(e) ==
    /\ note[e] = "available"
    /\ note' = [note EXCEPT ![e] = "spent"]
    /\ UNCHANGED <<proposals, delta, loop, fund, locked, syncErrors, failures>>

Submitting == fund.at = "pushed" \/ \E l \in Loops : loop[l].at = "pushed"

DeltaGone ==
    /\ delta = "landed" \/ (delta = "pending" /\ ~Submitting)
    /\ delta' = "none"
    /\ UNCHANGED <<note, proposals, loop, fund, locked, syncErrors, failures>>

-----------------------------------------------------------------------------
(* absorbNotes, again and again: waitAndAbsorb and the sweep of every visit *)

\* listAvailable also returns the escrows this account created
EveryNote == P2ID \union Escrows
OnlyP2ID == P2ID

List(l) ==
    /\ loop[l].at = "idle"
    /\ LET ids == {n \in OnlyP2ID : note[n] = "available"}
       IN  ids # {} /\ loop' = [loop EXCEPT ![l] = [NoLoop EXCEPT !.at = "listed", !.ids = ids]]
    /\ UNCHANGED <<note, proposals, delta, fund, locked, syncErrors, failures>>

Matching(ids) == {p \in proposals : p.type = "consume_notes" /\ p.notes \intersect ids # {}}

OnlyProposes(l, i) == loop' = [loop EXCEPT ![l] = NoLoop]
Executes(l, i) == loop' = [loop EXCEPT ![l] = [@ EXCEPT !.at = "execute", !.proposal = i]]

Resume(l) ==
    /\ loop[l].at = "listed"
    /\ \E p \in Matching(loop[l].ids) : Executes(l, p.id)
    /\ UNCHANGED <<note, proposals, delta, fund, locked, syncErrors, failures>>

\* no proposal matches, or the Guardian could not be asked: .catch(() => [])
Propose(l) ==
    /\ loop[l].at = "listed"
    /\ \/ Matching(loop[l].ids) = {} /\ UNCHANGED syncErrors
       \/ syncErrors < MaxSyncErrors /\ syncErrors' = syncErrors + 1
    /\ ~Conflict /\ ~Full
    /\ \E i \in Ids :
           /\ NewId(i)
           /\ proposals' = proposals \union {[id |-> i, type |-> "consume_notes", notes |-> loop[l].ids]}
           /\ Executes(l, i)
    /\ UNCHANGED <<note, delta, fund, locked, failures>>

\* executeProposal pushes the delta before it proves anything
Execute(l) ==
    /\ loop[l].at = "execute"
    /\ ~Conflict
    /\ ~Free(loop[l].proposal)
    /\ delta' = "pending"
    /\ loop' = [loop EXCEPT ![l] =
                    [@ EXCEPT !.at = "pushed", !.ids = Named(loop[l].proposal).notes]]
    /\ UNCHANGED <<note, proposals, fund, locked, syncErrors, failures>>

Unspent(ids) == \A n \in ids : note[n] = "available"
Consumes(l) ==
    /\ Unspent(loop[l].ids)
    /\ note' = [n \in DOMAIN note |-> IF n \in loop[l].ids THEN "spent" ELSE note[n]]
    /\ Drops(loop[l].proposal)
    /\ delta' = "landed"

Absorbed(l) ==
    /\ loop[l].at = "pushed"
    /\ Consumes(l)
    /\ loop' = [loop EXCEPT ![l] = NoLoop]
    /\ UNCHANGED <<fund, locked, syncErrors, failures>>

\* Refused by the Guardian (a pending delta, the cap, a proposal that is gone)
\* or by the chain (a note that is spent): absorbNotes throws, the loop goes on,
\* and the proposal stays.
Refused(l) ==
    /\ \/ loop[l].at \in {"listed", "execute"} /\ Conflict
       \/ loop[l].at = "listed" /\ Full
       \/ loop[l].at = "execute" /\ Free(loop[l].proposal)
       \/ loop[l].at = "pushed" /\ ~Unspent(loop[l].ids)
    /\ loop' = [loop EXCEPT ![l] = NoLoop]
    /\ UNCHANGED <<note, proposals, delta, fund, locked, syncErrors, failures>>

\* an error, or the tab is closed; what was submitted may land all the same
LoopFails(l) ==
    /\ loop[l].at # "idle"
    /\ failures < MaxFailures
    /\ failures' = failures + 1
    /\ loop' = [loop EXCEPT ![l] = NoLoop]
    /\ (loop[l].at = "pushed" /\ Consumes(l)) \/ UNCHANGED <<note, proposals, delta>>
    /\ UNCHANGED <<fund, locked, syncErrors>>

-----------------------------------------------------------------------------
(* fundEscrow *)

\* every session comes with an escrow template of its own
StartFund(e) ==
    /\ fund.at = "idle"
    /\ note[e] = "none"
    /\ note' = [note EXCEPT ![e] = "built"]
    /\ fund' = [NoFund EXCEPT !.at = "propose", !.escrow = e]
    /\ UNCHANGED <<proposals, delta, loop, locked, syncErrors, failures>>

\* withPendingRetry: the conflict, and nothing else, is tried again
SubmitAgain == IF fund.at = "pushed" THEN [fund EXCEPT !.at = "submit"] ELSE NoFund
GivesUp == NoFund

OneMore == fund.tries <= Tries
TriesLeft == fund.tries < Tries

Retry ==
    /\ fund.at \in {"propose", "submit"}
    /\ Conflict
    /\ fund' = IF TriesLeft THEN [fund EXCEPT !.tries = @ + 1] ELSE NoFund
    /\ UNCHANGED <<note, proposals, delta, loop, locked, syncErrors, failures>>

ProposeEscrow ==
    /\ fund.at = "propose"
    /\ ~Conflict /\ ~Full
    /\ \E i \in Ids :
           /\ NewId(i)
           /\ proposals' = proposals \union {[id |-> i, type |-> "bartok_escrow", notes |-> {fund.escrow}]}
           /\ fund' = [fund EXCEPT !.at = "submit", !.proposal = i, !.tries = 0]
    /\ UNCHANGED <<note, delta, loop, locked, syncErrors, failures>>

PushEscrow ==
    /\ fund.at = "submit"
    /\ ~Conflict
    /\ delta' = "pending"
    /\ fund' = [fund EXCEPT !.at = "pushed"]
    /\ UNCHANGED <<note, proposals, loop, locked, syncErrors, failures>>

Locks ==
    /\ fund.at = "pushed"
    /\ note' = [note EXCEPT ![fund.escrow] = "available"]
    /\ locked' = [locked EXCEPT ![fund.escrow] = @ + 1]
    /\ Drops(fund.proposal)
    /\ delta' = "landed"

Funded ==
    /\ Locks
    /\ fund' = NoFund
    /\ UNCHANGED <<loop, syncErrors, failures>>

\* the cap, or an error; a submit that throws may have landed
FundFails ==
    /\ fund.at # "idle"
    /\ \/ fund.at = "propose" /\ ~Conflict /\ Full /\ UNCHANGED failures
       \/ failures < MaxFailures /\ failures' = failures + 1
    /\ fund' = GivesUp
    /\ Locks \/ UNCHANGED <<note, locked, proposals, delta>>
    /\ UNCHANGED <<loop, syncErrors>>

Absorb(l) == List(l) \/ Resume(l) \/ Propose(l) \/ Execute(l) \/ Absorbed(l) \/ Refused(l)
FundStep == Retry \/ ProposeEscrow \/ PushEscrow \/ Funded

Next ==
    \/ \E n \in P2ID : Arrive(n)
    \/ \E e \in Escrows : Settle(e) \/ StartFund(e)
    \/ DeltaGone
    \/ \E l \in Loops : Absorb(l) \/ LoopFails(l)
    \/ FundStep \/ FundFails

\* the Guardian's worker looks at every delta; a loop polls on, visit after visit
Fairness ==
    /\ WF_vars(DeltaGone)
    /\ WF_vars(FundStep)
    /\ \A l \in Loops : WF_vars(Absorb(l))

Spec == Init /\ [][Next]_vars /\ Fairness

-----------------------------------------------------------------------------
(* Properties *)

\* No absorb proposal ever names the escrow of a live session, and no absorb
\* pushes a delta that would consume it, though the client lists it as available
\* all along and the wallet's proposals come and go (wallet.js:116-122).
EscrowLeftAlone ==
    /\ \A p \in proposals : p.type = "consume_notes" => p.notes \subseteq P2ID
    /\ \A l \in Loops : loop[l].at = "pushed" => loop[l].ids \subseteq P2ID

\* However often the wallet retries, an escrow is funded by one transaction: a
\* submit that threw may have landed and is not repeated (wallet.js:27-41, 183).
LockedOnce == \A e \in Escrows : locked[e] <= 1

\* Every note is consumed in the end, whatever the other loop and a funding do,
\* unless proposals nobody executes fill the cap, or the note is in a proposal with
\* one that is already spent: resume-first takes that proposal up for ever
\* (wallet.js:116-148).
Mixed(n) ==
    \E p \in proposals : n \in p.notes /\ \E m \in p.notes : note[m] = "spent"

NotesAbsorbed ==
    \A n \in P2ID : note[n] = "available" ~> note[n] = "spent" \/ Mixed(n) \/ Full

\* The same without an exception (wallet.js:116: consume every available note).
\* The code breaks it where two loops made overlapping proposals.
AllNotesAbsorbed == \A n \in P2ID : note[n] = "available" ~> note[n] = "spent"
=============================================================================
