--------------------------- MODULE MCBrowser_proofs ---------------------------
(***************************************************************************)
(* Theorems about the buyer's browser, for every set of notes, escrows,     *)
(* loops and tabs and every bound: those of the wallet (BuyerWallet), and   *)
(* what WalletIdentity_proofs shows of init carried over to the browser     *)
(* MCBrowser composes, where a step of one part leaves the other's          *)
(* variables alone.                                                         *)
(***************************************************************************)
EXTENDS MCBrowser, TLAPS

\* An id names one proposal.
UniqueIds == \A p, q \in proposals : p.id = q.id => p = q

\* A loop lists P2ID notes, and whatever has the id it is about to execute is a
\* proposal to consume notes.
LoopInv ==
    \A l \in Loops :
        /\ loop[l].at = "listed" => loop[l].ids \subseteq P2ID
        /\ loop[l].at = "execute" =>
               \A p \in proposals : p.id = loop[l].proposal => p.type = "consume_notes"

\* The escrow that is being funded was not funded before.
FundInv ==
    /\ \A e \in Escrows : note[e] = "none" => locked[e] = 0
    /\ fund.at # "idle" =>
           fund.escrow \in Escrows /\ note[fund.escrow] # "none" /\ locked[fund.escrow] = 0

WalletInv == TypeOK /\ UniqueIds /\ LoopInv /\ EscrowLeftAlone /\ FundInv /\ LockedOnce

NoteStates == {"none", "built", "available", "spent"}

-----------------------------------------------------------------------------
(* What a step of a loop, and a step of the funding, may do *)

\* A loop moves on and perhaps makes a proposal of P2ID notes.
LEMMA LoopMoves ==
    ASSUME WalletInv, NEW l \in Loops, NEW r \in Loop, loop' = [loop EXCEPT ![l] = r],
           r.at \in {"listed", "pushed"} => r.ids \subseteq P2ID,
           r.at = "execute" => \A p \in proposals' : p.id = r.proposal => p.type = "consume_notes",
           proposals' \subseteq Proposal,
           \A p \in proposals' : p \in proposals \/ (p.type = "consume_notes" /\ p.notes \subseteq P2ID)
    PROVE  loop' \in [Loops -> Loop] /\ LoopInv' /\ EscrowLeftAlone'
<1>1. loop \in [Loops -> Loop]
  BY DEF WalletInv, TypeOK
<1>2. loop' \in [Loops -> Loop] /\ \A k \in Loops : loop'[k] = IF k = l THEN r ELSE loop[k]
  BY <1>1
<1>3. LoopInv'
  BY <1>2 DEF WalletInv, LoopInv
<1>4. EscrowLeftAlone'
  BY <1>2 DEF WalletInv, EscrowLeftAlone
<1> QED
  BY <1>2, <1>3, <1>4

\* The loops stay and at most a proposal with an id no loop holds is added.
LEMMA LoopsStay ==
    ASSUME WalletInv, UNCHANGED loop,
           \A p \in proposals' :
               p \in proposals \/ (p.type # "consume_notes" /\ \A l \in Loops : loop[l].proposal # p.id)
    PROVE  LoopInv' /\ EscrowLeftAlone'
<1>1. LoopInv'
  BY DEF WalletInv, LoopInv
<1>2. EscrowLeftAlone'
  BY DEF WalletInv, EscrowLeftAlone
<1> QED
  BY <1>1, <1>2

\* No escrow goes back to "none".
LEMMA FundStays ==
    ASSUME WalletInv, UNCHANGED <<fund, locked>>, \A e \in Escrows : note'[e] = "none" <=> note[e] = "none"
    PROVE  FundInv' /\ LockedOnce'
BY DEF WalletInv, FundInv, LockedOnce

LEMMA NoLoopType == NoLoop \in Loop /\ NoLoop.at = "idle"
BY DEF NoLoop, Loop

LEMMA NoFundType == NoFund \in Fund /\ NoFund.at = "idle"
BY WalletAssumption DEF NoFund, Fund

LEMMA FewerIds ==
    ASSUME WalletInv, proposals' \subseteq proposals
    PROVE  UniqueIds'
BY DEF WalletInv, UniqueIds

LEMMA OneMoreId ==
    ASSUME WalletInv, NEW p, Free(p.id), proposals' = proposals \union {p}
    PROVE  UniqueIds'
BY DEF WalletInv, UniqueIds, Free

\* What is dropped at the Guardian leaves the other proposals.
LEMMA DropsSome ==
    ASSUME WalletInv, NEW i, Drops(i)
    PROVE  proposals' \subseteq proposals /\ proposals' \subseteq Proposal
BY DEF Drops, WalletInv, TypeOK

-----------------------------------------------------------------------------
(* Initially *)

LEMMA InitInv == Init => WalletInv
<1> SUFFICES ASSUME Init PROVE WalletInv
  OBVIOUS
<1>1. TypeOK
  BY NoLoopType, NoFundType, WalletAssumption DEF Init, TypeOK
<1>2. UniqueIds /\ LoopInv /\ EscrowLeftAlone
  BY NoLoopType DEF Init, UniqueIds, LoopInv, EscrowLeftAlone
<1>3. FundInv /\ LockedOnce
  BY NoFundType DEF Init, FundInv, LockedOnce
<1> QED
  BY <1>1, <1>2, <1>3 DEF WalletInv

-----------------------------------------------------------------------------
(* The chain and the Guardian *)

LEMMA StepChain ==
    ASSUME WalletInv,
           (\E n \in P2ID : Arrive(n)) \/ (\E e \in Escrows : Settle(e)) \/ DeltaGone
    PROVE  WalletInv'
<1>1. UNCHANGED <<proposals, loop, fund, locked, syncErrors, failures>>
  BY DEF Arrive, Settle, DeltaGone
<1>2. /\ note' \in [P2ID \union Escrows -> NoteStates]
      /\ \A e \in Escrows : note'[e] = "none" <=> note[e] = "none"
      /\ delta' \in {"none", "pending", "landed"}
  <2>1. note \in [P2ID \union Escrows -> NoteStates] /\ delta \in {"none", "pending", "landed"}
    BY DEF WalletInv, TypeOK, NoteStates
  <2>2. CASE \E n \in P2ID : Arrive(n)
    BY <2>1, <2>2, WalletAssumption DEF Arrive, NoteStates
  <2>3. CASE \E e \in Escrows : Settle(e)
    BY <2>1, <2>3 DEF Settle, NoteStates
  <2>4. CASE DeltaGone
    BY <2>1, <2>4 DEF DeltaGone
  <2> QED
    BY <2>2, <2>3, <2>4
<1>3. TypeOK'
  BY <1>1, <1>2 DEF WalletInv, TypeOK, NoteStates
<1>4. LoopInv' /\ EscrowLeftAlone'
  BY <1>1, LoopsStay
<1>5. FundInv' /\ LockedOnce'
  BY <1>1, <1>2, FundStays
<1>6. UniqueIds'
  BY <1>1, FewerIds
<1> QED
  BY <1>3, <1>4, <1>5, <1>6 DEF WalletInv

-----------------------------------------------------------------------------
(* Absorb loops *)

\* A step of a loop that leaves the notes alone.
LEMMA LoopStep ==
    ASSUME WalletInv, NEW l \in Loops, NEW r \in Loop, loop' = [loop EXCEPT ![l] = r],
           r.at \in {"listed", "pushed"} => r.ids \subseteq P2ID,
           r.at = "execute" => \A p \in proposals' : p.id = r.proposal => p.type = "consume_notes",
           proposals' \subseteq Proposal,
           \A p \in proposals' : p \in proposals \/ (p.type = "consume_notes" /\ p.notes \subseteq P2ID),
           UniqueIds', UNCHANGED <<note, fund, locked>>,
           delta' \in {"none", "pending", "landed"},
           syncErrors' \in 0..MaxSyncErrors, failures' \in 0..MaxFailures
    PROVE  WalletInv'
<1>1. loop' \in [Loops -> Loop] /\ LoopInv' /\ EscrowLeftAlone'
  BY LoopMoves
<1>2. TypeOK'
  BY <1>1 DEF WalletInv, TypeOK
<1>3. FundInv' /\ LockedOnce'
  BY FundStays
<1> QED
  BY <1>1, <1>2, <1>3 DEF WalletInv

LEMMA StepList ==
    ASSUME WalletInv, NEW l \in Loops, List(l)
    PROVE  WalletInv'
<1> DEFINE seen == {n \in OnlyP2ID : note[n] = "available"}
           r == [NoLoop EXCEPT !.at = "listed", !.ids = seen]
<1>1. loop' = [loop EXCEPT ![l] = r] /\ UNCHANGED <<note, proposals, delta, fund, locked, syncErrors, failures>>
  BY DEF List
<1>2. r \in Loop /\ r.at = "listed" /\ r.ids = seen /\ seen \subseteq P2ID
  BY NoLoopType DEF Loop, OnlyP2ID
<1> HIDE DEF r, seen
<1>3. /\ proposals \subseteq Proposal /\ delta \in {"none", "pending", "landed"}
      /\ syncErrors \in 0..MaxSyncErrors /\ failures \in 0..MaxFailures
  BY DEF WalletInv, TypeOK
<1>4. UniqueIds'
  BY <1>1, FewerIds
<1> QED
  BY <1>1, <1>2, <1>3, <1>4, LoopStep

LEMMA Executing ==
    ASSUME WalletInv, NEW l \in Loops, NEW i \in Ids, Executes(l, i)
    PROVE  \E r \in Loop : r.at = "execute" /\ r.proposal = i /\ loop' = [loop EXCEPT ![l] = r]
<1>1. loop \in [Loops -> Loop]
  BY DEF WalletInv, TypeOK
<1> DEFINE r == [loop[l] EXCEPT !.at = "execute", !.proposal = i]
<1>2. r \in Loop /\ r.at = "execute" /\ r.proposal = i
  BY <1>1 DEF Loop
<1>3. loop' = [loop EXCEPT ![l] = r]
  BY <1>1 DEF Executes
<1> QED
  BY <1>2, <1>3

\* The proposal that is taken up again consumes P2ID notes, whatever loop made it.
LEMMA StepResume ==
    ASSUME WalletInv, NEW l \in Loops, Resume(l)
    PROVE  WalletInv'
<1>1. PICK p \in Matching(loop[l].ids) : Executes(l, p.id)
  BY DEF Resume
<1>2. UNCHANGED <<note, proposals, delta, fund, locked, syncErrors, failures>>
  BY DEF Resume
<1>3. p \in proposals /\ p.type = "consume_notes" /\ p.id \in Ids
  BY DEF Matching, WalletInv, TypeOK, Proposal
<1>4. PICK r \in Loop : r.at = "execute" /\ r.proposal = p.id /\ loop' = [loop EXCEPT ![l] = r]
  BY <1>1, <1>3, Executing
<1>5. \A q \in proposals : q.id = r.proposal => q.type = "consume_notes"
  BY <1>3, <1>4 DEF WalletInv, UniqueIds
<1>6. /\ proposals \subseteq Proposal /\ delta \in {"none", "pending", "landed"}
      /\ syncErrors \in 0..MaxSyncErrors /\ failures \in 0..MaxFailures
  BY DEF WalletInv, TypeOK
<1>7. UniqueIds'
  BY <1>2, FewerIds
<1> QED
  BY <1>2, <1>4, <1>5, <1>6, <1>7, LoopStep

LEMMA StepPropose ==
    ASSUME WalletInv, NEW l \in Loops, Propose(l)
    PROVE  WalletInv'
<1>1. PICK i \in Ids :
          /\ NewId(i)
          /\ proposals' = proposals \union {[id |-> i, type |-> "consume_notes", notes |-> loop[l].ids]}
          /\ Executes(l, i)
  BY DEF Propose
<1> DEFINE q == [id |-> i, type |-> "consume_notes", notes |-> loop[l].ids]
<1>2. /\ loop[l].at = "listed" /\ UNCHANGED <<note, delta, fund, locked, failures>>
      /\ syncErrors' = syncErrors \/ (syncErrors < MaxSyncErrors /\ syncErrors' = syncErrors + 1)
  BY DEF Propose
<1>3. loop[l].ids \subseteq P2ID
  BY <1>2 DEF WalletInv, LoopInv
<1>4. q \in Proposal /\ q.id = i /\ q.type = "consume_notes" /\ q.notes \subseteq P2ID
  BY <1>3 DEF Proposal
<1>5. proposals' = proposals \union {q}
  BY <1>1
<1> HIDE DEF q
<1>6. Free(q.id)
  BY <1>1, <1>4 DEF NewId, Unknown
<1>7. UniqueIds'
  BY <1>5, <1>6, OneMoreId
<1>8. PICK r \in Loop : r.at = "execute" /\ r.proposal = i /\ loop' = [loop EXCEPT ![l] = r]
  BY <1>1, Executing
<1>9. \A p \in proposals' : p.id = r.proposal => p.type = "consume_notes"
  BY <1>4, <1>5, <1>6, <1>8 DEF Free
<1>10. /\ proposals' \subseteq Proposal /\ delta \in {"none", "pending", "landed"}
       /\ syncErrors' \in 0..MaxSyncErrors /\ failures \in 0..MaxFailures
  BY <1>2, <1>4, <1>5, WalletAssumption DEF WalletInv, TypeOK
<1>11. \A p \in proposals' : p \in proposals \/ (p.type = "consume_notes" /\ p.notes \subseteq P2ID)
  BY <1>4, <1>5
<1> QED
  BY <1>2, <1>7, <1>8, <1>9, <1>10, <1>11, LoopStep

\* What names a proposal is one.
LEMMA NamedProposal ==
    ASSUME WalletInv, NEW i, ~Free(i)
    PROVE  Named(i) \in proposals /\ Named(i) \in Proposal /\ Named(i).id = i
<1>1. PICK p \in proposals : p.id = i
  BY DEF Free
<1>2. Named(i) \in proposals /\ Named(i).id = i
  BY <1>1 DEF Named
<1> QED
  BY <1>2 DEF WalletInv, TypeOK

LEMMA StepExecute ==
    ASSUME WalletInv, NEW l \in Loops, Execute(l)
    PROVE  WalletInv'
<1> DEFINE p == Named(loop[l].proposal)
           r == [loop[l] EXCEPT !.at = "pushed", !.ids = p.notes]
<1>1. /\ loop[l].at = "execute" /\ ~Free(loop[l].proposal) /\ delta' = "pending"
      /\ UNCHANGED <<note, proposals, fund, locked, syncErrors, failures>>
  BY DEF Execute
<1>2. loop \in [Loops -> Loop] /\ loop[l] \in Loop
  BY DEF WalletInv, TypeOK
<1>3. p \in proposals /\ p \in Proposal /\ p.id = loop[l].proposal
  BY <1>1, NamedProposal
<1>4. p.type = "consume_notes"
  BY <1>1, <1>3 DEF WalletInv, LoopInv
<1>5. p.notes \subseteq P2ID
  BY <1>3, <1>4 DEF WalletInv, EscrowLeftAlone
<1>6. loop' = [loop EXCEPT ![l] = r]
  BY <1>2 DEF Execute
<1> HIDE DEF p
<1>7. r \in Loop /\ r.at = "pushed" /\ r.ids = p.notes
  BY <1>2, <1>5 DEF Loop
<1> HIDE DEF r
<1>8. /\ proposals \subseteq Proposal /\ syncErrors \in 0..MaxSyncErrors /\ failures \in 0..MaxFailures
  BY DEF WalletInv, TypeOK
<1>9. UniqueIds'
  BY <1>1, FewerIds
<1> QED
  BY <1>1, <1>5, <1>6, <1>7, <1>8, <1>9, LoopStep

\* The transaction of a loop consumes no escrow.
LEMMA Consumed ==
    ASSUME WalletInv, NEW l \in Loops, loop[l].at = "pushed", Consumes(l)
    PROVE  /\ note' \in [P2ID \union Escrows -> NoteStates]
           /\ \A e \in Escrows : note'[e] = note[e]
           /\ proposals' \subseteq proposals /\ proposals' \subseteq Proposal
           /\ delta' = "landed"
<1>1. loop[l].ids \subseteq P2ID
  BY DEF WalletInv, EscrowLeftAlone
<1>2. note \in [P2ID \union Escrows -> NoteStates]
  BY DEF WalletInv, TypeOK, NoteStates
<1>3. /\ note' = [n \in DOMAIN note |-> IF n \in loop[l].ids THEN "spent" ELSE note[n]]
      /\ Drops(loop[l].proposal) /\ delta' = "landed"
  BY DEF Consumes
<1>4. DOMAIN note = P2ID \union Escrows /\ "spent" \in NoteStates
  BY <1>2 DEF NoteStates
<1>5. note' \in [P2ID \union Escrows -> NoteStates]
  BY <1>2, <1>3, <1>4
<1>6. \A e \in Escrows : note'[e] = note[e]
  BY <1>1, <1>3, <1>4, WalletAssumption
<1> QED
  BY <1>3, <1>5, <1>6, DropsSome

LEMMA StepEndsLoop ==
    ASSUME WalletInv, NEW l \in Loops, Absorbed(l) \/ Refused(l) \/ LoopFails(l)
    PROVE  WalletInv'
<1>1. /\ loop' = [loop EXCEPT ![l] = NoLoop] /\ UNCHANGED <<fund, locked, syncErrors>>
      /\ \/ loop[l].at = "pushed" /\ Consumes(l)
         \/ UNCHANGED <<note, proposals, delta>>
  BY DEF Absorbed, Refused, LoopFails
<1>2. failures' \in 0..MaxFailures
  BY WalletAssumption DEF Absorbed, Refused, LoopFails, WalletInv, TypeOK
<1>3. /\ note' \in [P2ID \union Escrows -> NoteStates]
      /\ \A e \in Escrows : note'[e] = note[e]
      /\ proposals' \subseteq proposals /\ proposals' \subseteq Proposal
      /\ delta' \in {"none", "pending", "landed"}
  <2>1. CASE loop[l].at = "pushed" /\ Consumes(l)
    BY <2>1, Consumed
  <2>2. CASE UNCHANGED <<note, proposals, delta>>
    BY <2>2 DEF WalletInv, TypeOK, NoteStates
  <2> QED
    BY <1>1, <2>1, <2>2
<1>4. loop' \in [Loops -> Loop] /\ LoopInv' /\ EscrowLeftAlone'
  BY <1>1, <1>3, NoLoopType, LoopMoves
<1>5. TypeOK'
  BY <1>1, <1>2, <1>3, <1>4 DEF WalletInv, TypeOK, NoteStates
<1>6. FundInv' /\ LockedOnce'
  BY <1>1, <1>3, FundStays
<1>7. UniqueIds'
  BY <1>3, FewerIds
<1> QED
  BY <1>4, <1>5, <1>6, <1>7 DEF WalletInv

-----------------------------------------------------------------------------
(* fundEscrow *)

LEMMA StepStartFund ==
    ASSUME WalletInv, NEW e \in Escrows, StartFund(e)
    PROVE  WalletInv'
<1> DEFINE f == [NoFund EXCEPT !.at = "propose", !.escrow = e]
<1>1. /\ fund.at = "idle" /\ note[e] = "none" /\ note' = [note EXCEPT ![e] = "built"] /\ fund' = f
      /\ UNCHANGED <<proposals, delta, loop, locked, syncErrors, failures>>
  BY DEF StartFund
<1>2. f \in Fund /\ f.at = "propose" /\ f.escrow = e
  BY NoFundType DEF Fund
<1> HIDE DEF f
<1>3. /\ note' \in [P2ID \union Escrows -> NoteStates] /\ note'[e] = "built"
      /\ \A d \in Escrows : d # e => note'[d] = note[d]
  BY <1>1 DEF WalletInv, TypeOK, NoteStates
<1>4. TypeOK'
  BY <1>1, <1>2, <1>3 DEF WalletInv, TypeOK, NoteStates
<1>5. LoopInv' /\ EscrowLeftAlone'
  BY <1>1, LoopsStay
<1>6. FundInv' /\ LockedOnce'
  BY <1>1, <1>2, <1>3 DEF WalletInv, FundInv, LockedOnce
<1>7. UniqueIds'
  BY <1>1, FewerIds
<1> QED
  BY <1>4, <1>5, <1>6, <1>7 DEF WalletInv

\* The funding moves on, gives up, or tries again, and nothing is locked.
LEMMA FundMoves ==
    ASSUME WalletInv, fund.at # "idle", fund' \in Fund,
           fund'.at # "idle" => fund'.escrow = fund.escrow,
           UniqueIds', proposals' \subseteq Proposal,
           \A p \in proposals' :
               p \in proposals \/ (p.type # "consume_notes" /\ \A l \in Loops : loop[l].proposal # p.id),
           delta' \in {"none", "pending", "landed"}, failures' \in 0..MaxFailures,
           UNCHANGED <<note, loop, locked, syncErrors>>
    PROVE  WalletInv'
<1>1. TypeOK'
  BY DEF WalletInv, TypeOK
<1>2. LoopInv' /\ EscrowLeftAlone'
  BY LoopsStay
<1>3. FundInv' /\ LockedOnce'
  BY DEF WalletInv, FundInv, LockedOnce
<1> QED
  BY <1>1, <1>2, <1>3 DEF WalletInv

LEMMA StepRetry ==
    ASSUME WalletInv, Retry
    PROVE  WalletInv'
<1>1. /\ fund.at # "idle" /\ UNCHANGED <<note, proposals, delta, loop, locked, syncErrors, failures>>
      /\ fund' = IF TriesLeft THEN [fund EXCEPT !.tries = @ + 1] ELSE NoFund
  BY DEF Retry
<1>2. fund \in Fund
  BY DEF WalletInv, TypeOK
<1>3. fund' \in Fund /\ (fund'.at # "idle" => fund'.escrow = fund.escrow)
  <2>1. CASE TriesLeft
    <3>1. fund.tries + 1 \in 0..Tries
      BY <1>2, <2>1, WalletAssumption DEF TriesLeft, Fund
    <3> QED
      BY <1>1, <1>2, <2>1, <3>1 DEF Fund
  <2>2. CASE ~TriesLeft
    BY <1>1, <2>2, NoFundType
  <2> QED
    BY <2>1, <2>2
<1>4. /\ proposals \subseteq Proposal /\ delta \in {"none", "pending", "landed"} /\ failures \in 0..MaxFailures
  BY DEF WalletInv, TypeOK
<1>5. UniqueIds'
  BY <1>1, FewerIds
<1> QED
  BY <1>1, <1>3, <1>4, <1>5, FundMoves

LEMMA StepProposeEscrow ==
    ASSUME WalletInv, ProposeEscrow
    PROVE  WalletInv'
<1>1. PICK i \in Ids :
          /\ NewId(i)
          /\ proposals' = proposals \union {[id |-> i, type |-> "bartok_escrow", notes |-> {fund.escrow}]}
          /\ fund' = [fund EXCEPT !.at = "submit", !.proposal = i, !.tries = 0]
  BY DEF ProposeEscrow
<1>2. fund.at = "propose" /\ UNCHANGED <<note, delta, loop, locked, syncErrors, failures>>
  BY DEF ProposeEscrow
<1> DEFINE q == [id |-> i, type |-> "bartok_escrow", notes |-> {fund.escrow}]
<1>3. fund.escrow \in Escrows /\ fund \in Fund
  BY <1>2 DEF WalletInv, FundInv, TypeOK
<1>4. q \in Proposal /\ q.id = i /\ q.type # "consume_notes"
  BY <1>3 DEF Proposal
<1>5. proposals' = proposals \union {q}
  BY <1>1
<1> HIDE DEF q
<1>6. Free(q.id) /\ \A l \in Loops : loop[l].proposal # q.id
  BY <1>1, <1>4 DEF NewId, Unknown
<1>7. UniqueIds'
  BY <1>5, <1>6, OneMoreId
<1>8. fund' \in Fund /\ fund'.escrow = fund.escrow
  <2>1. 0 \in 0..Tries /\ i \in {0} \union Ids
    BY WalletAssumption
  <2>2. fund' = [fund EXCEPT !.at = "submit", !.proposal = i, !.tries = 0]
    BY <1>1
  <2> QED
    BY <1>3, <2>1, <2>2 DEF Fund
<1>9. /\ proposals' \subseteq Proposal /\ delta \in {"none", "pending", "landed"} /\ failures \in 0..MaxFailures
  BY <1>4, <1>5 DEF WalletInv, TypeOK
<1>10. \A p \in proposals' :
          p \in proposals \/ (p.type # "consume_notes" /\ \A l \in Loops : loop[l].proposal # p.id)
  BY <1>4, <1>5, <1>6
<1> QED
  BY <1>2, <1>7, <1>8, <1>9, <1>10, FundMoves

LEMMA StepPushEscrow ==
    ASSUME WalletInv, PushEscrow
    PROVE  WalletInv'
<1>1. /\ fund.at = "submit" /\ delta' = "pending" /\ fund' = [fund EXCEPT !.at = "pushed"]
      /\ UNCHANGED <<note, proposals, loop, locked, syncErrors, failures>>
  BY DEF PushEscrow
<1>2. fund' \in Fund /\ fund'.escrow = fund.escrow
  BY <1>1 DEF WalletInv, TypeOK, Fund
<1>3. proposals \subseteq Proposal /\ failures \in 0..MaxFailures
  BY DEF WalletInv, TypeOK
<1>4. UniqueIds'
  BY <1>1, FewerIds
<1> QED
  BY <1>1, <1>2, <1>3, <1>4, FundMoves

\* The hold is locked, whether fundEscrow sees it or gives up before.
LEMMA StepLocks ==
    ASSUME WalletInv, Locks, fund' = NoFund, failures' \in 0..MaxFailures, UNCHANGED <<loop, syncErrors>>
    PROVE  WalletInv'
<1> DEFINE e == fund.escrow
<1>1. /\ fund.at = "pushed" /\ note' = [note EXCEPT ![e] = "available"]
      /\ locked' = [locked EXCEPT ![e] = @ + 1] /\ Drops(fund.proposal) /\ delta' = "landed"
  BY DEF Locks
<1>2. e \in Escrows /\ note[e] # "none" /\ locked[e] = 0
  BY <1>1 DEF WalletInv, FundInv
<1>3. proposals' \subseteq proposals /\ proposals' \subseteq Proposal
  BY <1>1, DropsSome
<1>4. locked \in [Escrows -> Nat] /\ note \in [P2ID \union Escrows -> NoteStates]
  BY DEF WalletInv, TypeOK, NoteStates
<1>5. /\ locked' \in [Escrows -> Nat] /\ locked'[e] = 1
      /\ \A d \in Escrows : d # e => locked'[d] = locked[d]
  BY <1>1, <1>2, <1>4
<1>6. /\ note' \in [P2ID \union Escrows -> NoteStates] /\ note'[e] = "available"
      /\ \A d \in Escrows : d # e => note'[d] = note[d]
  BY <1>1, <1>2, <1>4 DEF NoteStates
<1>7. TypeOK'
  BY <1>1, <1>3, <1>5, <1>6, NoFundType DEF WalletInv, TypeOK, NoteStates
<1>8. LoopInv' /\ EscrowLeftAlone'
  BY <1>3, LoopsStay
<1>9. FundInv' /\ LockedOnce'
  BY <1>5, <1>6, NoFundType DEF WalletInv, FundInv, LockedOnce
<1>10. UniqueIds'
  BY <1>3, FewerIds
<1> QED
  BY <1>7, <1>8, <1>9, <1>10 DEF WalletInv

LEMMA StepFundEnds ==
    ASSUME WalletInv, Funded \/ FundFails
    PROVE  WalletInv'
<1>1. /\ fund' = NoFund /\ fund.at # "idle" /\ UNCHANGED <<loop, syncErrors>>
      /\ Locks \/ UNCHANGED <<note, locked, proposals, delta>>
  BY DEF Funded, FundFails, GivesUp, Locks
<1>2. failures' \in 0..MaxFailures
  BY WalletAssumption DEF Funded, FundFails, WalletInv, TypeOK
<1>3. CASE Locks
  BY <1>1, <1>2, <1>3, StepLocks
<1>4. CASE UNCHANGED <<note, locked, proposals, delta>>
  <2>1. proposals \subseteq Proposal /\ delta \in {"none", "pending", "landed"}
    BY DEF WalletInv, TypeOK
  <2>2. UniqueIds'
    BY <1>4, FewerIds
  <2> QED
    BY <1>1, <1>2, <1>4, <2>1, <2>2, NoFundType, FundMoves
<1> QED
  BY <1>1, <1>3, <1>4

-----------------------------------------------------------------------------
(* Theorems of the wallet *)

LEMMA StepInv == WalletInv /\ [Next]_vars => WalletInv'
<1> SUFFICES ASSUME WalletInv, [Next]_vars PROVE WalletInv'
  OBVIOUS
<1>1. CASE UNCHANGED vars
  BY <1>1 DEF vars, WalletInv, TypeOK, UniqueIds, LoopInv, EscrowLeftAlone, FundInv, LockedOnce
<1>2. CASE (\E n \in P2ID : Arrive(n)) \/ (\E e \in Escrows : Settle(e)) \/ DeltaGone
  BY <1>2, StepChain
<1>3. CASE \E l \in Loops : Absorb(l) \/ LoopFails(l)
  BY <1>3, StepList, StepResume, StepPropose, StepExecute, StepEndsLoop DEF Absorb
<1>4. CASE \E e \in Escrows : StartFund(e)
  BY <1>4, StepStartFund
<1>5. CASE FundStep \/ FundFails
  BY <1>5, StepRetry, StepProposeEscrow, StepPushEscrow, StepFundEnds DEF FundStep
<1> QED
  BY <1>1, <1>2, <1>3, <1>4, <1>5 DEF Next

LEMMA Invariance == Spec => []WalletInv
BY InitInv, StepInv, PTL DEF Spec

\* Every variable of the wallet stays within its type.
THEOREM Typing == Spec => []TypeOK
<1>1. WalletInv => TypeOK
  BY DEF WalletInv
<1> QED
  BY <1>1, Invariance, PTL

\* No absorb proposal and no absorb transaction ever touches the escrow of a
\* session (wallet.js:116-122).
THEOREM EscrowUntouched == Spec => []EscrowLeftAlone
<1>1. WalletInv => EscrowLeftAlone
  BY DEF WalletInv
<1> QED
  BY <1>1, Invariance, PTL

\* However often the wallet retries, an escrow is funded by one transaction
\* (wallet.js:27-41, 183).
THEOREM FundedOnce == Spec => []LockedOnce
<1>1. WalletInv => LockedOnce
  BY DEF WalletInv
<1> QED
  BY <1>1, Invariance, PTL

-----------------------------------------------------------------------------
(* The browser *)

InitProofs == INSTANCE WalletIdentity_proofs WITH
    MaxFailures <- MaxInitFailures, failures <- initFailures

\* Init of the composed browser starts as init alone does, and its steps are those of
\* init alone.
LEMMA InitStarts ==
    BrowserInit => InitProofs!IdentityAssumption /\ InitProofs!Init
BY PartsAssumption
   DEF BrowserInit, Identity!Init, InitProofs!Init, Identity!IdentityAssumption,
       InitProofs!IdentityAssumption, Identity!Closed, InitProofs!Closed

LEMMA InitSteps ==
    [BrowserNext]_browserVars => InitProofs!IdentityAssumption /\ [InitProofs!Next]_(InitProofs!vars)
<1> SUFFICES ASSUME [BrowserNext]_browserVars
             PROVE  InitProofs!IdentityAssumption /\ [InitProofs!Next]_(InitProofs!vars)
  OBVIOUS
<1>1. [Identity!Next]_initVars
  BY DEF BrowserNext, browserVars
<1>2. [InitProofs!Next]_(InitProofs!vars)
  BY <1>1 DEF initVars, InitProofs!vars,
       Identity!Next, InitProofs!Next, Identity!InitStep, InitProofs!InitStep,
       Identity!LoadSigner, InitProofs!LoadSigner, Identity!LoadAccount,
       InitProofs!LoadAccount, Identity!Recover, InitProofs!Recover,
       Identity!RecoverFails, InitProofs!RecoverFails, Identity!Create,
       InitProofs!Create, Identity!Register, InitProofs!Register, Identity!SaveAccount,
       InitProofs!SaveAccount, Identity!Use, InitProofs!Use, Identity!Fail,
       InitProofs!Fail, Identity!Reload, InitProofs!Reload, Identity!OnGuardian,
       InitProofs!OnGuardian, Identity!OfKey, InitProofs!OfKey, Identity!Recovered,
       InitProofs!Recovered, Identity!NewId, InitProofs!NewId, Identity!SavesSigner,
       InitProofs!SavesSigner, Identity!Closed, InitProofs!Closed
<1> QED
  BY <1>2, PartsAssumption DEF Identity!IdentityAssumption, InitProofs!IdentityAssumption

\* With one tab, an account the browser's user paid into stays the one it opens, under
\* a key it still has, whichever parts run (wallet.js:66-97).
THEOREM BrowserKeepsFunds ==
    ASSUME InitProofs!OneTab
    PROVE  BrowserSpec => []FundsReachable
<1>1. BrowserInit => InitProofs!IdentityInv
  BY InitStarts, InitProofs!InitIdentity
<1>2. InitProofs!IdentityInv /\ [BrowserNext]_browserVars => InitProofs!IdentityInv'
  BY InitSteps, InitProofs!StepIdentity
<1>3. InitProofs!IdentityInv => FundsReachable
  BY DEF InitProofs!IdentityInv, FundsReachable, InitProofs!FundsReachable,
         Identity!FundsReachable
<1> QED
  BY <1>1, <1>2, <1>3, PTL DEF BrowserSpec

LEMMA BrowserWallet == BrowserSpec => []WalletInv
<1>1. BrowserInit => WalletInv
  BY InitInv DEF BrowserInit
<1>2. WalletInv /\ [BrowserNext]_browserVars => WalletInv'
  <2>1. [BrowserNext]_browserVars => [Next]_vars
    BY DEF BrowserNext, browserVars
  <2> QED
    BY <2>1, StepInv
<1> QED
  BY <1>1, <1>2, PTL DEF BrowserSpec

\* Every variable of the wallet and of init keeps its type, with any number of tabs:
\* no account without an id or a key reaches the Guardian or the user
\* (wallet.js:29-186).
THEOREM BrowserTyping == BrowserSpec => []BrowserTypeOK
<1>1. BrowserInit => InitProofs!TypedInv
  BY InitStarts, InitProofs!InitTyped
<1>2. InitProofs!TypedInv /\ [BrowserNext]_browserVars => InitProofs!TypedInv'
  BY InitSteps, InitProofs!StepTyped
<1>3. WalletInv /\ InitProofs!TypedInv => BrowserTypeOK
  BY DEF WalletInv, InitProofs!TypedInv, InitProofs!TypeOK, Identity!TypeOK, BrowserTypeOK,
         InitProofs!Account, Identity!Account, InitProofs!Tab, Identity!Tab,
         InitProofs!Id, Identity!Id
<1> QED
  BY <1>1, <1>2, <1>3, BrowserWallet, PTL DEF BrowserSpec
===============================================================================
