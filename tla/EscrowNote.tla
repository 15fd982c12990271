------------------------------ MODULE EscrowNote ------------------------------
(***************************************************************************)
(* The settlement note from build_escrow to the notes it pays out:          *)
(* its storage (helpers.rs), its script (contracts/settlement-note), and    *)
(* settle_session, which drives one settlement through the operator's       *)
(* Guardian: propose, prepare, submit.                                      *)
(*                                                                          *)
(* The Guardian (external) admits one pending delta per account, discards   *)
(* one whose transaction never lands, and keeps at most MaxProposals        *)
(* proposals that were not executed; nothing deletes those.                 *)
(***************************************************************************)
EXTENDS Provisioning, Integers, FiniteSetsExt

CONSTANTS
    Notes,        \* escrow notes
    Buyers,       \* wallets of buyers
    Budgets,      \* what a note may hold
    Modulus,      \* of the field the script computes in (2^64 - 2^32 + 1)
    MaxProposals, \* the Guardian's cap, 20
    MaxWedges,    \* retries that fit in the Guardian's discard window
    MaxFailures   \* bound: settlements that fail for another reason

ASSUME EscrowAssumption ==
    /\ Modulus \in Nat \ {0}
    /\ Budgets \subseteq 1..(Modulus - 1)
    /\ MaxProposals \in Nat /\ MaxWedges \in Nat /\ MaxFailures \in Nat
    /\ \A b \in Buyers : b \notin Nat

VARIABLES
    escrow,    \* the escrow notes and what their storage says
    outputs,   \* the notes their script created
    asked,     \* charges the bridge asked to settle a note with
    attempts,  \* notes others tried to consume
    settle,    \* the settle_session in progress
    delta,     \* the operator's delta at the Guardian
    wedges,    \* settlements that met this delta
    proposals, \* proposals of the operator not executed
    printed,   \* what settle_session reported
    failures

escrowVars == <<escrow, outputs, asked, attempts, settle, delta, wedges, proposals, printed, failures>>
vars == <<provVars, escrowVars>>

Felts == 0..(Modulus - 1)
Note == [state : {"none", "built", "funded", "spent"}, budget : Nat, buyer : Buyers \union {None},
         faucet : MaybeId, operator : MaybeId, seller : MaybeId]
NoNote == [state |-> "none", budget |-> 0, buyer |-> None, faucet |-> None,
           operator |-> None, seller |-> None]
Output == [from : Notes, to : Nat \union Buyers, faucet : Nat, amount : Felts]
Settlement == [at : {"idle", "client", "proposed", "pushed", "landed"}, note : Notes \union {None},
               charge : Nat, operator : MaybeId, seller : MaybeId, faucet : MaybeId]
Idle == [at |-> "idle", note |-> None, charge |-> 0, operator |-> None, seller |-> None, faucet |-> None]

TypeOK ==
    /\ ProvTypeOK
    /\ escrow \in [Notes -> Note]
    /\ \A n \in Notes : escrow[n].state # "none" =>
           {escrow[n].faucet, escrow[n].operator, escrow[n].seller} \subseteq Nat
    /\ outputs \subseteq Output
    /\ asked \in [Notes -> SUBSET Felts]
    /\ attempts \subseteq Notes
    /\ settle \in Settlement
    /\ delta \in {"none", "pending", "landed"}
    /\ wedges \in 0..MaxWedges
    /\ proposals \in 0..MaxProposals
    /\ printed \subseteq [note : Notes, files : SUBSET Output]
    /\ failures \in 0..MaxFailures

Init ==
    /\ ProvInit
    /\ escrow = [n \in Notes |-> NoNote]
    /\ outputs = {}
    /\ asked = [n \in Notes |-> {}]
    /\ attempts = {}
    /\ settle = Idle
    /\ delta = "none"
    /\ wedges = 0
    /\ proposals = 0
    /\ printed = {}
    /\ failures = 0

SomeOfIt == HasFile
Complete == \A f \in Fields : accounts[f] # None

-----------------------------------------------------------------------------
(* The note and its script *)

\* build_escrow: the storage commits to the accounts of this moment
BuildEscrow(n, b, budget) ==
    /\ escrow[n].state = "none"
    /\ Complete
    /\ escrow' = [escrow EXCEPT ![n] =
           [state |-> "built", budget |-> budget, buyer |-> b, faucet |-> accounts["faucet"],
            operator |-> accounts["operatorMultisig"], seller |-> accounts["sellerMultisig"]]]
    /\ UNCHANGED <<provVars, outputs, asked, attempts, settle, delta, wedges, proposals, printed, failures>>

\* the buyer's transaction with the note as its own output is on the chain
Fund(n) ==
    /\ escrow[n].state = "built"
    /\ escrow' = [escrow EXCEPT ![n].state = "funded"]
    /\ UNCHANGED <<provVars, outputs, asked, attempts, settle, delta, wedges, proposals, printed, failures>>

\* the two asserts of the script
AnyAccount(account, e) == TRUE
OperatorOnly(account, e) == account = e.operator
Unchecked(charge, budget) == TRUE
Exceeds(charge, budget) == budget > charge
Covers(charge, budget) == budget >= charge

Accepts(account, n, charge) ==
    /\ escrow[n].state = "funded"
    /\ OperatorOnly(account, escrow[n])
    /\ Covers(charge, escrow[n].budget)

\* the subtraction is the field's
Refund(n, charge) == (escrow[n].budget - charge) % Modulus

\* P2ID notes to the recipients in the storage, none for an amount of zero
PaysOut(n, charge) ==
    LET e == escrow[n]
    IN  {o \in {[from |-> n, to |-> e.seller, faucet |-> e.faucet, amount |-> charge],
                [from |-> n, to |-> e.buyer, faucet |-> e.faucet, amount |-> Refund(n, charge)]} :
            o.amount > 0}

Run(n, charge) ==
    /\ outputs' = outputs \union PaysOut(n, charge)
    /\ escrow' = [escrow EXCEPT ![n].state = "spent"]

\* Whoever holds the note's details may try, with any argument: the buyer's
\* wallet, or the operator through another tool with a charge above the budget.
Attempt(a, n, arg) ==
    /\ escrow[n].state = "funded"
    /\ a = escrow[n].buyer \/ (a = escrow[n].operator /\ arg > escrow[n].budget)
    /\ attempts' = attempts \union {n}
    /\ IF Accepts(a, n, arg) THEN Run(n, arg) ELSE UNCHANGED <<outputs, escrow>>
    /\ UNCHANGED <<provVars, asked, settle, delta, wedges, proposals, printed, failures>>

-----------------------------------------------------------------------------
(* settle_session *)

\* the BART asset of the note, of the faucet accounts.json names now
CarriesBart(n) == escrow[n].faucet = accounts["faucet"]

Settleable(n) ==
    /\ Complete
    /\ CarriesBart(n)
    /\ \E e \in registry : e.id = accounts["operatorMultisig"] /\ e.key = signer["operator"]

StartSettle(n, charge) ==
    /\ settle.at = "idle"
    /\ escrow[n].state = "funded"
    /\ Settleable(n)
    /\ charge <= escrow[n].budget
    /\ settle' = [at |-> "client", note |-> n, charge |-> charge, operator |-> accounts["operatorMultisig"],
                  seller |-> accounts["sellerMultisig"], faucet |-> accounts["faucet"]]
    /\ asked' = [asked EXCEPT ![n] = @ \union {charge}]
    /\ UNCHANGED <<provVars, escrow, outputs, attempts, delta, wedges, proposals, printed, failures>>

\* a fresh salt makes every try another proposal
Propose ==
    /\ settle.at = "client"
    /\ proposals < MaxProposals
    /\ proposals' = proposals + 1
    /\ settle' = [settle EXCEPT !.at = "proposed"]
    /\ UNCHANGED <<provVars, escrow, outputs, asked, attempts, delta, wedges, printed, failures>>

AtTheCap ==
    /\ settle.at = "client"
    /\ proposals = MaxProposals
    /\ settle' = Idle
    /\ UNCHANGED <<provVars, escrow, outputs, asked, attempts, delta, wedges, proposals, printed, failures>>

\* prepare_custom_execution collects the signatures; the submit begins by
\* pushing the delta
Push ==
    /\ settle.at = "proposed"
    /\ delta = "none"
    /\ delta' = "pending"
    /\ wedges' = 0
    /\ settle' = [settle EXCEPT !.at = "pushed"]
    /\ UNCHANGED <<provVars, escrow, outputs, asked, attempts, proposals, printed, failures>>

\* "non-canonical delta pending": the proposal stays
Wedged ==
    /\ settle.at = "proposed"
    /\ delta # "none"
    /\ wedges < MaxWedges
    /\ wedges' = wedges + 1
    /\ settle' = Idle
    /\ UNCHANGED <<provVars, escrow, outputs, asked, attempts, delta, proposals, printed, failures>>

\* the output notes must be the expected ones, rebuilt from accounts.json
Lands ==
    /\ settle.at = "pushed"
    /\ Accepts(settle.operator, settle.note, settle.charge)
    /\ settle.charge > 0 => settle.seller = escrow[settle.note].seller
    /\ Run(settle.note, settle.charge)
    /\ delta' = "landed"
    /\ proposals' = proposals - 1

SubmitLands ==
    /\ Lands
    /\ settle' = [settle EXCEPT !.at = "landed"]
    /\ UNCHANGED <<provVars, asked, attempts, wedges, printed, failures>>

\* the files are made from the arguments, not read from the chain
SwapsAmounts(s) ==
    {o \in {[from |-> s.note, to |-> s.seller, faucet |-> s.faucet, amount |-> escrow[s.note].budget - s.charge],
            [from |-> s.note, to |-> escrow[s.note].buyer, faucet |-> s.faucet, amount |-> s.charge]} :
        o.amount > 0}
NoteFiles(s) ==
    {o \in {[from |-> s.note, to |-> s.seller, faucet |-> s.faucet, amount |-> s.charge],
            [from |-> s.note, to |-> escrow[s.note].buyer, faucet |-> s.faucet,
             amount |-> escrow[s.note].budget - s.charge]} :
        o.amount > 0}

Report ==
    /\ settle.at = "landed"
    /\ printed' = printed \union {[note |-> settle.note, files |-> NoteFiles(settle)]}
    /\ settle' = Idle
    /\ UNCHANGED <<provVars, escrow, outputs, asked, attempts, delta, wedges, proposals, failures>>

\* An error of the Guardian, the prover or the node, or the kill at 480 s: a
\* delta that was pushed is an orphan from then on, or lands all the same.
SettleFails ==
    /\ settle.at # "idle"
    /\ failures < MaxFailures
    /\ failures' = failures + 1
    /\ settle' = Idle
    /\ Lands \/ UNCHANGED <<escrow, outputs, delta, proposals>>
    /\ UNCHANGED <<provVars, asked, attempts, wedges, printed>>

\* the Guardian sees the transaction on the chain, or gives an orphan up
DeltaGone ==
    /\ \/ delta = "landed"
       \/ delta = "pending" /\ settle.at # "pushed"
    /\ delta' = "none"
    /\ UNCHANGED <<provVars, escrow, outputs, asked, attempts, settle, wedges, proposals, printed, failures>>

SettleStep == Propose \/ AtTheCap \/ Push \/ Wedged \/ SubmitLands \/ Report

Next ==
    \/ ProvNext /\ UNCHANGED escrowVars
    \/ \E n \in Notes, b \in Buyers, v \in Budgets : BuildEscrow(n, b, v)
    \/ \E n \in Notes : Fund(n)
    \/ \E n \in Notes, a \in Buyers \union {accounts["operatorMultisig"]}, c \in Felts : Attempt(a, n, c)
    \/ \E n \in Notes, c \in Felts : StartSettle(n, c)
    \/ SettleStep
    \/ SettleFails
    \/ DeltaGone

Retries(n) == \E c \in Felts : StartSettle(n, c)

\* the bridge and its sweeper try every funded note again, a settlement that
\* does not fail goes on, and the Guardian's worker looks at every delta
Fairness ==
    /\ \A n \in Notes : SF_vars(Retries(n))
    /\ WF_vars(SettleStep)
    /\ WF_vars(DeltaGone)

Spec == Init /\ [][Next]_vars /\ Fairness

-----------------------------------------------------------------------------
(* Properties *)

Paid(n, to) == {o \in outputs : o.from = n /\ o.to = to}

\* The budget of a spent note went, whole and once, to the seller and the buyer
\* its storage names, at a charge the bridge asked for: nobody but the operator
\* chose it, and the field's subtraction never wrapped (lib.rs:53-104).
BudgetIsSplit ==
    \A n \in Notes : escrow[n].state = "spent" =>
        \E c \in asked[n] \intersect (0..escrow[n].budget) :
            /\ \A o \in outputs : o.from = n => o.to \in {escrow[n].seller, escrow[n].buyer}
            /\ Paid(n, escrow[n].seller) =
                 {o \in Paid(n, escrow[n].seller) : o.amount = c /\ o.faucet = escrow[n].faucet}
            /\ Paid(n, escrow[n].buyer) =
                 {o \in Paid(n, escrow[n].buyer) : o.amount = escrow[n].budget - c}
            /\ c > 0 <=> Paid(n, escrow[n].seller) # {}
            /\ c < escrow[n].budget <=> Paid(n, escrow[n].buyer) # {}

\* What the ledger of a hold sees of a note: what was asked for is what was billed.
Quoted(n) == IF escrow[n].state = "none" THEN 0 ELSE escrow[n].budget
HoldOf(n) ==
    IF escrow[n].state = "spent" THEN "released"
    ELSE IF escrow[n].state = "funded" THEN "held" ELSE "none"
Highest(amounts) == Max(amounts \union {0})

Ledger == INSTANCE HoldLedger WITH
    Sids   <- Notes,
    cap    <- [n \in Notes |-> Quoted(n)],
    hold   <- [n \in Notes |-> HoldOf(n)],
    billed <- [n \in Notes |-> Highest(asked[n])],
    paid   <- [n \in Notes |-> Highest({o.amount : o \in Paid(n, escrow[n].seller)})]

\* The note and its settlement keep the promise the bridge makes about a hold,
\* step by step: locked before anything is asked of it, released once, and paying
\* no more than was asked, within the budget, over wedges, failures that land all
\* the same, reruns of the set-up and attempts of others (server.js:565-592,
\* settle_session.rs:34-199, lib.rs:53-104).
ImplementsLedger == Ledger!Spec

\* The note files settle_session hands to the bridge are those of the notes on
\* the chain: a file of a note that does not exist collects nothing
\* (settle_session.rs:168-199).
FilesAreOnChain ==
    \A p \in printed : p.files = {o \in outputs : o.from = p.note}

\* A funded note is settled in the end, whatever fails on the way, as the bridge
\* and its sweeper retry, unless the proposals of failed settlements have filled
\* the Guardian's cap or the faucet the note was funded from was replaced
\* (server.js:565-592, settle_session.rs:34-166).
FundedIsSettled ==
    \A n \in Notes : escrow[n].state = "funded" ~>
        escrow[n].state = "spent" \/ proposals = MaxProposals \/ ~CarriesBart(n)

\* The same without the exceptions.  The code breaks it where failed settlements
\* have left as many proposals as the Guardian keeps (settle_session.rs:115-129).
StillSettles ==
    \A n \in Notes : escrow[n].state = "funded" ~> escrow[n].state = "spent"

\* A funded note can be settled once accounts.json is complete.  The code breaks
\* it where new_faucet ran since the note was built (settle_session.rs:70-77).
HoldIsSettleable ==
    \A n \in Notes : escrow[n].state = "funded" /\ Complete => Settleable(n)
=============================================================================
