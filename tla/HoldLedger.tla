----------------------------- MODULE HoldLedger -----------------------------
(***************************************************************************)
(* What the bridge promises about a hold, whatever happens to the process:  *)
(* nothing is billed before the hold is locked, what is billed never goes   *)
(* down and never exceeds the hold, and the hold is released once, paying   *)
(* the seller no more than had been billed by then.  (A reply may be billed *)
(* after the release; then nobody collects it.)                             *)
(***************************************************************************)
EXTENDS Integers

CONSTANT Sids

VARIABLES cap, hold, billed, paid

ledger == <<cap, hold, billed, paid>>

Init ==
    /\ cap = [s \in Sids |-> 0]
    /\ hold = [s \in Sids |-> "none"]
    /\ billed = [s \in Sids |-> 0]
    /\ paid = [s \in Sids |-> 0]

\* f changes at s only
ChangesAt(s, f, g) == g = [f EXCEPT ![s] = g[s]]

Quote(s) ==
    /\ hold[s] = "none" /\ cap[s] = 0
    /\ cap'[s] \in Nat
    /\ ChangesAt(s, cap, cap')
    /\ UNCHANGED <<hold, billed, paid>>

Lock(s) ==
    /\ hold[s] = "none"
    /\ hold' = [hold EXCEPT ![s] = "held"]
    /\ UNCHANGED <<cap, billed, paid>>

Bill(s) ==
    /\ hold[s] # "none"
    /\ billed'[s] \in billed[s]..cap[s]
    /\ ChangesAt(s, billed, billed')
    /\ UNCHANGED <<cap, hold, paid>>

Release(s) ==
    /\ hold[s] = "held"
    /\ hold' = [hold EXCEPT ![s] = "released"]
    /\ paid'[s] \in 0..billed[s]
    /\ ChangesAt(s, paid, paid')
    /\ UNCHANGED <<cap, billed>>

Next == \E s \in Sids : Quote(s) \/ Lock(s) \/ Bill(s) \/ Release(s)

Spec == Init /\ [][Next]_ledger
=============================================================================
