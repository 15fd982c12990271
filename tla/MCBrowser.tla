------------------------------- MODULE MCBrowser -------------------------------
(***************************************************************************)
(* Small instances of the buyer's browser: how init finds its key and       *)
(* account (WalletIdentity), and what the wallet then does with it          *)
(* (BuyerWallet).  They share nothing but the account, so a behaviour of    *)
(* BrowserSpec exercises one of them: part says which.                      *)
(***************************************************************************)
EXTENDS BuyerWallet

CONSTANTS Tabs, MaxIds, MaxInitFailures

VARIABLES part, stored, tab, registry, used, ids, initFailures

Identity == INSTANCE WalletIdentity WITH
    MaxFailures <- MaxInitFailures, failures <- initFailures

ASSUME PartsAssumption == Identity!IdentityAssumption

initVars == <<stored, tab, registry, used, ids, initFailures>>
browserVars == <<part, vars, initVars>>

BrowserInit == part \in {"init", "wallet"} /\ Init /\ Identity!Init

BrowserNext ==
    \/ part = "wallet" /\ Next /\ UNCHANGED <<part, initVars>>
    \/ part = "init" /\ Identity!Next /\ UNCHANGED <<part, vars>>

\* the fairness of the part that runs
BrowserSpec ==
    /\ BrowserInit
    /\ [][BrowserNext]_browserVars
    /\ Fairness
    /\ \A t \in Tabs : WF_initVars(part = "init" /\ Identity!InitStep(t))

-----------------------------------------------------------------------------
(* Properties of the parts, stated in their modules *)

\* Every variable of the browser's parts keeps its type (wallet.js:29-186).
BrowserTypeOK == TypeOK /\ Identity!TypeOK

\* wallet.js:66-96
FundsReachable == Identity!FundsReachable

\* A page that runs init gets its wallet in the end: no failure leaves
\* localStorage such that every later init fails (wallet.js:78-97,
\* index.html:320-348).
WalletOpens ==
    \A t \in Tabs : part = "init" /\ tab[t].at # "ready" ~> tab[t].at = "ready"
=============================================================================
