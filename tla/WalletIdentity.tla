---------------------------- MODULE WalletIdentity ----------------------------
(***************************************************************************)
(* BartokWallet.init (src/ux-prototype/src/wallet.js): which key and which  *)
(* Guardian account a browser uses.  Tabs share localStorage, a tab may be  *)
(* closed or reloaded between two steps, and the page runs init again when  *)
(* it fails.                                                                *)
(*                                                                          *)
(* Keys and accounts are numbers given out in order, 0 for none.  The       *)
(* Guardian (external) knows the accounts registered under a key.           *)
(***************************************************************************)
EXTENDS Naturals, FiniteSets

CONSTANTS
    Tabs,
    MaxIds,      \* bound: keys and accounts created
    MaxFailures  \* bound: calls that fail, tabs closed on the way

IdentityAssumption == MaxIds \in Nat /\ MaxFailures \in Nat

VARIABLES
    stored,    \* localStorage: the signer and the account
    tab,       \* the init of each tab
    registry,  \* external: accounts on the Guardian with their key
    used,      \* accounts a page showed its user, who may pay into them
    ids,
    failures

vars == <<stored, tab, registry, used, ids, failures>>

Id == 0..MaxIds
Account == [key : Id, id : Id]
Tab == [at : {"closed", "account", "create", "register", "save", "ready"},
        key : Id, id : Id]
Closed == [at |-> "closed", key |-> 0, id |-> 0]

TypeOK ==
    /\ stored \in [signer : Id, account : Id]
    /\ tab \in [Tabs -> Tab]
    /\ registry \subseteq Account
    /\ used \subseteq Account
    /\ \A e \in registry \union used : e.key # 0 /\ e.id # 0
    /\ ids \in Id
    /\ failures \in 0..MaxFailures

Init ==
    /\ stored = [signer |-> 0, account |-> 0]
    /\ tab = [t \in Tabs |-> Closed]
    /\ registry = {}
    /\ used = {}
    /\ ids = 0
    /\ failures = 0

NewId == ids < MaxIds /\ ids' = ids + 1

-----------------------------------------------------------------------------

KeepsSigner(k) == UNCHANGED stored
SavesSigner(k) == stored' = [stored EXCEPT !.signer = k]

\* the saved signer, or a new one that is saved before it is used, all in one
\* synchronous stretch
LoadSigner(t) ==
    /\ tab[t].at = "closed"
    /\ IF stored.signer # 0
       THEN /\ tab' = [tab EXCEPT ![t] = [Closed EXCEPT !.at = "account", !.key = stored.signer]]
            /\ UNCHANGED <<stored, ids>>
       ELSE /\ NewId
            /\ SavesSigner(ids + 1)
            /\ tab' = [tab EXCEPT ![t] = [Closed EXCEPT !.at = "account", !.key = ids + 1]]
    /\ UNCHANGED <<registry, used, failures>>

\* load: the saved account, with this tab's signer
LoadAccount(t) ==
    /\ tab[t].at = "account"
    /\ stored.account # 0
    /\ [key |-> tab[t].key, id |-> stored.account] \in registry
    /\ tab' = [tab EXCEPT ![t].at = "ready", ![t].id = stored.account]
    /\ UNCHANGED <<stored, registry, used, ids, failures>>

OfKey(t) == {e \in registry : e.key = tab[t].key}

Recovered(t, e) == tab' = [tab EXCEPT ![t].at = "save", ![t].id = e.id]

\* no account is saved: one recovered by the key, or a new one; a recovery that
\* fails counts as nothing found
Recover(t) ==
    /\ tab[t].at = "account"
    /\ stored.account = 0
    /\ \/ \E e \in OfKey(t) : Recovered(t, e)
       \/ OfKey(t) = {} /\ tab' = [tab EXCEPT ![t].at = "create"]
    /\ UNCHANGED <<stored, registry, used, ids, failures>>

RecoverFails(t) ==
    /\ tab[t].at = "account"
    /\ stored.account = 0
    /\ failures < MaxFailures
    /\ failures' = failures + 1
    /\ tab' = [tab EXCEPT ![t].at = "create"]
    /\ UNCHANGED <<stored, registry, used, ids>>

\* create makes the account in this browser only
Create(t) ==
    /\ tab[t].at = "create"
    /\ NewId
    /\ tab' = [tab EXCEPT ![t].at = "register", ![t].id = ids + 1]
    /\ UNCHANGED <<stored, registry, used, failures>>

StaysLocal(t) == UNCHANGED registry
OnGuardian(t) == registry' = registry \union {[key |-> tab[t].key, id |-> tab[t].id]}

Register(t) ==
    /\ tab[t].at = "register"
    /\ OnGuardian(t)
    /\ tab' = [tab EXCEPT ![t].at = "save"]
    /\ UNCHANGED <<stored, used, ids, failures>>

SaveAccount(t) ==
    /\ tab[t].at = "save"
    /\ stored' = [stored EXCEPT !.account = tab[t].id]
    /\ tab' = [tab EXCEPT ![t].at = "ready"]
    /\ UNCHANGED <<registry, used, ids, failures>>

\* init returned: the page redeems credits into this account
Use(t) ==
    /\ tab[t].at = "ready"
    /\ used' = used \union {[key |-> tab[t].key, id |-> tab[t].id]}
    /\ UNCHANGED <<stored, tab, registry, ids, failures>>

\* A call throws or the tab is closed; a registration may have been made.
Fail(t) ==
    /\ tab[t].at \notin {"closed", "ready"}
    /\ failures < MaxFailures
    /\ failures' = failures + 1
    /\ tab' = [tab EXCEPT ![t] = Closed]
    /\ UNCHANGED registry \/ (tab[t].at = "register" /\ OnGuardian(t))
    /\ UNCHANGED <<stored, used, ids>>

Reload(t) ==
    /\ tab[t].at = "ready"
    /\ tab' = [tab EXCEPT ![t] = Closed]
    /\ UNCHANGED <<stored, registry, used, ids, failures>>

InitStep(t) ==
    \/ LoadSigner(t) \/ LoadAccount(t) \/ Recover(t)
    \/ Create(t) \/ Register(t) \/ SaveAccount(t)

Next == \E t \in Tabs : InitStep(t) \/ RecoverFails(t) \/ Use(t) \/ Fail(t) \/ Reload(t)

\* an open page runs init to its end
Spec == Init /\ [][Next]_vars /\ \A t \in Tabs : WF_vars(InitStep(t))

-----------------------------------------------------------------------------
(* Properties *)

\* An account a user paid into stays the one this browser opens, under a key it
\* still has and known to the Guardian, whatever failed or was closed on the way
\* (wallet.js:66-97).  Holds while one tab at a time runs init; of two tabs of a
\* first visit both make an account, and the last write of localStorage decides
\* which one is ever opened again.
FundsReachable ==
    \A e \in used : e = [key |-> stored.signer, id |-> stored.account] /\ e \in registry
=============================================================================
