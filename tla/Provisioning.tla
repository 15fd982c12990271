----------------------------- MODULE Provisioning -----------------------------
(***************************************************************************)
(* The set-up binaries of src/miden/integration/src/bin, run by hand and    *)
(* run again after a failure: setup_accounts writes accounts.json afresh,   *)
(* new_faucet replaces its faucet, setup_multisigs makes the multisig of    *)
(* each role, registers it on the Guardian and merges the ids.              *)
(*                                                                          *)
(* Keys, accounts and faucets are numbers given out in order.  The Guardian *)
(* (external) knows the accounts registered under a key.                    *)
(***************************************************************************)
EXTENDS Naturals, FiniteSets

CONSTANTS
    None,
    MaxIds,   \* bound: keys, accounts and faucets created
    MaxDeaths \* bound: runs of setup_multisigs that fail on the way

ASSUME ProvisioningAssumption == MaxIds \in Nat /\ MaxDeaths \in Nat /\ None \notin Nat

VARIABLES
    accounts, \* accounts.json
    signer,   \* role -> the key in guardian-accounts/<role>/signer.hex
    registry, \* accounts registered on the Guardian, with their role and key
    setup,    \* the setup_multisigs in progress
    ids,      \* numbers given out
    deaths

provVars == <<accounts, signer, registry, setup, ids, deaths>>

Roles == {"operator", "joao"}
Multisig(r) == IF r = "operator" THEN "operatorMultisig" ELSE "sellerMultisig"
Fields == {"faucet", "operatorTag", "operatorMultisig", "sellerMultisig"}
MaybeId == Nat \union {None}

Setup == [at : {"idle", "client", "recover", "register", "write"}, role : Roles,
          key : MaybeId, id : MaybeId, found : [Roles -> MaybeId]]
NoSetup == [at |-> "idle", role |-> "operator", key |-> None, id |-> None,
            found |-> [r \in Roles |-> None]]

ProvTypeOK ==
    /\ accounts \in [Fields -> MaybeId]
    /\ signer \in [Roles -> MaybeId]
    /\ registry \subseteq [role : Roles, key : Nat, id : Nat]
    /\ setup \in Setup
    /\ ids \in 0..MaxIds
    /\ deaths \in 0..MaxDeaths
    /\ accounts["operatorMultisig"] = None <=> accounts["sellerMultisig"] = None

ProvInit ==
    /\ accounts = [f \in Fields |-> None]
    /\ signer = [r \in Roles |-> None]
    /\ registry = {}
    /\ setup = NoSetup
    /\ ids = 0
    /\ deaths = 0

HasFile == accounts["faucet"] # None
GivesOut(n) == ids + n <= MaxIds /\ ids' = ids + n

-----------------------------------------------------------------------------

\* Everything the file held is dropped, the ids of the multisigs included.
SetupAccounts ==
    /\ GivesOut(2)
    /\ accounts' = [[f \in Fields |-> None] EXCEPT !["faucet"] = ids + 1, !["operatorTag"] = ids + 2]
    /\ UNCHANGED <<signer, registry, setup, deaths>>

NewFaucet ==
    /\ HasFile
    /\ GivesOut(1)
    /\ accounts' = [accounts EXCEPT !["faucet"] = ids + 1]
    /\ UNCHANGED <<signer, registry, setup, deaths>>

StartMultisigs ==
    /\ setup.at = "idle"
    /\ setup' = [NoSetup EXCEPT !.at = "client"]
    /\ UNCHANGED <<accounts, signer, registry, ids, deaths>>

\* guardian_role_client: a new key is in the file before it is used
KeepsInMemory(r, k) == UNCHANGED signer
SavesKey(r, k) == signer' = [signer EXCEPT ![r] = k]

OpenClient ==
    /\ setup.at = "client"
    /\ IF signer[setup.role] # None
       THEN /\ setup' = [setup EXCEPT !.at = "recover", !.key = signer[setup.role]]
            /\ UNCHANGED <<signer, ids>>
       ELSE /\ GivesOut(1)
            /\ SavesKey(setup.role, ids + 1)
            /\ setup' = [setup EXCEPT !.at = "recover", !.key = ids + 1]
    /\ UNCHANGED <<accounts, registry, deaths>>

\* the id of a role is known: on to the next role, or to accounts.json
After(r) == IF r = "operator" THEN "client" ELSE "write"
Found(i) ==
    setup' = [setup EXCEPT !.at = After(setup.role),
                  !.role = "joao", !.key = None, !.id = None, !.found[setup.role] = i]

Recover ==
    /\ setup.at = "recover"
    /\ \E e \in registry : e.key = setup.key /\ Found(e.id)
    /\ UNCHANGED <<accounts, signer, registry, ids, deaths>>

\* create_account makes the account in the local store only
CreateAccount ==
    /\ setup.at = "recover"
    /\ \A e \in registry : e.key # setup.key
    /\ GivesOut(1)
    /\ setup' = [setup EXCEPT !.at = "register", !.id = ids + 1]
    /\ UNCHANGED <<accounts, signer, registry, deaths>>

PushesAccount ==
    registry' = registry \union {[role |-> setup.role, key |-> setup.key, id |-> setup.id]}

Register ==
    /\ setup.at = "register"
    /\ PushesAccount
    /\ Found(setup.id)
    /\ UNCHANGED <<accounts, signer, ids, deaths>>

\* only after both roles, in one write
MergeIds ==
    /\ setup.at = "write"
    /\ HasFile
    /\ accounts' = [f \in Fields |-> IF \E r \in Roles : f = Multisig(r)
                                     THEN setup.found[CHOOSE r \in Roles : f = Multisig(r)]
                                     ELSE accounts[f]]
    /\ setup' = NoSetup
    /\ UNCHANGED <<signer, registry, ids, deaths>>

\* an error, or the operator of the machine stops it; the Guardian may have
\* registered the account all the same
SetupDies ==
    /\ setup.at # "idle"
    /\ deaths < MaxDeaths
    /\ deaths' = deaths + 1
    /\ setup' = NoSetup
    /\ \/ UNCHANGED registry
       \/ setup.at = "register" /\ PushesAccount
    /\ UNCHANGED <<accounts, signer, ids>>

ProvNext ==
    \/ SetupAccounts \/ NewFaucet
    \/ StartMultisigs \/ OpenClient \/ Recover \/ CreateAccount \/ Register \/ MergeIds
    \/ SetupDies

-----------------------------------------------------------------------------
(* Properties *)

\* A role keeps its multisig through every failed and repeated set-up, because
\* the notes already built name it as their operator or seller, and every
\* multisig accounts.json names can be pulled from the Guardian with the role's
\* saved key (setup_multisigs.rs:17-49, helpers.rs:231-245, settle_session.rs:147).
MultisigsStay ==
    /\ \A e, f \in registry : e.role = f.role => e = f
    /\ \A r \in Roles : accounts[Multisig(r)] # None =>
           [role |-> r, key |-> signer[r], id |-> accounts[Multisig(r)]] \in registry
=============================================================================
