-------------------------- MODULE EscrowNote_proofs --------------------------
(***************************************************************************)
(* Theorems about EscrowNote and the Provisioning it extends, for every set *)
(* of notes and buyers, every modulus, and every bound.                     *)
(***************************************************************************)
EXTENDS EscrowNote, WellFoundedInduction, TLAPS

-----------------------------------------------------------------------------
(* The accounts of the roles *)

Entry(r, i) == [role |-> r, key |-> signer[r], id |-> i]

\* A role's key is made once and is its own; what is registered, found or named is
\* registered under it; a role that is being registered is not there yet.
RolesInv ==
    /\ \A r \in Roles : signer[r] # None => signer[r] \in 1..ids
    /\ signer["operator"] # None => signer["operator"] # signer["joao"]
    /\ \A e \in registry : e.role \in Roles /\ signer[e.role] # None /\ e = Entry(e.role, e.id)
    /\ \A e, f \in registry : e.role = f.role => e = f
    /\ setup.at \in {"recover", "register"} =>
           setup.key = signer[setup.role] /\ signer[setup.role] # None
    /\ setup.at = "register" =>
           setup.id \in Nat /\ \A e \in registry : e.role # setup.role
    /\ \A r \in Roles : setup.found[r] # None => Entry(r, setup.found[r]) \in registry
    /\ setup.at \in {"client", "recover", "register"} /\ setup.role = "joao" =>
           setup.found["operator"] # None
    /\ setup.at = "write" => \A r \in Roles : setup.found[r] # None
    /\ \A r \in Roles : accounts[Multisig(r)] # None => Entry(r, accounts[Multisig(r)]) \in registry

ProvInv == ProvTypeOK /\ RolesInv

LEMMA InitProv == ProvInit => ProvInv
<1> SUFFICES ASSUME ProvInit PROVE ProvInv
  OBVIOUS
<1>1. ProvTypeOK
  BY ProvisioningAssumption DEF ProvInit, ProvTypeOK, MaybeId, NoSetup, Setup, Roles, Fields
<1>2. RolesInv
  BY ProvisioningAssumption DEF ProvInit, RolesInv, NoSetup, Roles, Fields, Multisig
<1> QED
  BY <1>1, <1>2 DEF ProvInv

LEMMA FieldsOfRoles ==
    /\ "operator" \in Roles /\ "joao" \in Roles
    /\ \A r \in Roles : Multisig(r) \in Fields /\ Multisig(r) # "faucet" /\ Multisig(r) # "operatorTag"
    /\ Multisig("operator") = "operatorMultisig" /\ Multisig("joao") = "sellerMultisig"
    /\ \A r, s \in Roles : Multisig(r) = Multisig(s) => r = s
BY DEF Roles, Multisig, Fields

LEMMA StepSetupAccounts ==
    ASSUME ProvInv, SetupAccounts
    PROVE  ProvInv'
<1>1. /\ ids' = ids + 2 /\ ids + 2 <= MaxIds /\ ids \in Nat
      /\ accounts' = [[f \in Fields |-> None] EXCEPT !["faucet"] = ids + 1, !["operatorTag"] = ids + 2]
      /\ UNCHANGED <<signer, registry, setup, deaths>>
  BY ProvisioningAssumption DEF SetupAccounts, GivesOut, ProvInv, ProvTypeOK
<1>2. /\ accounts' \in [Fields -> MaybeId]
      /\ \A r \in Roles : accounts'[Multisig(r)] = None
      /\ accounts'["operatorMultisig"] = None /\ accounts'["sellerMultisig"] = None
  <2>1. /\ accounts' \in [Fields -> MaybeId]
        /\ \A f \in Fields : f \notin {"faucet", "operatorTag"} => accounts'[f] = None
    BY <1>1 DEF Fields, MaybeId
  <2>2. \A r \in Roles : Multisig(r) \in Fields /\ Multisig(r) \notin {"faucet", "operatorTag"}
    BY FieldsOfRoles
  <2>3. "operatorMultisig" \in Fields /\ "sellerMultisig" \in Fields
    BY DEF Fields
  <2> QED
    BY <2>1, <2>2, <2>3
<1>3. ProvTypeOK'
  <2>1. ids' \in 0..MaxIds
    BY <1>1, ProvisioningAssumption
  <2> QED
    BY <1>1, <1>2, <2>1 DEF ProvInv, ProvTypeOK
<1>4. RolesInv'
  <2>1. \A r \in Roles : signer'[r] # None => signer'[r] \in 1..ids'
    BY <1>1 DEF ProvInv, RolesInv
  <2>2. \A r \in Roles : accounts'[Multisig(r)] = None
    BY <1>2
  <2>3. UNCHANGED <<signer, registry, setup>>
    BY <1>1
  <2> QED
    BY <2>1, <2>2, <2>3 DEF ProvInv, RolesInv, Entry
<1> QED
  BY <1>3, <1>4 DEF ProvInv

LEMMA StepNewFaucet ==
    ASSUME ProvInv, NewFaucet
    PROVE  ProvInv'
<1>1. /\ ids' = ids + 1 /\ ids + 1 <= MaxIds /\ ids \in Nat
      /\ accounts' = [accounts EXCEPT !["faucet"] = ids + 1]
      /\ UNCHANGED <<signer, registry, setup, deaths>>
  BY ProvisioningAssumption DEF NewFaucet, GivesOut, ProvInv, ProvTypeOK
<1>2. /\ accounts' \in [Fields -> MaybeId]
      /\ \A r \in Roles : accounts'[Multisig(r)] = accounts[Multisig(r)]
  BY <1>1, FieldsOfRoles DEF Fields, MaybeId, ProvInv, ProvTypeOK
<1>3. ProvTypeOK'
  BY <1>1, <1>2, FieldsOfRoles, ProvisioningAssumption DEF ProvInv, ProvTypeOK
<1>4. RolesInv'
  BY <1>1, <1>2, ProvisioningAssumption DEF ProvInv, RolesInv, Entry
<1> QED
  BY <1>3, <1>4 DEF ProvInv

LEMMA StepOpenClient ==
    ASSUME ProvInv, OpenClient
    PROVE  ProvInv'
<1>1. setup \in Setup /\ setup.role \in Roles /\ signer \in [Roles -> MaybeId] /\ ids \in Nat
  BY ProvisioningAssumption DEF ProvInv, ProvTypeOK, Setup
<1>2. ASSUME NEW k \in MaybeId, setup' = [setup EXCEPT !.at = "recover", !.key = k]
      PROVE  /\ setup' \in Setup /\ setup'.at = "recover" /\ setup'.key = k
             /\ setup'.role = setup.role /\ setup'.found = setup.found
  BY <1>1, <1>2 DEF Setup
<1>3. UNCHANGED <<accounts, registry, deaths>> /\ setup.at = "client"
  BY DEF OpenClient
<1>4. CASE signer[setup.role] # None
  <2>1. /\ setup' = [setup EXCEPT !.at = "recover", !.key = signer[setup.role]]
        /\ UNCHANGED <<signer, ids>>
    BY <1>4 DEF OpenClient
  <2>0. /\ setup' \in Setup /\ setup'.at = "recover" /\ setup'.key = signer[setup.role]
        /\ setup'.role = setup.role /\ setup'.found = setup.found
    BY <1>1, <1>2, <2>1
  <2>2. ProvTypeOK'
    BY <1>3, <2>0, <2>1 DEF ProvInv, ProvTypeOK
  <2>3. RolesInv'
    BY <1>3, <1>4, <2>0, <2>1 DEF ProvInv, RolesInv, Entry
  <2> QED
    BY <2>2, <2>3 DEF ProvInv
<1>5. CASE signer[setup.role] = None
  <2>1. /\ setup' = [setup EXCEPT !.at = "recover", !.key = ids + 1]
        /\ signer' = [signer EXCEPT ![setup.role] = ids + 1]
        /\ ids' = ids + 1 /\ ids + 1 <= MaxIds
    BY <1>5 DEF OpenClient, SavesKey, GivesOut
  <2>2. ids + 1 \in MaybeId /\ ids + 1 # None
    BY <1>1, ProvisioningAssumption DEF MaybeId
  <2>0. /\ setup' \in Setup /\ setup'.at = "recover" /\ setup'.key = ids + 1
        /\ setup'.role = setup.role /\ setup'.found = setup.found
    BY <1>2, <2>1, <2>2
  <2>3. ProvTypeOK'
    <3>1. signer' \in [Roles -> MaybeId] /\ ids' \in 0..MaxIds
      BY <1>1, <2>1, <2>2, ProvisioningAssumption
    <3> QED
      BY <1>3, <2>0, <3>1 DEF ProvInv, ProvTypeOK
  <2>4. /\ \A r \in Roles : signer'[r] = IF r = setup.role THEN ids + 1 ELSE signer[r]
        /\ \A e \in registry : e.role # setup.role
    BY <1>1, <1>5, <2>1 DEF ProvInv, RolesInv
  <2>5. \A r \in Roles : signer'[r] # None => signer'[r] \in 1..ids'
    BY <1>1, <2>1, <2>4 DEF ProvInv, RolesInv
  <2>6. signer'["operator"] # None => signer'["operator"] # signer'["joao"]
    <3>1. \A r \in Roles : signer[r] # ids + 1
      BY <1>1, ProvisioningAssumption DEF ProvInv, RolesInv
    <3> QED
      BY <2>4, <3>1, FieldsOfRoles DEF Roles, ProvInv, RolesInv
  <2>7. \A e \in registry : e.role \in Roles /\ signer'[e.role] # None /\ e = Entry(e.role, e.id)'
    BY <2>4 DEF ProvInv, RolesInv, Entry
  <2>10. RolesInv'
    <3>1. ASSUME NEW r \in Roles, setup'.found[r] # None
          PROVE  [role |-> r, key |-> signer'[r], id |-> setup'.found[r]] \in registry'
      <4>1. Entry(r, setup.found[r]) \in registry
        BY <2>0, <3>1 DEF ProvInv, RolesInv
      <4> QED
        BY <1>3, <2>0, <2>4, <4>1 DEF Entry
    <3>2. ASSUME NEW r \in Roles, accounts'[Multisig(r)] # None
          PROVE  [role |-> r, key |-> signer'[r], id |-> accounts'[Multisig(r)]] \in registry'
      <4>1. Entry(r, accounts[Multisig(r)]) \in registry
        BY <1>3, <3>2 DEF ProvInv, RolesInv
      <4> QED
        BY <1>3, <2>4, <4>1 DEF Entry
    <3>3. signer'[setup.role] = ids + 1
      BY <1>1, <2>4
    <3> QED
      BY <1>3, <2>0, <2>2, <2>5, <2>6, <2>7, <3>1, <3>2, <3>3 DEF ProvInv, RolesInv, Entry
  <2> QED
    BY <2>3, <2>10 DEF ProvInv
<1> QED
  BY <1>4, <1>5

\* The id of a role is known: the next role, or the write, comes next.
LEMMA FoundSetup ==
    ASSUME ProvInv, NEW i \in Nat, Found(i)
    PROVE  /\ setup' \in Setup
           /\ setup'.at = After(setup.role)
           /\ setup'.role = "joao"
           /\ setup'.found = [setup.found EXCEPT ![setup.role] = i]
<1>1. setup \in Setup /\ setup.role \in Roles /\ setup.found \in [Roles -> MaybeId]
  BY DEF ProvInv, ProvTypeOK, Setup
<1>2. i \in MaybeId /\ None \in MaybeId /\ After(setup.role) \in {"client", "write"}
  BY DEF MaybeId, After
<1>3. [setup.found EXCEPT ![setup.role] = i] \in [Roles -> MaybeId]
  BY <1>1, <1>2
<1> DEFINE found == [setup.found EXCEPT ![setup.role] = i]
<1>4. setup' = [setup EXCEPT !.at = After(setup.role), !.role = "joao", !.key = None, !.id = None,
                             !.found = found]
  BY <1>1 DEF Found, Setup
<1> HIDE DEF found
<1>5. setup' \in Setup
  BY <1>1, <1>2, <1>3, <1>4, FieldsOfRoles DEF Setup, found
<1> QED
  BY <1>1, <1>4, <1>5 DEF Setup, found

LEMMA StepFound ==
    ASSUME ProvInv, NEW i \in Nat, Found(i),
           setup.at \in {"recover", "register"},
           Entry(setup.role, i) \in registry',
           registry \subseteq registry',
           \A e \in registry' : e \in registry \/ e = Entry(setup.role, i),
           \A e \in registry : e.role = setup.role => e = Entry(setup.role, i),
           UNCHANGED <<accounts, signer, ids, deaths>>
    PROVE  ProvInv'
<1>1. setup \in Setup /\ setup.role \in Roles /\ setup.found \in [Roles -> MaybeId]
      /\ signer \in [Roles -> MaybeId] /\ signer[setup.role] # None
  BY DEF ProvInv, ProvTypeOK, Setup, RolesInv
<1>2. /\ setup' \in Setup /\ setup'.at = After(setup.role) /\ setup'.role = "joao"
      /\ \A r \in Roles : setup'.found[r] = IF r = setup.role THEN i ELSE setup.found[r]
  BY <1>1, FoundSetup
<1>3. Entry(setup.role, i).role = setup.role /\ Entry(setup.role, i).id = i
  BY DEF Entry
<1>4. Entry(setup.role, i) \in [role : Roles, key : Nat, id : Nat]
  BY <1>1 DEF Entry, MaybeId
<1>5. ProvTypeOK'
  BY <1>2, <1>4 DEF ProvInv, ProvTypeOK
<1>6. \A r \in Roles : \A j : Entry(r, j)' = Entry(r, j)
  BY DEF Entry
<1>7. \A e \in registry' : e.role \in Roles /\ signer[e.role] # None /\ e = Entry(e.role, e.id)
  BY <1>1, <1>3 DEF ProvInv, RolesInv
<1>8. \A e, f \in registry' : e.role = f.role => e = f
  BY <1>3 DEF ProvInv, RolesInv
<1>9. \A r \in Roles : setup'.found[r] # None => Entry(r, setup'.found[r]) \in registry'
  BY <1>2 DEF ProvInv, RolesInv
<1>10. setup'.at # "recover" /\ setup'.at # "register" /\ i # None
  BY <1>2, ProvisioningAssumption DEF After
<1>11. setup'.at = "client" => setup'.found["operator"] # None
  BY <1>2, <1>10, FieldsOfRoles DEF After
<1>12. setup'.at = "write" => \A r \in Roles : setup'.found[r] # None
  <2>1. CASE setup.role = "operator"
    BY <1>2, <2>1 DEF After
  <2>2. CASE setup.role # "operator"
    <3>1. setup.role = "joao" /\ setup.found["operator"] # None
      BY <1>1, <2>2 DEF Roles, ProvInv, RolesInv
    <3> QED
      BY <1>2, <1>10, <3>1 DEF Roles
  <2> QED
    BY <2>1, <2>2
<1>13. RolesInv'
  BY <1>6, <1>7, <1>8, <1>9, <1>10, <1>11, <1>12 DEF ProvInv, RolesInv, Entry
<1> QED
  BY <1>5, <1>13 DEF ProvInv

LEMMA StepStartMultisigs ==
    ASSUME ProvInv, StartMultisigs
    PROVE  ProvInv'
<1>1. setup' = [NoSetup EXCEPT !.at = "client"] /\ UNCHANGED <<accounts, signer, registry, ids, deaths>>
  BY DEF StartMultisigs
<1>2. /\ setup' \in Setup /\ setup'.at = "client" /\ setup'.role = "operator"
      /\ \A r \in Roles : setup'.found[r] = None
  BY <1>1 DEF NoSetup, Setup, Roles, MaybeId
<1>3. ProvTypeOK'
  BY <1>1, <1>2 DEF ProvInv, ProvTypeOK
<1>4. RolesInv'
  BY <1>1, <1>2 DEF ProvInv, RolesInv, Entry
<1> QED
  BY <1>3, <1>4 DEF ProvInv

\* The role of a key: an account registered under the key in use is the role's.
LEMMA KeyOfRole ==
    ASSUME ProvInv, setup.at \in {"recover", "register"}, NEW e \in registry
    PROVE  e.key = setup.key <=> e.role = setup.role
<1>1. setup.role \in Roles /\ setup.key = signer[setup.role] /\ signer[setup.role] # None
  BY DEF ProvInv, ProvTypeOK, RolesInv, Setup
<1>2. e.role \in Roles /\ signer[e.role] # None /\ e = Entry(e.role, e.id)
  BY DEF ProvInv, RolesInv
<1>3. e.key = signer[e.role]
  BY <1>2 DEF Entry
<1>4. \A r, s \in Roles : signer[r] # None /\ signer[r] = signer[s] => r = s
  BY DEF Roles, ProvInv, RolesInv
<1> QED
  BY <1>1, <1>2, <1>3, <1>4

LEMMA StepRecover ==
    ASSUME ProvInv, Recover
    PROVE  ProvInv'
<1>1. PICK e \in registry : e.key = setup.key /\ Found(e.id)
  BY DEF Recover
<1>2. setup.at = "recover" /\ UNCHANGED <<accounts, signer, registry, ids, deaths>>
  BY DEF Recover
<1>3. e.role = setup.role
  BY <1>1, <1>2, KeyOfRole
<1>4. e.id \in Nat
  BY DEF ProvInv, ProvTypeOK
<1>5. e = Entry(setup.role, e.id)
  BY <1>3 DEF ProvInv, RolesInv
<1>6. \A f \in registry : f.role = setup.role => f = Entry(setup.role, e.id)
  BY <1>3, <1>5 DEF ProvInv, RolesInv
<1>7. /\ Entry(setup.role, e.id) \in registry' /\ registry \subseteq registry'
      /\ \A f \in registry' : f \in registry \/ f = Entry(setup.role, e.id)
  BY <1>2, <1>5
<1> QED
  BY <1>1, <1>2, <1>4, <1>6, <1>7, StepFound

LEMMA StepCreateAccount ==
    ASSUME ProvInv, CreateAccount
    PROVE  ProvInv'
<1>1. /\ setup.at = "recover" /\ \A e \in registry : e.key # setup.key
      /\ ids' = ids + 1 /\ ids + 1 <= MaxIds
      /\ setup' = [setup EXCEPT !.at = "register", !.id = ids + 1]
      /\ UNCHANGED <<accounts, signer, registry, deaths>>
  BY DEF CreateAccount, GivesOut
<1>2. ids \in Nat /\ setup \in Setup
  BY ProvisioningAssumption DEF ProvInv, ProvTypeOK
<1>3. ids + 1 \in MaybeId /\ ids + 1 \in Nat
  BY <1>2 DEF MaybeId
<1>4. /\ setup' \in Setup /\ setup'.at = "register" /\ setup'.id \in Nat
      /\ setup'.key = setup.key /\ setup'.role = setup.role /\ setup'.found = setup.found
  BY <1>1, <1>2, <1>3 DEF Setup
<1>5. \A e \in registry : e.role # setup.role
  BY <1>1, KeyOfRole
<1>6. ProvTypeOK'
  <2>1. ids' \in 0..MaxIds
    BY <1>1, <1>2, ProvisioningAssumption
  <2> QED
    BY <1>1, <1>4, <2>1 DEF ProvInv, ProvTypeOK
<1>7. RolesInv'
  <2>1. \A r \in Roles : signer'[r] # None => signer'[r] \in 1..ids'
    BY <1>1, <1>2 DEF ProvInv, RolesInv
  <2> QED
    BY <1>1, <1>4, <1>5, <2>1 DEF ProvInv, RolesInv, Entry
<1> QED
  BY <1>6, <1>7 DEF ProvInv

LEMMA Pushed ==
    ASSUME ProvInv, setup.at = "register", PushesAccount
    PROVE  /\ setup.id \in Nat /\ registry' = registry \union {Entry(setup.role, setup.id)}
           /\ \A e \in registry : e.role # setup.role
BY DEF PushesAccount, Entry, ProvInv, RolesInv

LEMMA StepRegister ==
    ASSUME ProvInv, Register
    PROVE  ProvInv'
<1>1. setup.at = "register" /\ PushesAccount /\ Found(setup.id) /\ UNCHANGED <<accounts, signer, ids, deaths>>
  BY DEF Register
<1>2. /\ setup.id \in Nat /\ registry' = registry \union {Entry(setup.role, setup.id)}
      /\ \A e \in registry : e.role # setup.role
  BY <1>1, Pushed
<1>3. /\ Entry(setup.role, setup.id) \in registry' /\ registry \subseteq registry'
      /\ \A e \in registry' : e \in registry \/ e = Entry(setup.role, setup.id)
  BY <1>2
<1> QED
  BY <1>1, <1>2, <1>3, StepFound

LEMMA IdleSetup ==
    /\ NoSetup \in Setup /\ NoSetup.at = "idle" /\ NoSetup.role = "operator"
    /\ \A r \in Roles : NoSetup.found[r] = None
BY DEF NoSetup, Setup, Roles, MaybeId

LEMMA StepMergeIds ==
    ASSUME ProvInv, MergeIds
    PROVE  ProvInv'
<1>1. /\ setup.at = "write" /\ setup' = NoSetup /\ UNCHANGED <<signer, registry, ids, deaths>>
      /\ accounts' = [f \in Fields |-> IF \E r \in Roles : f = Multisig(r)
                                       THEN setup.found[CHOOSE r \in Roles : f = Multisig(r)]
                                       ELSE accounts[f]]
  BY DEF MergeIds
<1>2. \A r \in Roles : (CHOOSE s \in Roles : Multisig(r) = Multisig(s)) = r
  BY FieldsOfRoles
<1>3. \A r \in Roles : accounts'[Multisig(r)] = setup.found[r]
  BY <1>1, <1>2, FieldsOfRoles
<1>4. setup.found \in [Roles -> MaybeId] /\ accounts \in [Fields -> MaybeId]
  BY DEF ProvInv, ProvTypeOK, Setup
<1>5. \A r \in Roles : setup.found[r] # None /\ Entry(r, setup.found[r]) \in registry
  BY <1>1 DEF ProvInv, RolesInv
<1>6. accounts' \in [Fields -> MaybeId]
  <2>1. ASSUME NEW f \in Fields PROVE accounts'[f] \in MaybeId
    <3>1. CASE \E r \in Roles : f = Multisig(r)
      BY <1>3, <1>4, <3>1
    <3>2. CASE ~ \E r \in Roles : f = Multisig(r)
      BY <1>1, <1>4, <3>2
    <3> QED
      BY <3>1, <3>2
  <2> QED
    BY <1>1, <2>1
<1>7. accounts'["operatorMultisig"] # None /\ accounts'["sellerMultisig"] # None
  BY <1>3, <1>5, FieldsOfRoles
<1>8. ProvTypeOK'
  BY <1>1, <1>6, <1>7, IdleSetup DEF ProvInv, ProvTypeOK
<1>9. RolesInv'
  BY <1>1, <1>3, <1>5, IdleSetup DEF ProvInv, RolesInv, Entry
<1> QED
  BY <1>8, <1>9 DEF ProvInv

LEMMA StepSetupDies ==
    ASSUME ProvInv, SetupDies
    PROVE  ProvInv'
<1>1. /\ setup' = NoSetup /\ UNCHANGED <<accounts, signer, ids>>
      /\ deaths' = deaths + 1 /\ deaths < MaxDeaths
      /\ registry' = registry \/ (setup.at = "register" /\ PushesAccount)
  BY DEF SetupDies
<1>2. deaths' \in 0..MaxDeaths
  BY <1>1, ProvisioningAssumption DEF ProvInv, ProvTypeOK
<1>3. \A r \in Roles : \A i : Entry(r, i)' = Entry(r, i)
  BY <1>1 DEF Entry
<1>4. CASE registry' = registry
  <2>1. ProvTypeOK'
    BY <1>1, <1>2, <1>4, IdleSetup DEF ProvInv, ProvTypeOK
  <2>2. RolesInv'
    BY <1>1, <1>4, IdleSetup DEF ProvInv, RolesInv, Entry
  <2> QED
    BY <2>1, <2>2 DEF ProvInv
<1>5. CASE setup.at = "register" /\ PushesAccount
  <2>1. /\ setup.id \in Nat /\ registry' = registry \union {Entry(setup.role, setup.id)}
        /\ \A e \in registry : e.role # setup.role
    BY <1>5, Pushed
  <2>2. setup.role \in Roles /\ signer[setup.role] # None /\ signer \in [Roles -> MaybeId]
    BY <1>5 DEF ProvInv, ProvTypeOK, RolesInv, Setup
  <2>3. Entry(setup.role, setup.id) \in [role : Roles, key : Nat, id : Nat]
    BY <2>1, <2>2 DEF Entry, MaybeId
  <2>4. Entry(setup.role, setup.id).role = setup.role /\ Entry(setup.role, setup.id).id = setup.id
    BY DEF Entry
  <2>5. ProvTypeOK'
    BY <1>1, <1>2, <2>1, <2>3, IdleSetup DEF ProvInv, ProvTypeOK
  <2>6. \A e \in registry' : e.role \in Roles /\ signer[e.role] # None /\ e = Entry(e.role, e.id)
    BY <2>1, <2>2, <2>4 DEF ProvInv, RolesInv
  <2>7. \A e, f \in registry' : e.role = f.role => e = f
    BY <2>1, <2>4 DEF ProvInv, RolesInv
  <2>8. \A r \in Roles : accounts[Multisig(r)] # None => Entry(r, accounts[Multisig(r)]) \in registry'
    BY <2>1 DEF ProvInv, RolesInv
  <2>9. RolesInv'
    BY <1>1, <1>3, <2>6, <2>7, <2>8, IdleSetup DEF ProvInv, RolesInv, Entry
  <2> QED
    BY <2>5, <2>9 DEF ProvInv
<1> QED
  BY <1>1, <1>4, <1>5

LEMMA StepProv ==
    ASSUME ProvInv, [ProvNext]_provVars
    PROVE  ProvInv'
<1>1. CASE UNCHANGED provVars
  BY <1>1 DEF provVars, ProvInv, ProvTypeOK, RolesInv, Entry
<1>2. CASE ProvNext
  BY <1>2, StepSetupAccounts, StepNewFaucet, StepStartMultisigs, StepOpenClient, StepRecover,
     StepCreateAccount, StepRegister, StepMergeIds, StepSetupDies DEF ProvNext
<1> QED
  BY <1>1, <1>2

\* A step of the note, the settlement or the Guardian leaves the set-up alone.
LEMMA StepOfBoth ==
    ASSUME [Next]_vars
    PROVE  [ProvNext]_provVars
BY DEF Next, vars, SettleStep, BuildEscrow, Fund, Attempt, StartSettle, Propose, AtTheCap, Push, Wedged,
       SubmitLands, Report, SettleFails, DeltaGone

\* A role keeps its multisig through every failed and repeated set-up, and what
\* accounts.json names can be pulled with the role's saved key
\* (setup_multisigs.rs:17-49, helpers.rs:231-245).
THEOREM MultisigsKept == Spec => []MultisigsStay
<1>1. Init => ProvInv
  BY InitProv DEF Init
<1>2. ProvInv /\ [Next]_vars => ProvInv'
  BY StepProv, StepOfBoth
<1>3. ProvInv => MultisigsStay
  BY DEF ProvInv, RolesInv, MultisigsStay, Entry
<1> QED
  BY <1>1, <1>2, <1>3, PTL DEF Spec

-----------------------------------------------------------------------------
(* The note and the settlement *)

From(n) == {o \in outputs : o.from = n}

ToSeller(n, c) == [from |-> n, to |-> escrow[n].seller, faucet |-> escrow[n].faucet, amount |-> c]
ToBuyer(n, c) == [from |-> n, to |-> escrow[n].buyer, faucet |-> escrow[n].faucet,
                  amount |-> escrow[n].budget - c]

\* A note that was built names its parties; only the script of a note that is
\* spent has paid out, and it split the budget at a charge the bridge asked for.
NotesInv ==
    /\ \A n \in Notes : escrow[n].state # "none" =>
           escrow[n].budget \in Budgets /\ escrow[n].buyer \in Buyers
    /\ \A o \in outputs : escrow[o.from].state = "spent"
    /\ \A n \in Notes : escrow[n].state = "spent" =>
           \E c \in asked[n] : c <= escrow[n].budget /\ From(n) = PaysOut(n, c)

\* The settlement in progress is of a note that was funded, with a charge it was
\* asked for and the faucet of the note; its proposal is at the Guardian until
\* it lands; what it prints is what the script paid out.
SettleInv ==
    /\ settle.at # "idle" =>
           /\ settle.note \in Notes
           /\ escrow[settle.note].state \in {"funded", "spent"}
           /\ settle.charge \in asked[settle.note]
           /\ settle.charge <= escrow[settle.note].budget
           /\ settle.faucet = escrow[settle.note].faucet
    /\ settle.at \in {"proposed", "pushed"} => proposals > 0
    /\ settle.at = "landed" =>
           escrow[settle.note].state = "spent" /\ From(settle.note) = NoteFiles(settle)
    /\ \A p \in printed : escrow[p.note].state = "spent" /\ p.files = From(p.note)

IInv == ProvInv /\ TypeOK /\ NotesInv /\ SettleInv

LEMMA InitInv == Init => IInv
<1> SUFFICES ASSUME Init PROVE IInv
  OBVIOUS
<1>1. ProvInv
  BY InitProv DEF Init
<1>2. NoNote \in Note /\ NoNote.state = "none"
  BY DEF NoNote, Note, MaybeId
<1>3. Idle \in Settlement /\ Idle.at = "idle"
  BY DEF Idle, Settlement, MaybeId
<1>4. TypeOK
  BY <1>1, <1>2, <1>3, EscrowAssumption DEF Init, TypeOK, ProvInv
<1>5. NotesInv
  BY <1>2 DEF Init, NotesInv
<1>6. SettleInv
  BY <1>3 DEF Init, SettleInv
<1> QED
  BY <1>1, <1>4, <1>5, <1>6 DEF IInv

\* The field's remainder is the integer itself below the modulus.
LEMMA SmallMod ==
    ASSUME NEW x \in Nat, x < Modulus
    PROVE  x % Modulus = x
BY EscrowAssumption

LEMMA BuiltNote ==
    ASSUME TypeOK, NotesInv, NEW n \in Notes, escrow[n].state # "none"
    PROVE  /\ escrow[n].budget \in 1..(Modulus - 1)
           /\ escrow[n].buyer \in Buyers /\ escrow[n].buyer \notin Nat
           /\ escrow[n].faucet \in Nat /\ escrow[n].operator \in Nat /\ escrow[n].seller \in Nat
BY EscrowAssumption DEF TypeOK, NotesInv

\* What the script pays out when the charge is within the budget.
LEMMA SplitOf ==
    ASSUME TypeOK, NotesInv, NEW n \in Notes, escrow[n].state # "none",
           NEW c \in Nat, c <= escrow[n].budget
    PROVE  /\ ToSeller(n, c) \in Output /\ ToBuyer(n, c) \in Output
           /\ PaysOut(n, c) = {o \in {ToSeller(n, c), ToBuyer(n, c)} : o.amount > 0}
<1>1. /\ escrow[n].budget \in 1..(Modulus - 1) /\ escrow[n].buyer \in Buyers
      /\ escrow[n].faucet \in Nat /\ escrow[n].seller \in Nat /\ Modulus \in Nat
  BY BuiltNote, EscrowAssumption
<1>2. escrow[n].budget - c \in Nat /\ escrow[n].budget - c < Modulus
  BY <1>1
<1>3. Refund(n, c) = escrow[n].budget - c
  BY <1>2, SmallMod DEF Refund
<1>4. c \in Felts /\ escrow[n].budget - c \in Felts
  BY <1>1, <1>2 DEF Felts
<1>5. ToSeller(n, c) \in Output /\ ToBuyer(n, c) \in Output
  BY <1>1, <1>4 DEF ToSeller, ToBuyer, Output
<1>6. PaysOut(n, c) = {o \in {ToSeller(n, c), ToBuyer(n, c)} : o.amount > 0}
  BY <1>3 DEF PaysOut, ToSeller, ToBuyer
<1> QED
  BY <1>5, <1>6

\* A step that only moves the state of a note on.
LEMMA StateMoves ==
    ASSUME TypeOK, NEW n \in Notes, NEW s \in {"built", "funded", "spent"},
           escrow[n].state # "none", escrow' = [escrow EXCEPT ![n].state = s]
    PROVE  /\ escrow' \in [Notes -> Note]
           /\ \A m \in Notes :
                  /\ escrow'[m].state = IF m = n THEN s ELSE escrow[m].state
                  /\ escrow'[m].budget = escrow[m].budget /\ escrow'[m].buyer = escrow[m].buyer
                  /\ escrow'[m].faucet = escrow[m].faucet /\ escrow'[m].seller = escrow[m].seller
                  /\ escrow'[m].operator = escrow[m].operator
           /\ \A m \in Notes : escrow'[m].state # "none" =>
                  {escrow'[m].faucet, escrow'[m].operator, escrow'[m].seller} \subseteq Nat
<1>1. escrow \in [Notes -> Note] /\ escrow[n] \in Note
  BY DEF TypeOK
<1> DEFINE e == [escrow[n] EXCEPT !.state = s]
<1>2. /\ e \in Note /\ e.state = s /\ e.budget = escrow[n].budget /\ e.buyer = escrow[n].buyer
      /\ e.faucet = escrow[n].faucet /\ e.seller = escrow[n].seller /\ e.operator = escrow[n].operator
  BY <1>1 DEF Note
<1>3. escrow' = [escrow EXCEPT ![n] = e]
  BY <1>1
<1> HIDE DEF e
<1>4. escrow' \in [Notes -> Note]
  BY <1>1, <1>2, <1>3
<1>5. \A m \in Notes : escrow'[m] = IF m = n THEN e ELSE escrow[m]
  BY <1>1, <1>3
<1>6. \A m \in Notes :
         /\ escrow'[m].state = IF m = n THEN s ELSE escrow[m].state
         /\ escrow'[m].budget = escrow[m].budget /\ escrow'[m].buyer = escrow[m].buyer
         /\ escrow'[m].faucet = escrow[m].faucet /\ escrow'[m].seller = escrow[m].seller
         /\ escrow'[m].operator = escrow[m].operator
  BY <1>2, <1>5
<1>7. \A m \in Notes : escrow'[m].state # "none" =>
         {escrow'[m].faucet, escrow'[m].operator, escrow'[m].seller} \subseteq Nat
  BY <1>6 DEF TypeOK
<1> QED
  BY <1>4, <1>6, <1>7

\* Steps that neither run a script nor change a note.
LEMMA KeepsNotes ==
    ASSUME TypeOK, NotesInv, UNCHANGED <<escrow, outputs>>,
           \A n \in Notes : asked[n] \subseteq asked'[n]
    PROVE  NotesInv'
<1>1. \A n, c : PaysOut(n, c)' = PaysOut(n, c)
  BY DEF PaysOut, Refund
<1>2. \A n : From(n)' = From(n)
  BY DEF From
<1> QED
  BY <1>1, <1>2 DEF NotesInv

\* Steps that leave the settlement and its results alone.
LEMMA KeepsSettle ==
    ASSUME TypeOK, NotesInv, SettleInv, UNCHANGED <<escrow, outputs, asked, settle, proposals, printed>>
    PROVE  NotesInv' /\ SettleInv'
<1>1. NotesInv'
  BY KeepsNotes
<1>2. NoteFiles(settle)' = NoteFiles(settle)
  BY DEF NoteFiles
<1>3. \A n : From(n)' = From(n)
  BY DEF From
<1>4. SettleInv'
  BY <1>2, <1>3 DEF SettleInv
<1> QED
  BY <1>1, <1>4

\* A note is built or funded: nothing came from it yet, and it is in no settlement.
LEMMA KeepsOutputs ==
    ASSUME TypeOK, NotesInv, SettleInv, NEW n \in Notes, escrow[n].state \in {"none", "built"},
           UNCHANGED <<outputs, asked, settle, proposals, printed>>,
           escrow' \in [Notes -> Note], escrow'[n].state \in {"built", "funded"},
           escrow'[n].budget \in Budgets, escrow'[n].buyer \in Buyers,
           \A m \in Notes : m # n => escrow'[m] = escrow[m]
    PROVE  NotesInv' /\ SettleInv'
<1>1. \A m \in Notes : escrow[m].state = "spent" => m # n /\ escrow'[m].state = "spent"
  OBVIOUS
<1>2. \A m \in Notes : escrow'[m].state = "spent" => m # n /\ escrow[m].state = "spent"
  OBVIOUS
<1>3. \A m \in Notes : \A c : m # n => PaysOut(m, c)' = PaysOut(m, c)
  BY DEF PaysOut, Refund
<1>4. \A m : From(m)' = From(m)
  BY DEF From
<1>5. \A o \in outputs : o.from \in Notes
  BY DEF TypeOK, Output
<1>6. NotesInv'
  BY <1>1, <1>2, <1>3, <1>4, <1>5 DEF NotesInv
<1>7. settle.at # "idle" => settle.note \in Notes /\ settle.note # n
  BY DEF SettleInv
<1>8. settle.at # "idle" => NoteFiles(settle)' = NoteFiles(settle)
  BY <1>7 DEF NoteFiles
<1>9. \A p \in printed : p.note \in Notes
  BY DEF TypeOK
<1>10. SettleInv'
  BY <1>1, <1>4, <1>7, <1>8, <1>9 DEF SettleInv
<1> QED
  BY <1>6, <1>10

\* The transaction of a settlement lands: the note is spent and its outputs, which
\* are the files settle_session will print, split the budget at the charge.
LEMMA LandsSplits ==
    ASSUME ProvTypeOK, TypeOK, NotesInv, SettleInv, Lands
    PROVE  /\ escrow' = [escrow EXCEPT ![settle.note].state = "spent"]
           /\ settle.note \in Notes /\ escrow[settle.note].state = "funded"
           /\ settle.charge \in Nat /\ settle.charge <= escrow[settle.note].budget
           /\ settle.charge \in asked[settle.note]
           /\ outputs' = outputs \union PaysOut(settle.note, settle.charge)
           /\ NoteFiles(settle) = PaysOut(settle.note, settle.charge)
           /\ PaysOut(settle.note, settle.charge) \subseteq Output
           /\ proposals' \in 0..MaxProposals /\ delta' = "landed"
<1> DEFINE n == settle.note
           c == settle.charge
<1>1. /\ settle.at = "pushed" /\ escrow[n].state = "funded"
      /\ escrow' = [escrow EXCEPT ![n].state = "spent"]
      /\ outputs' = outputs \union PaysOut(n, c)
      /\ delta' = "landed" /\ proposals' = proposals - 1
      /\ c > 0 => settle.seller = escrow[n].seller
  BY DEF Lands, Accepts, Run
<1>2. /\ n \in Notes /\ c \in asked[n] /\ c <= escrow[n].budget
      /\ settle.faucet = escrow[n].faucet /\ proposals > 0
  BY <1>1 DEF SettleInv
<1>3. settle \in Settlement /\ c \in Nat
  BY DEF TypeOK, Settlement
<1>4. /\ ToSeller(n, c) \in Output /\ ToBuyer(n, c) \in Output
      /\ PaysOut(n, c) = {o \in {ToSeller(n, c), ToBuyer(n, c)} : o.amount > 0}
  BY <1>1, <1>2, <1>3, SplitOf
<1> DEFINE toSeller == [from |-> n, to |-> settle.seller, faucet |-> settle.faucet, amount |-> c]
<1>5. NoteFiles(settle) = {o \in {toSeller, ToBuyer(n, c)} : o.amount > 0}
  BY <1>2 DEF NoteFiles, ToBuyer
<1>6. toSeller.amount = c /\ ToSeller(n, c).amount = c
  BY DEF ToSeller
<1>7. c > 0 => toSeller = ToSeller(n, c)
  BY <1>1, <1>2 DEF ToSeller
<1>8. NoteFiles(settle) = PaysOut(n, c)
  BY <1>3, <1>4, <1>5, <1>6, <1>7
<1>9. PaysOut(n, c) \subseteq Output
  BY <1>4
<1>10. proposals' \in 0..MaxProposals
  BY <1>1, <1>2, EscrowAssumption DEF TypeOK
<1> QED
  BY <1>1, <1>2, <1>3, <1>8, <1>9, <1>10

LEMMA LandsNotes ==
    ASSUME ProvTypeOK, TypeOK, NotesInv, SettleInv, Lands, UNCHANGED <<asked, printed>>,
           NEW n, NEW c, n = settle.note, c = settle.charge
    PROVE  /\ NotesInv'
           /\ From(n)' = NoteFiles(settle)
           /\ \A m \in Notes : escrow[m].state = "spent" =>
                  m # n /\ escrow'[m].state = "spent" /\ From(m)' = From(m)
           /\ escrow'[n].state = "spent"
<1>1. /\ escrow' = [escrow EXCEPT ![n].state = "spent"]
      /\ n \in Notes /\ escrow[n].state = "funded"
      /\ c \in Nat /\ c <= escrow[n].budget /\ c \in asked[n]
      /\ outputs' = outputs \union PaysOut(n, c)
      /\ NoteFiles(settle) = PaysOut(n, c) /\ PaysOut(n, c) \subseteq Output
  BY LandsSplits
<1>2. \A m \in Notes :
         /\ escrow'[m].state = IF m = n THEN "spent" ELSE escrow[m].state
         /\ escrow'[m].budget = escrow[m].budget /\ escrow'[m].buyer = escrow[m].buyer
         /\ escrow'[m].faucet = escrow[m].faucet /\ escrow'[m].seller = escrow[m].seller
  <2>1. /\ n \in Notes /\ "spent" \in {"built", "funded", "spent"}
        /\ escrow[n].state # "none" /\ escrow' = [escrow EXCEPT ![n].state = "spent"]
    BY <1>1
  <2> QED
    BY <2>1, StateMoves
<1>3. \A m \in Notes : \A d : PaysOut(m, d)' = PaysOut(m, d)
  BY <1>2 DEF PaysOut, Refund
<1>4. \A o \in PaysOut(n, c) : o.from = n
  BY DEF PaysOut
<1>5. From(n) = {}
  BY <1>1 DEF From, NotesInv
<1>6. From(n)' = PaysOut(n, c)
  BY <1>1, <1>4, <1>5 DEF From
<1>7. \A m : m # n => From(m)' = From(m)
  BY <1>1, <1>4 DEF From
<1>8. NotesInv'
  <2>1. \A m \in Notes : escrow'[m].state # "none" =>
           escrow'[m].budget \in Budgets /\ escrow'[m].buyer \in Buyers
    BY <1>1, <1>2 DEF NotesInv
  <2>2. \A o \in outputs' : escrow'[o.from].state = "spent"
    <3>1. \A o \in outputs : o.from \in Notes /\ escrow[o.from].state = "spent"
      BY DEF TypeOK, Output, NotesInv
    <3> QED
      BY <1>1, <1>2, <1>4, <3>1
  <2>3. ASSUME NEW m \in Notes, escrow'[m].state = "spent"
        PROVE  \E d \in asked'[m] : d <= escrow'[m].budget /\ From(m)' = PaysOut(m, d)'
    <3>1. CASE m = n
      BY <1>1, <1>2, <1>3, <1>6, <3>1
    <3>2. CASE m # n
      <4>1. PICK d \in asked[m] : d <= escrow[m].budget /\ From(m) = PaysOut(m, d)
        BY <1>2, <2>3, <3>2 DEF NotesInv
      <4> QED
        BY <1>2, <1>3, <1>7, <3>2, <4>1
    <3> QED
      BY <3>1, <3>2
  <2> QED
    BY <2>1, <2>2, <2>3 DEF NotesInv
<1> QED
  BY <1>1, <1>2, <1>6, <1>7, <1>8

LEMMA StepOfSetup ==
    ASSUME IInv, ProvInv', UNCHANGED escrowVars
    PROVE  IInv'
<1>1. UNCHANGED <<escrow, outputs, asked, attempts, settle, delta, wedges, proposals, printed, failures>>
  BY DEF escrowVars
<1>2. TypeOK'
  BY <1>1 DEF IInv, TypeOK, ProvInv
<1> QED
  BY <1>1, <1>2, KeepsSettle DEF IInv

LEMMA StepBuildEscrow ==
    ASSUME IInv, ProvInv', NEW n \in Notes, NEW b \in Buyers, NEW v \in Budgets, BuildEscrow(n, b, v)
    PROVE  IInv'
<1> DEFINE e == [state |-> "built", budget |-> v, buyer |-> b, faucet |-> accounts["faucet"],
                 operator |-> accounts["operatorMultisig"], seller |-> accounts["sellerMultisig"]]
<1>1. /\ escrow[n].state = "none" /\ Complete /\ escrow' = [escrow EXCEPT ![n] = e]
      /\ UNCHANGED <<provVars, outputs, asked, attempts, settle, delta, wedges, proposals, printed, failures>>
  BY DEF BuildEscrow
<1>2. \A f \in Fields : accounts[f] \in Nat
  BY <1>1 DEF IInv, ProvInv, ProvTypeOK, Complete, MaybeId
<1>3. accounts["faucet"] \in Nat /\ accounts["operatorMultisig"] \in Nat /\ accounts["sellerMultisig"] \in Nat
  BY <1>2 DEF Fields
<1>4. /\ e \in Note /\ e.state = "built" /\ e.budget = v /\ e.buyer = b
      /\ {e.faucet, e.operator, e.seller} \subseteq Nat
  BY <1>3, EscrowAssumption DEF Note, MaybeId
<1> HIDE DEF e
<1>5. escrow \in [Notes -> Note]
  BY DEF IInv, TypeOK
<1>6. escrow' \in [Notes -> Note] /\ \A m \in Notes : escrow'[m] = IF m = n THEN e ELSE escrow[m]
  BY <1>1, <1>4, <1>5
<1>7. TypeOK'
  <2>1. \A m \in Notes : escrow'[m].state # "none" =>
           {escrow'[m].faucet, escrow'[m].operator, escrow'[m].seller} \subseteq Nat
    BY <1>4, <1>6 DEF IInv, TypeOK
  <2> QED
    BY <1>1, <1>6, <2>1 DEF IInv, TypeOK, ProvInv
<1>8. NotesInv' /\ SettleInv'
  BY <1>1, <1>4, <1>6, KeepsOutputs DEF IInv
<1> QED
  BY <1>7, <1>8 DEF IInv

LEMMA StepFund ==
    ASSUME IInv, ProvInv', NEW n \in Notes, Fund(n)
    PROVE  IInv'
<1>1. /\ escrow[n].state = "built" /\ escrow' = [escrow EXCEPT ![n].state = "funded"]
      /\ UNCHANGED <<provVars, outputs, asked, attempts, settle, delta, wedges, proposals, printed, failures>>
  BY DEF Fund
<1>2. /\ escrow' \in [Notes -> Note]
      /\ \A m \in Notes :
             /\ escrow'[m].state = IF m = n THEN "funded" ELSE escrow[m].state
             /\ escrow'[m].budget = escrow[m].budget /\ escrow'[m].buyer = escrow[m].buyer
      /\ \A m \in Notes : escrow'[m].state # "none" =>
             {escrow'[m].faucet, escrow'[m].operator, escrow'[m].seller} \subseteq Nat
  <2>1. escrow[n].state # "none" /\ "funded" \in {"built", "funded", "spent"}
    BY <1>1
  <2> QED
    BY <1>1, <2>1, StateMoves DEF IInv
<1>3. \A m \in Notes : m # n => escrow'[m] = escrow[m]
  BY <1>1 DEF IInv, TypeOK
<1>4. TypeOK'
  BY <1>1, <1>2 DEF IInv, TypeOK, ProvInv
<1>5. escrow'[n].budget \in Budgets /\ escrow'[n].buyer \in Buyers /\ escrow'[n].state = "funded"
  BY <1>1, <1>2 DEF IInv, NotesInv
<1>6. NotesInv' /\ SettleInv'
  BY <1>1, <1>2, <1>3, <1>5, KeepsOutputs DEF IInv
<1> QED
  BY <1>4, <1>6 DEF IInv

\* The script refuses every account but the operator's, and the operator every
\* argument above the budget.
LEMMA AttemptRefused ==
    ASSUME IInv, NEW n \in Notes, NEW a, NEW c \in Felts, Attempt(a, n, c)
    PROVE  UNCHANGED <<escrow, outputs, asked>>
<1>1. /\ escrow[n].state = "funded"
      /\ a = escrow[n].buyer \/ (a = escrow[n].operator /\ c > escrow[n].budget)
      /\ UNCHANGED asked
  BY DEF Attempt
<1>2. /\ escrow[n].budget \in 1..(Modulus - 1) /\ escrow[n].buyer \notin Nat /\ escrow[n].operator \in Nat
      /\ Modulus \in Nat
  BY <1>1, BuiltNote, EscrowAssumption DEF IInv
<1>3. ~Accepts(a, n, c)
  BY <1>1, <1>2 DEF Accepts, OperatorOnly, Covers, Felts
<1> QED
  BY <1>1, <1>3 DEF Attempt

LEMMA StepAttempt ==
    ASSUME IInv, ProvInv', NEW n \in Notes, NEW a, NEW c \in Felts, Attempt(a, n, c)
    PROVE  IInv'
<1>1. /\ attempts' = attempts \union {n}
      /\ UNCHANGED <<provVars, settle, delta, wedges, proposals, printed, failures>>
  BY DEF Attempt
<1>2. UNCHANGED <<escrow, outputs, asked>>
  BY AttemptRefused
<1>3. TypeOK'
  BY <1>1, <1>2 DEF IInv, TypeOK, ProvInv
<1> QED
  BY <1>1, <1>2, <1>3, KeepsSettle DEF IInv

LEMMA StepStartSettle ==
    ASSUME IInv, ProvInv', NEW n \in Notes, NEW c \in Felts, StartSettle(n, c)
    PROVE  IInv'
<1> DEFINE s == [at |-> "client", note |-> n, charge |-> c, operator |-> accounts["operatorMultisig"],
                 seller |-> accounts["sellerMultisig"], faucet |-> accounts["faucet"]]
<1>1. /\ settle.at = "idle" /\ escrow[n].state = "funded" /\ CarriesBart(n)
      /\ c <= escrow[n].budget /\ settle' = s /\ asked' = [asked EXCEPT ![n] = @ \union {c}]
      /\ UNCHANGED <<provVars, escrow, outputs, attempts, delta, wedges, proposals, printed, failures>>
  BY DEF StartSettle, Settleable
<1>2. accounts["faucet"] \in MaybeId /\ accounts["operatorMultisig"] \in MaybeId /\ accounts["sellerMultisig"] \in MaybeId
  BY DEF IInv, ProvInv, ProvTypeOK, Fields
<1>3. c \in Nat
  BY EscrowAssumption DEF Felts
<1>4. /\ s \in Settlement /\ s.at = "client" /\ s.note = n /\ s.charge = c /\ s.faucet = escrow[n].faucet
  BY <1>1, <1>2, <1>3 DEF Settlement, CarriesBart
<1> HIDE DEF s
<1>5. asked \in [Notes -> SUBSET Felts]
  BY DEF IInv, TypeOK
<1>6. /\ asked' \in [Notes -> SUBSET Felts] /\ c \in asked'[n]
      /\ \A m \in Notes : asked[m] \subseteq asked'[m]
  BY <1>1, <1>5
<1>7. TypeOK'
  BY <1>1, <1>4, <1>6 DEF IInv, TypeOK, ProvInv
<1>8. NotesInv'
  BY <1>1, <1>6, KeepsNotes DEF IInv
<1>9. \A m : From(m)' = From(m)
  BY <1>1 DEF From
<1>10. SettleInv'
  BY <1>1, <1>4, <1>6, <1>9 DEF IInv, SettleInv
<1> QED
  BY <1>7, <1>8, <1>10 DEF IInv

LEMMA IdleSettle == Idle \in Settlement /\ Idle.at = "idle"
BY DEF Idle, Settlement, MaybeId

\* The steps that only move the settlement on, or give it up.
LEMMA StepMoves ==
    ASSUME IInv, ProvInv', settle.at # "idle",
           UNCHANGED <<provVars, escrow, outputs, asked, attempts, printed>>,
           delta' \in {"none", "pending", "landed"}, wedges' \in 0..MaxWedges,
           failures' \in 0..MaxFailures, proposals' \in 0..MaxProposals,
           \/ settle' = Idle
           \/ \E at \in {"proposed", "pushed"} :
                  settle' = [settle EXCEPT !.at = at] /\ proposals' > 0
    PROVE  IInv'
<1>1. settle \in Settlement
  BY DEF IInv, TypeOK
<1>2. /\ settle' \in Settlement
      /\ settle'.at = "idle" \/ (settle'.at \in {"proposed", "pushed"} /\ proposals' > 0)
      /\ settle'.at # "idle" =>
             settle'.note = settle.note /\ settle'.charge = settle.charge /\ settle'.faucet = settle.faucet
  <2>1. CASE settle' = Idle
    BY <2>1, IdleSettle
  <2>2. ASSUME NEW at \in {"proposed", "pushed"}, settle' = [settle EXCEPT !.at = at], proposals' > 0
        PROVE  /\ settle' \in Settlement /\ settle'.at = at /\ settle'.note = settle.note
               /\ settle'.charge = settle.charge /\ settle'.faucet = settle.faucet
    BY <1>1, <2>2 DEF Settlement
  <2> QED
    BY <2>1, <2>2
<1>3. TypeOK'
  BY <1>2 DEF IInv, TypeOK, ProvInv
<1>4. NotesInv'
  BY KeepsNotes DEF IInv
<1>5. \A m : From(m)' = From(m)
  BY DEF From
<1>6. SettleInv'
  BY <1>2, <1>5 DEF IInv, SettleInv
<1> QED
  BY <1>3, <1>4, <1>6 DEF IInv

\* The transaction lands, whether settle_session sees it or dies before.
LEMMA StepLands ==
    ASSUME IInv, ProvInv', Lands, UNCHANGED <<provVars, asked, attempts, wedges, printed>>,
           failures' \in 0..MaxFailures,
           settle' = Idle \/ settle' = [settle EXCEPT !.at = "landed"]
    PROVE  IInv'
<1>1. PICK n, c : n = settle.note /\ c = settle.charge
  OBVIOUS
<1>2. /\ escrow' = [escrow EXCEPT ![n].state = "spent"]
      /\ n \in Notes /\ escrow[n].state = "funded" /\ c \in asked[n] /\ c <= escrow[n].budget
      /\ outputs' = outputs \union PaysOut(n, c) /\ PaysOut(n, c) \subseteq Output
      /\ proposals' \in 0..MaxProposals /\ delta' = "landed"
  BY <1>1, LandsSplits DEF IInv, ProvInv
<1>3. /\ NotesInv' /\ From(n)' = NoteFiles(settle) /\ escrow'[n].state = "spent"
      /\ \A m \in Notes : escrow[m].state = "spent" =>
             m # n /\ escrow'[m].state = "spent" /\ From(m)' = From(m)
  BY <1>1, LandsNotes DEF IInv, ProvInv
<1>4. /\ escrow' \in [Notes -> Note]
      /\ \A m \in Notes : escrow'[m].budget = escrow[m].budget /\ escrow'[m].buyer = escrow[m].buyer
                          /\ escrow'[m].faucet = escrow[m].faucet
      /\ \A m \in Notes : escrow'[m].state # "none" =>
             {escrow'[m].faucet, escrow'[m].operator, escrow'[m].seller} \subseteq Nat
  <2>1. /\ n \in Notes /\ "spent" \in {"built", "funded", "spent"}
        /\ escrow[n].state # "none" /\ escrow' = [escrow EXCEPT ![n].state = "spent"]
    BY <1>2
  <2> QED
    BY <2>1, StateMoves DEF IInv
<1>5. settle \in Settlement /\ outputs \subseteq Output
  BY DEF IInv, TypeOK
<1>6. /\ settle' \in Settlement
      /\ \/ settle'.at = "idle"
         \/ /\ settle'.at = "landed" /\ settle'.note = n /\ settle'.charge = c
            /\ settle'.seller = settle.seller /\ settle'.faucet = settle.faucet
  <2>1. CASE settle' = Idle
    BY <2>1, IdleSettle
  <2>2. CASE settle' = [settle EXCEPT !.at = "landed"]
    BY <1>1, <1>5, <2>2 DEF Settlement
  <2> QED
    BY <2>1, <2>2
<1>7. TypeOK'
  BY <1>2, <1>4, <1>5, <1>6 DEF IInv, TypeOK, ProvInv
<1>8. settle.faucet = escrow[n].faucet
  BY <1>1 DEF IInv, SettleInv, Lands
<1>9. settle'.at = "landed" => NoteFiles(settle)' = NoteFiles(settle)
  BY <1>1, <1>2, <1>4, <1>6 DEF NoteFiles
<1>10. \A p \in printed : p.note \in Notes
  BY DEF IInv, TypeOK
<1>11. SettleInv'
  <2>1. \A p \in printed' : escrow'[p.note].state = "spent" /\ p.files = From(p.note)'
    BY <1>3, <1>10 DEF IInv, SettleInv
  <2>2. CASE settle'.at = "idle"
    BY <2>1, <2>2 DEF SettleInv
  <2>3. CASE settle'.at = "landed"
    <3>1. settle'.note = n /\ settle'.charge = c /\ settle'.faucet = settle.faucet
      BY <1>6, <2>3
    <3>2. From(settle.note)' = From(n)'
      BY <3>1 DEF From
    <3>3. From(settle.note)' = NoteFiles(settle)'
      BY <1>3, <1>9, <2>3, <3>2
    <3>4. escrow'[n].faucet = settle.faucet /\ c <= escrow'[n].budget /\ c \in asked'[n]
      BY <1>2, <1>4, <1>8
    <3> QED
      BY <1>2, <1>3, <2>1, <2>3, <3>1, <3>3, <3>4 DEF SettleInv
  <2> QED
    BY <1>6, <2>2, <2>3
<1> QED
  BY <1>3, <1>7, <1>11 DEF IInv

LEMMA StepReport ==
    ASSUME IInv, ProvInv', Report
    PROVE  IInv'
<1> DEFINE new == [note |-> settle.note, files |-> NoteFiles(settle)]
<1>1. /\ settle.at = "landed" /\ printed' = printed \union {new} /\ settle' = Idle
      /\ UNCHANGED <<provVars, escrow, outputs, asked, attempts, delta, wedges, proposals, failures>>
  BY DEF Report
<1>2. /\ settle.note \in Notes /\ escrow[settle.note].state = "spent"
      /\ From(settle.note) = NoteFiles(settle)
  BY <1>1 DEF IInv, SettleInv
<1>3. outputs \subseteq Output
  BY DEF IInv, TypeOK
<1>4. /\ new \in [note : Notes, files : SUBSET Output]
      /\ escrow[new.note].state = "spent" /\ new.files = From(new.note)
  BY <1>2, <1>3 DEF From
<1> HIDE DEF new
<1>5. TypeOK'
  BY <1>1, <1>4, IdleSettle DEF IInv, TypeOK, ProvInv
<1>6. NotesInv'
  BY <1>1, KeepsNotes DEF IInv
<1>7. \A m : From(m)' = From(m)
  BY <1>1 DEF From
<1>8. SettleInv'
  BY <1>1, <1>4, <1>7, IdleSettle DEF IInv, SettleInv
<1> QED
  BY <1>5, <1>6, <1>8 DEF IInv

LEMMA StepSettle ==
    ASSUME IInv, ProvInv', SettleStep
    PROVE  IInv'
<1>0. /\ delta \in {"none", "pending", "landed"} /\ wedges \in 0..MaxWedges
      /\ failures \in 0..MaxFailures /\ proposals \in 0..MaxProposals
      /\ MaxWedges \in Nat /\ MaxProposals \in Nat
  BY EscrowAssumption DEF IInv, TypeOK
<1>1. CASE Propose
  <2>1. proposals' \in 0..MaxProposals /\ proposals' > 0
    BY <1>0, <1>1 DEF Propose
  <2> QED
    BY <1>0, <1>1, <2>1, StepMoves DEF Propose
<1>2. CASE AtTheCap
  BY <1>0, <1>2, StepMoves DEF AtTheCap
<1>3. CASE Push
  <2>1. proposals > 0 /\ wedges' \in 0..MaxWedges
    BY <1>0, <1>3 DEF Push, IInv, SettleInv
  <2> QED
    BY <1>0, <1>3, <2>1, StepMoves DEF Push
<1>4. CASE Wedged
  <2>1. wedges' \in 0..MaxWedges
    BY <1>0, <1>4 DEF Wedged
  <2> QED
    BY <1>0, <1>4, <2>1, StepMoves DEF Wedged
<1>5. CASE SubmitLands
  BY <1>0, <1>5, StepLands DEF SubmitLands
<1>6. CASE Report
  BY <1>6, StepReport
<1> QED
  BY <1>1, <1>2, <1>3, <1>4, <1>5, <1>6 DEF SettleStep

LEMMA StepSettleFails ==
    ASSUME IInv, ProvInv', SettleFails
    PROVE  IInv'
<1>1. /\ settle.at # "idle" /\ failures < MaxFailures /\ failures' = failures + 1 /\ settle' = Idle
      /\ Lands \/ UNCHANGED <<escrow, outputs, delta, proposals>>
      /\ UNCHANGED <<provVars, asked, attempts, wedges, printed>>
  BY DEF SettleFails
<1>2. failures' \in 0..MaxFailures
  BY <1>1, EscrowAssumption DEF IInv, TypeOK
<1>3. CASE Lands
  BY <1>1, <1>2, <1>3, StepLands
<1>4. CASE UNCHANGED <<escrow, outputs, delta, proposals>>
  <2>1. delta \in {"none", "pending", "landed"} /\ wedges \in 0..MaxWedges /\ proposals \in 0..MaxProposals
    BY DEF IInv, TypeOK
  <2> QED
    BY <1>1, <1>2, <1>4, <2>1, StepMoves
<1> QED
  BY <1>1, <1>3, <1>4

LEMMA StepDeltaGone ==
    ASSUME IInv, ProvInv', DeltaGone
    PROVE  IInv'
<1>1. /\ delta' = "none"
      /\ UNCHANGED <<provVars, escrow, outputs, asked, attempts, settle, wedges, proposals, printed, failures>>
  BY DEF DeltaGone
<1>2. TypeOK'
  BY <1>1 DEF IInv, TypeOK, ProvInv
<1> QED
  BY <1>1, <1>2, KeepsSettle DEF IInv

LEMMA StepInv == IInv /\ [Next]_vars => IInv'
<1> SUFFICES ASSUME IInv, [Next]_vars PROVE IInv'
  OBVIOUS
<1>1. ProvInv'
  BY StepProv, StepOfBoth DEF IInv
<1>2. CASE UNCHANGED vars
  <2>1. UNCHANGED escrowVars
    BY <1>2 DEF vars
  <2> QED
    BY <1>1, <2>1, StepOfSetup
<1>3. CASE ProvNext /\ UNCHANGED escrowVars
  BY <1>1, <1>3, StepOfSetup
<1>4. CASE \E n \in Notes, b \in Buyers, v \in Budgets : BuildEscrow(n, b, v)
  BY <1>1, <1>4, StepBuildEscrow
<1>5. CASE \E n \in Notes : Fund(n)
  BY <1>1, <1>5, StepFund
<1>6. CASE \E n \in Notes, a \in Buyers \union {accounts["operatorMultisig"]}, c \in Felts : Attempt(a, n, c)
  BY <1>1, <1>6, StepAttempt
<1>7. CASE \E n \in Notes, c \in Felts : StartSettle(n, c)
  BY <1>1, <1>7, StepStartSettle
<1>8. CASE SettleStep
  BY <1>1, <1>8, StepSettle
<1>9. CASE SettleFails
  BY <1>1, <1>9, StepSettleFails
<1>10. CASE DeltaGone
  BY <1>1, <1>10, StepDeltaGone
<1> QED
  BY <1>2, <1>3, <1>4, <1>5, <1>6, <1>7, <1>8, <1>9, <1>10 DEF Next

LEMMA Invariance == Spec => []IInv
BY InitInv, StepInv, PTL DEF Spec

-----------------------------------------------------------------------------
(* Theorems *)

\* Every variable of the set-up, the note and the settlement stays within its type.
THEOREM Typing == Spec => []TypeOK
<1>1. IInv => TypeOK
  BY DEF IInv
<1> QED
  BY <1>1, Invariance, PTL

\* The outputs of a spent note are the split of its budget at a charge the
\* bridge asked for.
LEMMA SpentSplit ==
    ASSUME IInv, NEW n \in Notes, escrow[n].state = "spent"
    PROVE  \E c \in asked[n] :
             /\ c \in 0..escrow[n].budget
             /\ Paid(n, escrow[n].seller) = {o \in {ToSeller(n, c)} : c > 0}
             /\ Paid(n, escrow[n].buyer) = {o \in {ToBuyer(n, c)} : escrow[n].budget > c}
             /\ \A o \in outputs : o.from = n => o.to \in {escrow[n].seller, escrow[n].buyer}
             /\ escrow[n].budget \in Nat
<1>1. PICK c \in asked[n] : c <= escrow[n].budget /\ From(n) = PaysOut(n, c)
  BY DEF IInv, NotesInv
<1>2. /\ escrow[n].budget \in 1..(Modulus - 1) /\ escrow[n].buyer \notin Nat /\ escrow[n].seller \in Nat
      /\ Modulus \in Nat
  BY BuiltNote, EscrowAssumption DEF IInv
<1>3. c \in Nat /\ escrow[n].budget \in Nat
  BY <1>2 DEF IInv, TypeOK, Felts
<1>4. From(n) = {o \in {ToSeller(n, c), ToBuyer(n, c)} : o.amount > 0}
  BY <1>1, <1>3, SplitOf DEF IInv
<1>5. /\ ToSeller(n, c).to = escrow[n].seller /\ ToSeller(n, c).amount = c
      /\ ToBuyer(n, c).to = escrow[n].buyer /\ ToBuyer(n, c).amount = escrow[n].budget - c
  BY DEF ToSeller, ToBuyer
<1>6. \A to : Paid(n, to) = {o \in From(n) : o.to = to}
  BY DEF Paid, From
<1>7. Paid(n, escrow[n].seller) = {o \in {ToSeller(n, c)} : c > 0}
  BY <1>2, <1>3, <1>4, <1>5, <1>6
<1>8. Paid(n, escrow[n].buyer) = {o \in {ToBuyer(n, c)} : escrow[n].budget > c}
  BY <1>1, <1>2, <1>3, <1>4, <1>5, <1>6
<1>9. \A o \in outputs : o.from = n => o.to \in {escrow[n].seller, escrow[n].buyer}
  BY <1>4, <1>5 DEF From
<1> QED
  BY <1>1, <1>3, <1>7, <1>8, <1>9

\* The budget of a spent note went, whole and once, to the seller and the buyer its
\* storage names, at a charge the bridge asked for (lib.rs:53-104).
THEOREM BudgetSplit == Spec => []BudgetIsSplit
<1>1. ASSUME IInv, NEW n \in Notes, escrow[n].state = "spent"
      PROVE  \E c \in asked[n] \intersect (0..escrow[n].budget) :
               /\ \A o \in outputs : o.from = n => o.to \in {escrow[n].seller, escrow[n].buyer}
               /\ Paid(n, escrow[n].seller) =
                    {o \in Paid(n, escrow[n].seller) : o.amount = c /\ o.faucet = escrow[n].faucet}
               /\ Paid(n, escrow[n].buyer) =
                    {o \in Paid(n, escrow[n].buyer) : o.amount = escrow[n].budget - c}
               /\ c > 0 <=> Paid(n, escrow[n].seller) # {}
               /\ c < escrow[n].budget <=> Paid(n, escrow[n].buyer) # {}
  <2>1. PICK c \in asked[n] :
          /\ c \in 0..escrow[n].budget
          /\ Paid(n, escrow[n].seller) = {o \in {ToSeller(n, c)} : c > 0}
          /\ Paid(n, escrow[n].buyer) = {o \in {ToBuyer(n, c)} : escrow[n].budget > c}
          /\ \A o \in outputs : o.from = n => o.to \in {escrow[n].seller, escrow[n].buyer}
          /\ escrow[n].budget \in Nat
    BY <1>1, SpentSplit
  <2>2. /\ ToSeller(n, c).amount = c /\ ToSeller(n, c).faucet = escrow[n].faucet
        /\ ToBuyer(n, c).amount = escrow[n].budget - c
    BY DEF ToSeller, ToBuyer
  <2> QED
    BY <2>1, <2>2
<1>2. IInv => BudgetIsSplit
  BY <1>1 DEF BudgetIsSplit
<1> QED
  BY <1>2, Invariance, PTL

\* Every note file settle_session printed is that of a note on the chain
\* (settle_session.rs:168-199).
THEOREM FilesOnChain == Spec => []FilesAreOnChain
<1>1. IInv => FilesAreOnChain
  BY DEF IInv, SettleInv, FilesAreOnChain, From
<1> QED
  BY <1>1, Invariance, PTL

-----------------------------------------------------------------------------
(* The ledger *)

Less == OpToRel(<, Nat)

\* A set of amounts within a bound has a highest one, 0 when it is empty.
LEMMA HighestIs ==
    ASSUME NEW m \in Nat, NEW S, S \subseteq 0..m
    PROVE  Highest(S) \in S \union {0} /\ Highest(S) \in Nat /\ \A a \in S : a <= Highest(S)
<1> DEFINE B == S \union {0}
           T == {m - a : a \in B}
<1>1. B \subseteq 0..m /\ T \subseteq Nat /\ m - 0 \in T
  OBVIOUS
<1>2. IsWellFoundedOn(Less, Nat)
  BY NatLessThanWellFounded DEF Less
<1>3. PICK t \in T : \A u \in T : ~ (<<u, t>> \in Less)
  BY <1>1, <1>2, WFMin
<1>4. PICK h \in B : t = m - h
  OBVIOUS
<1>5. ASSUME NEW a \in B PROVE h >= a
  <2>1. m - a \in T /\ m - a \in Nat /\ t \in Nat
    BY <1>1
  <2>2. ~ (m - a < t)
    BY <1>3, <2>1 DEF Less, OpToRel
  <2> QED
    BY <1>1, <1>4, <2>1, <2>2
<1>6. Max(B) \in B /\ \A a \in B : Max(B) >= a
  BY <1>5 DEF Max
<1>7. Highest(S) = Max(B)
  BY DEF Highest
<1> HIDE DEF T
<1>8. Max(B) \in 0..m /\ \A a \in S : a \in 0..m /\ Max(B) >= a
  BY <1>1, <1>6
<1>9. \A a \in S : a <= Max(B)
  BY <1>8
<1> QED
  BY <1>6, <1>7, <1>8, <1>9

\* A step by which one more amount is asked for raises the highest one, at most to it.
LEMMA HighestAdded ==
    ASSUME NEW m \in Nat, NEW S, S \subseteq 0..m, NEW c \in 0..m
    PROVE  Highest(S) <= Highest(S \union {c}) /\ Highest(S \union {c}) <= m
<1>1. S \union {c} \subseteq 0..m
  OBVIOUS
<1>2. Highest(S) \in S \union {0} /\ Highest(S) \in Nat
  BY HighestIs
<1>3. /\ Highest(S \union {c}) \in S \union {c} \union {0} /\ Highest(S \union {c}) \in Nat
      /\ \A a \in S \union {c} : a <= Highest(S \union {c})
  BY <1>1, HighestIs
<1> QED
  BY <1>1, <1>2, <1>3

\* What was asked for is within the hold.
AskedInv == \A n \in Notes : asked[n] \subseteq 0..Quoted(n)

LedgerInv == IInv /\ AskedInv

LEMMA QuotedType ==
    ASSUME IInv, NEW n \in Notes
    PROVE  Quoted(n) \in Nat
<1>1. escrow[n].state # "none" => escrow[n].budget \in 1..(Modulus - 1)
  BY BuiltNote DEF IInv
<1> QED
  BY <1>1 DEF Quoted

\* The ledger's view of a note whose record, outputs and charges stay.
Same(n) ==
    /\ Quoted(n)' = Quoted(n) /\ HoldOf(n)' = HoldOf(n)
    /\ asked'[n] = asked[n] /\ Paid(n, escrow[n].seller)' = Paid(n, escrow[n].seller)

LEMMA NoteFrame ==
    ASSUME NEW n, escrow'[n] = escrow[n], asked'[n] = asked[n], From(n)' = From(n)
    PROVE  Same(n)
<1>1. Paid(n, escrow[n].seller) = {o \in From(n) : o.to = escrow[n].seller}
  BY DEF Paid, From
<1>2. Paid(n, escrow[n].seller)' = {o \in From(n)' : o.to = escrow'[n].seller}
  BY DEF Paid, From
<1> QED
  BY <1>1, <1>2 DEF Same, Quoted, HoldOf

LEMMA LedgerFrame ==
    ASSUME UNCHANGED <<escrow, outputs, asked>>
    PROVE  UNCHANGED Ledger!ledger
<1>1. \A n \in Notes : Same(n)
  BY NoteFrame DEF From
<1> QED
  BY <1>1 DEF Same, Ledger!ledger

LEMMA NothingPaid ==
    ASSUME IInv, NEW n \in Notes, escrow[n].state # "spent"
    PROVE  From(n) = {} /\ \A to : Paid(n, to) = {}
BY DEF IInv, NotesInv, From, Paid

LEMMA QuoteStep ==
    ASSUME LedgerInv, NEW n \in Notes, NEW b \in Buyers, NEW v \in Budgets, BuildEscrow(n, b, v)
    PROVE  Ledger!Quote(n) /\ AskedInv'
<1>1. /\ escrow \in [Notes -> Note] /\ escrow[n].state = "none"
      /\ UNCHANGED <<outputs, asked>> /\ \A m \in Notes : m # n => escrow'[m] = escrow[m]
      /\ escrow'[n].state = "built" /\ escrow'[n].budget = v
  BY DEF BuildEscrow, LedgerInv, IInv, TypeOK
<1>2. \A m \in Notes : m # n => Same(m)
  BY <1>1, NoteFrame DEF From
<1>3. Paid(n, escrow[n].seller) = {} /\ Paid(n, escrow[n].seller)' = {}
  BY <1>1, NothingPaid DEF LedgerInv, Paid
<1>4. /\ Quoted(n) = 0 /\ Quoted(n)' = v /\ v \in Nat
      /\ HoldOf(n) = "none" /\ HoldOf(n)' = "none"
  BY <1>1, EscrowAssumption DEF Quoted, HoldOf
<1>5. Ledger!Quote(n)
  BY <1>1, <1>2, <1>3, <1>4 DEF Ledger!Quote, Ledger!ChangesAt, Same
<1>6. AskedInv'
  BY <1>1, <1>2, <1>4 DEF LedgerInv, AskedInv, Same
<1> QED
  BY <1>5, <1>6

LEMMA LockStep ==
    ASSUME LedgerInv, NEW n \in Notes, Fund(n)
    PROVE  Ledger!Lock(n) /\ AskedInv'
<1>1. /\ escrow[n].state = "built" /\ escrow' = [escrow EXCEPT ![n].state = "funded"]
      /\ UNCHANGED <<outputs, asked>> /\ escrow \in [Notes -> Note]
  BY DEF Fund, LedgerInv, IInv, TypeOK
<1>2. /\ \A m \in Notes : m # n => escrow'[m] = escrow[m]
      /\ escrow'[n].state = "funded" /\ escrow'[n].budget = escrow[n].budget
      /\ escrow'[n].seller = escrow[n].seller
  BY <1>1 DEF Note
<1>3. \A m \in Notes : m # n => Same(m)
  BY <1>1, <1>2, NoteFrame DEF From
<1>4. /\ Paid(n, escrow[n].seller)' = Paid(n, escrow[n].seller)
      /\ Quoted(n)' = Quoted(n) /\ HoldOf(n) = "none" /\ HoldOf(n)' = "held"
  BY <1>1, <1>2 DEF Paid, Quoted, HoldOf
<1>5. Ledger!Lock(n)
  <2>1. \A m \in Notes : /\ Quoted(m)' = Quoted(m) /\ asked'[m] = asked[m]
                         /\ Paid(m, escrow[m].seller)' = Paid(m, escrow[m].seller)
                         /\ HoldOf(m)' = IF m = n THEN "held" ELSE HoldOf(m)
    BY <1>1, <1>3, <1>4 DEF Same
  <2> QED
    BY <1>4, <2>1 DEF Ledger!Lock
<1>6. AskedInv'
  BY <1>1, <1>3, <1>4 DEF LedgerInv, AskedInv, Same
<1> QED
  BY <1>5, <1>6

LEMMA BillStep ==
    ASSUME LedgerInv, NEW n \in Notes, NEW c \in Felts, StartSettle(n, c)
    PROVE  Ledger!Bill(n) /\ AskedInv'
<1>1. /\ escrow[n].state = "funded" /\ c <= escrow[n].budget
      /\ asked' = [asked EXCEPT ![n] = @ \union {c}] /\ UNCHANGED <<escrow, outputs>>
      /\ asked \in [Notes -> SUBSET Felts]
  BY DEF StartSettle, LedgerInv, IInv, TypeOK
<1>2. asked'[n] = asked[n] \union {c} /\ \A m \in Notes : m # n => asked'[m] = asked[m]
  BY <1>1
<1>3. Quoted(n) \in Nat /\ c \in 0..Quoted(n) /\ asked[n] \subseteq 0..Quoted(n)
  <2>1. Quoted(n) \in Nat
    BY QuotedType DEF LedgerInv
  <2> QED
    BY <1>1, <2>1, EscrowAssumption DEF LedgerInv, AskedInv, Quoted, Felts
<1>4. Highest(asked'[n]) \in Highest(asked[n])..Quoted(n)
  <2>1. /\ Highest(asked[n]) <= Highest(asked'[n]) /\ Highest(asked'[n]) <= Quoted(n)
    BY <1>2, <1>3, HighestAdded
  <2>2. Highest(asked[n]) \in Nat /\ Highest(asked'[n]) \in Nat
    <3>1. asked'[n] \subseteq 0..Quoted(n)
      BY <1>2, <1>3
    <3> QED
      BY <1>3, <3>1, HighestIs
  <2> QED
    BY <1>3, <2>1, <2>2
<1>5. /\ \A m \in Notes : Quoted(m)' = Quoted(m) /\ HoldOf(m)' = HoldOf(m)
      /\ \A m \in Notes : Paid(m, escrow[m].seller)' = Paid(m, escrow[m].seller)
      /\ HoldOf(n) # "none"
  BY <1>1 DEF Quoted, HoldOf, Paid
<1>6. Ledger!Bill(n)
  BY <1>2, <1>4, <1>5 DEF Ledger!Bill, Ledger!ChangesAt
<1>7. AskedInv'
  BY <1>2, <1>3, <1>5 DEF LedgerInv, AskedInv
<1> QED
  BY <1>6, <1>7

\* The script of a settlement that landed paid the seller its charge, which was asked for.
LEMMA ReleaseStep ==
    ASSUME LedgerInv, Lands, UNCHANGED <<asked, printed>>,
           NEW n, NEW c, n = settle.note, c = settle.charge
    PROVE  n \in Notes /\ Ledger!Release(n) /\ AskedInv'
<1>1. /\ escrow' = [escrow EXCEPT ![n].state = "spent"]
      /\ n \in Notes /\ escrow[n].state = "funded"
      /\ c \in Nat /\ c <= escrow[n].budget /\ c \in asked[n]
      /\ outputs' = outputs \union PaysOut(n, c)
  BY LandsSplits DEF LedgerInv, IInv, ProvInv
<1>2. /\ escrow \in [Notes -> Note] /\ \A m \in Notes : m # n => escrow'[m] = escrow[m]
      /\ escrow'[n].state = "spent" /\ escrow'[n].budget = escrow[n].budget
      /\ escrow'[n].seller = escrow[n].seller
  <2>1. escrow \in [Notes -> Note]
    BY DEF LedgerInv, IInv, TypeOK
  <2> QED
    BY <1>1, <2>1 DEF Note
<1>3. \A o \in PaysOut(n, c) : o.from = n
  BY DEF PaysOut
<1>4. \A m \in Notes : m # n => Same(m)
  BY <1>1, <1>2, <1>3, NoteFrame DEF From
<1>5. /\ escrow[n].buyer \notin Nat /\ escrow[n].seller \in Nat
      /\ PaysOut(n, c) = {o \in {ToSeller(n, c), ToBuyer(n, c)} : o.amount > 0}
  BY <1>1, BuiltNote, SplitOf DEF LedgerInv, IInv
<1> DEFINE paid(m) == Highest({o.amount : o \in Paid(m, escrow[m].seller)})
           amounts == {o.amount : o \in {p \in outputs' : p.from = n /\ p.to = escrow'[n].seller}}
<1>6. amounts \subseteq {c}
  <2>1. From(n) = {}
    BY <1>1, NothingPaid DEF LedgerInv
  <2>2. \A p \in outputs' : p.from = n => p \in PaysOut(n, c)
    BY <1>1, <2>1 DEF From
  <2>3. /\ ToSeller(n, c).to = escrow[n].seller /\ ToSeller(n, c).amount = c
        /\ ToBuyer(n, c).to = escrow[n].buyer
    BY DEF ToSeller, ToBuyer
  <2> QED
    BY <1>2, <1>5, <2>2, <2>3
<1>7. /\ asked[n] \subseteq 0..Quoted(n) /\ Quoted(n) \in Nat
      /\ c <= Highest(asked[n]) /\ Highest(asked[n]) \in Nat
  <2>1. asked[n] \subseteq 0..Quoted(n) /\ Quoted(n) \in Nat
    BY <1>1, QuotedType DEF LedgerInv, AskedInv
  <2> QED
    BY <1>1, <2>1, HighestIs
<1> HIDE DEF amounts
<1>8. Highest(amounts) \in 0..Highest(asked[n])
  <2>1. amounts \subseteq 0..c
    BY <1>1, <1>6
  <2>2. Highest(amounts) \in amounts \union {0}
    BY <1>1, <2>1, HighestIs
  <2> QED
    BY <1>1, <1>6, <1>7, <2>2
<1>9. Quoted(n)' = Quoted(n) /\ HoldOf(n) = "held" /\ HoldOf(n)' = "released"
  BY <1>1, <1>2 DEF Quoted, HoldOf
<1>10. paid(n)' = Highest(amounts)
  BY DEF amounts, Paid
<1>11. \A m \in Notes : m # n => paid(m)' = paid(m)
  BY <1>4 DEF Same
<1> HIDE DEF paid
<1>12. Ledger!Release(n)
  <2>1. \A m \in Notes : /\ Quoted(m)' = Quoted(m)
                         /\ HoldOf(m)' = IF m = n THEN "released" ELSE HoldOf(m)
    BY <1>4, <1>9 DEF Same
  <2>2. /\ [m \in Notes |-> HoldOf(m)]' = [[m \in Notes |-> HoldOf(m)] EXCEPT ![n] = "released"]
        /\ UNCHANGED <<[m \in Notes |-> Quoted(m)], [m \in Notes |-> Highest(asked[m])]>>
    BY <2>1
  <2>3. /\ [m \in Notes |-> paid(m)]'[n] \in 0..[m \in Notes |-> Highest(asked[m])][n]
        /\ [m \in Notes |-> paid(m)]' =
             [[m \in Notes |-> paid(m)] EXCEPT ![n] = [m \in Notes |-> paid(m)]'[n]]
    BY <1>1, <1>8, <1>10, <1>11
  <2> QED
    BY <1>1, <1>9, <2>2, <2>3 DEF Ledger!Release, Ledger!ChangesAt, paid
<1>13. AskedInv'
  BY <1>1, <1>4, <1>9 DEF LedgerInv, AskedInv, Same
<1> QED
  BY <1>1, <1>12, <1>13

LEMMA LedgerStays ==
    ASSUME LedgerInv, UNCHANGED <<escrow, outputs, asked>>
    PROVE  [Ledger!Next]_(Ledger!ledger) /\ AskedInv'
<1>1. AskedInv'
  BY DEF LedgerInv, AskedInv, Quoted
<1> QED
  BY <1>1, LedgerFrame

LEMMA LedgerStep ==
    ASSUME LedgerInv, [Next]_vars
    PROVE  [Ledger!Next]_(Ledger!ledger) /\ AskedInv'
<1>1. CASE UNCHANGED vars \/ (ProvNext /\ UNCHANGED escrowVars) \/ DeltaGone
  <2>1. UNCHANGED <<escrow, outputs, asked>>
    BY <1>1 DEF vars, escrowVars, DeltaGone
  <2> QED
    BY <2>1, LedgerStays
<1>2. CASE \E n \in Notes, b \in Buyers, v \in Budgets : BuildEscrow(n, b, v)
  BY <1>2, QuoteStep DEF Ledger!Next
<1>3. CASE \E n \in Notes : Fund(n)
  BY <1>3, LockStep DEF Ledger!Next
<1>4. CASE \E n \in Notes, a \in Buyers \union {accounts["operatorMultisig"]}, c \in Felts : Attempt(a, n, c)
  BY <1>4, AttemptRefused, LedgerStays DEF LedgerInv
<1>5. CASE \E n \in Notes, c \in Felts : StartSettle(n, c)
  BY <1>5, BillStep DEF Ledger!Next
<1>6. ASSUME Lands, UNCHANGED <<asked, printed>>
      PROVE  [Ledger!Next]_(Ledger!ledger) /\ AskedInv'
  <2>1. PICK n, c : n = settle.note /\ c = settle.charge
    OBVIOUS
  <2>2. n \in Notes /\ Ledger!Release(n) /\ AskedInv'
    BY <1>6, <2>1, ReleaseStep
  <2> QED
    BY <2>2 DEF Ledger!Next
<1>7. CASE SettleStep
  <2>1. CASE Propose \/ AtTheCap \/ Push \/ Wedged \/ Report
    <3>1. UNCHANGED <<escrow, outputs, asked>>
      BY <2>1 DEF Propose, AtTheCap, Push, Wedged, Report
    <3> QED
      BY <3>1, LedgerStays
  <2>2. CASE SubmitLands
    BY <1>6, <2>2 DEF SubmitLands
  <2> QED
    BY <1>7, <2>1, <2>2 DEF SettleStep
<1>8. CASE SettleFails
  <2>1. UNCHANGED <<asked, printed>> /\ (Lands \/ UNCHANGED <<escrow, outputs, delta, proposals>>)
    BY <1>8 DEF SettleFails
  <2>2. CASE Lands
    BY <1>6, <2>1, <2>2
  <2>3. CASE UNCHANGED <<escrow, outputs, delta, proposals>>
    BY <2>1, <2>3, LedgerStays
  <2> QED
    BY <2>1, <2>2, <2>3
<1> QED
  BY <1>1, <1>2, <1>3, <1>4, <1>5, <1>7, <1>8 DEF Next

LEMMA InitLedger == Init => LedgerInv /\ Ledger!Init
<1> SUFFICES ASSUME Init PROVE LedgerInv /\ Ledger!Init
  OBVIOUS
<1>1. IInv
  BY InitInv
<1>2. \A n \in Notes : escrow[n] = NoNote /\ asked[n] = {} /\ outputs = {}
  BY DEF Init
<1>3. \A n \in Notes : Quoted(n) = 0 /\ HoldOf(n) = "none"
  BY <1>2 DEF Quoted, HoldOf, NoNote
<1>4. Highest({}) = 0
  BY HighestIs
<1>5. \A n \in Notes : {o.amount : o \in Paid(n, escrow[n].seller)} = {}
  BY <1>2 DEF Paid
<1>6. Ledger!Init
  BY <1>2, <1>3, <1>4, <1>5 DEF Ledger!Init
<1> QED
  BY <1>1, <1>2, <1>6 DEF LedgerInv, AskedInv

\* The note and the settlement binaries keep the promise that the bridge makes about a
\* hold: it is locked before anything is asked of it and released once, paying no more
\* than was asked and never more than it held (server.js:565-592, settle_session.rs:34-199,
\* lib.rs:53-104).
THEOREM Refinement == Spec => ImplementsLedger
<1>1. Init => LedgerInv /\ Ledger!Init
  BY InitLedger
<1>2. LedgerInv /\ [Next]_vars => LedgerInv'
  BY StepInv, LedgerStep DEF LedgerInv
<1>3. LedgerInv /\ [Next]_vars => [Ledger!Next]_(Ledger!ledger)
  BY LedgerStep
<1> QED
  BY <1>1, <1>2, <1>3, PTL DEF Spec, ImplementsLedger, Ledger!Spec
=============================================================================
