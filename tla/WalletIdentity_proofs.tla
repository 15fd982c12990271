------------------------- MODULE WalletIdentity_proofs -------------------------
(***************************************************************************)
(* Theorems about WalletIdentity, for any bounds on the ids and failures.   *)
(* FundsReachable is proved for a browser with one tab: with two tabs of a  *)
(* first visit TLC finds it broken.                                         *)
(***************************************************************************)
EXTENDS WalletIdentity, TLAPS

OneTab == \A t, u \in Tabs : t = u

\* What localStorage holds is on the Guardian, and is all that was ever used.
StoredInv ==
    stored.account # 0 =>
        stored.signer # 0 /\ [key |-> stored.signer, id |-> stored.account] \in registry

\* The tab's key is the saved one; from "create" to "save" no account is saved, so that
\* what the tab makes cannot replace one.
TabInv ==
    \A t \in Tabs :
        /\ tab[t].at # "closed" => tab[t].key = stored.signer /\ stored.signer # 0
        /\ tab[t].at \in {"create", "register", "save"} => stored.account = 0
        /\ tab[t].at \in {"register", "save"} => tab[t].id # 0
        /\ tab[t].at = "save" => [key |-> tab[t].key, id |-> tab[t].id] \in registry
        /\ tab[t].at = "ready" => stored.account # 0 /\ tab[t].id = stored.account

IdentityInv == TypeOK /\ StoredInv /\ TabInv /\ FundsReachable

Stage == {"closed", "account", "create", "register", "save", "ready"}

LEMMA StageUpdate ==
    ASSUME NEW r \in Tab, NEW a \in Stage
    PROVE  /\ [r EXCEPT !.at = a] \in Tab /\ [r EXCEPT !.at = a].at = a
           /\ [r EXCEPT !.at = a].key = r.key /\ [r EXCEPT !.at = a].id = r.id
BY DEF Tab, Stage

\* While no account is saved nobody was shown one.
LEMMA NothingUsedYet ==
    ASSUME IdentityInv
    PROVE  stored.account = 0 \/ stored.signer = 0 => used = {}
<1>1. \A e \in used : e \in Account /\ e.key # 0 /\ e.id # 0
  BY DEF IdentityInv, TypeOK
<1>2. \A e \in used : e.key = stored.signer /\ e.id = stored.account
  BY DEF IdentityInv, FundsReachable
<1> QED
  BY <1>1, <1>2

\* The only tab moved and localStorage did not.
LEMMA TabMoves ==
    ASSUME OneTab, IdentityInv, NEW t \in Tabs, NEW r \in Tab, tab' = [tab EXCEPT ![t] = r],
           stored' = stored, registry \subseteq registry', registry' \subseteq Account,
           \A e \in registry' : e.key # 0 /\ e.id # 0, UNCHANGED used,
           ids' \in Id, failures' \in 0..MaxFailures,
           r.at # "closed" => r.key = stored.signer /\ stored.signer # 0,
           r.at \in {"create", "register", "save"} => stored.account = 0,
           r.at \in {"register", "save"} => r.id # 0,
           r.at = "save" => [key |-> r.key, id |-> r.id] \in registry',
           r.at = "ready" => stored.account # 0 /\ r.id = stored.account
    PROVE  IdentityInv'
<1>1. tab \in [Tabs -> Tab] /\ \A u \in Tabs : u = t
  BY DEF IdentityInv, TypeOK, OneTab
<1>2. tab' \in [Tabs -> Tab] /\ \A u \in Tabs : tab'[u] = r
  BY <1>1
<1>3. TypeOK'
  BY <1>2 DEF IdentityInv, TypeOK
<1>4. StoredInv' /\ FundsReachable'
  BY DEF IdentityInv, StoredInv, FundsReachable
<1>5. TabInv'
  BY <1>2 DEF TabInv
<1> QED
  BY <1>3, <1>4, <1>5 DEF IdentityInv

LEMMA StepIdentity ==
    ASSUME IdentityAssumption, OneTab, IdentityInv, [Next]_vars
    PROVE  IdentityInv'
<1>0. /\ TypeOK /\ stored.signer \in Id /\ stored.account \in Id /\ ids \in Id
      /\ 0 \in Id /\ failures \in 0..MaxFailures /\ Id \subseteq Nat /\ MaxFailures \in Nat
  BY DEF IdentityInv, TypeOK, IdentityAssumption, Id
<1>1. ASSUME NEW t \in Tabs
      PROVE  /\ tab[t] \in Tab /\ tab[t].key \in Id /\ tab[t].id \in Id
             /\ \A u \in Tabs : u = t
  BY <1>0 DEF TypeOK, Tab, OneTab
<1>2. ASSUME NewId PROVE ids' \in Id /\ ids + 1 \in Id /\ ids + 1 # 0 /\ ids' = ids + 1
  BY <1>0, <1>2 DEF NewId, Id, IdentityAssumption
<1>3. ASSUME failures < MaxFailures, failures' = failures + 1 PROVE failures' \in 0..MaxFailures
  BY <1>0, <1>3
<1>4. ASSUME NEW k \in Id PROVE [Closed EXCEPT !.at = "account", !.key = k] \in Tab
                                /\ [Closed EXCEPT !.at = "account", !.key = k].at = "account"
                                /\ [Closed EXCEPT !.at = "account", !.key = k].key = k
  BY <1>0 DEF Closed, Tab
<1>5. Closed \in Tab /\ Closed.at = "closed"
  BY <1>0 DEF Closed, Tab
<1>6. registry \subseteq Account /\ \A e \in registry : e.key # 0 /\ e.id # 0
  BY <1>0 DEF TypeOK
<1>7. ASSUME NEW t \in Tabs, tab[t].at # "closed"
      PROVE  tab[t].key = stored.signer /\ stored.signer # 0
  BY <1>7 DEF IdentityInv, TabInv
<1>8. ASSUME NEW t \in Tabs, LoadSigner(t) PROVE IdentityInv'
  <2>1. CASE stored.signer # 0
    <3>1. /\ tab' = [tab EXCEPT ![t] = [Closed EXCEPT !.at = "account", !.key = stored.signer]]
          /\ UNCHANGED <<stored, ids, registry, used, failures>>
      BY <1>8, <2>1 DEF LoadSigner
    <3> QED
      BY <1>0, <1>4, <1>6, <2>1, <3>1, TabMoves
  <2>2. CASE stored.signer = 0
    <3> DEFINE r == [Closed EXCEPT !.at = "account", !.key = ids + 1]
    <3>1. /\ NewId /\ stored' = [stored EXCEPT !.signer = ids + 1]
          /\ tab' = [tab EXCEPT ![t] = r] /\ UNCHANGED <<registry, used, failures>>
      BY <1>8, <2>2 DEF LoadSigner, SavesSigner
    <3>2. r \in Tab /\ r.at = "account" /\ r.key = ids + 1
      BY <1>2, <1>4, <3>1
    <3>3. used = {} /\ stored.account = 0
      BY <2>2, NothingUsedYet DEF IdentityInv, StoredInv
    <3>4. stored' \in [signer : Id, account : Id] /\ stored'.signer = ids + 1 /\ stored'.account = 0
      BY <1>0, <1>2, <3>1, <3>3 DEF TypeOK
    <3> HIDE DEF r
    <3>5. tab' \in [Tabs -> Tab] /\ \A u \in Tabs : tab'[u] = r
      BY <1>0, <1>1, <3>1, <3>2 DEF TypeOK
    <3>6. TypeOK'
      BY <1>0, <1>2, <3>1, <3>4, <3>5 DEF TypeOK
    <3>7. StoredInv' /\ FundsReachable'
      BY <3>1, <3>3, <3>4 DEF StoredInv, FundsReachable
    <3>8. TabInv'
      BY <1>2, <3>1, <3>2, <3>4, <3>5 DEF TabInv
    <3> QED
      BY <3>6, <3>7, <3>8 DEF IdentityInv
  <2> QED
    BY <2>1, <2>2
<1>9. ASSUME NEW t \in Tabs, LoadAccount(t) PROVE IdentityInv'
  <2> DEFINE r == [tab[t] EXCEPT !.at = "ready", !.id = stored.account]
  <2>1. /\ tab[t].at = "account" /\ stored.account # 0
        /\ tab' = [tab EXCEPT ![t] = r] /\ UNCHANGED <<stored, registry, used, ids, failures>>
    BY <1>0, <1>9 DEF LoadAccount, TypeOK
  <2>2. r \in Tab /\ r.at = "ready" /\ r.key = tab[t].key /\ r.id = stored.account
    BY <1>0, <1>1 DEF Tab
  <2> HIDE DEF r
  <2> QED
    BY <1>0, <1>6, <1>7, <2>1, <2>2, TabMoves
<1>10. ASSUME NEW t \in Tabs, Recover(t) \/ RecoverFails(t) PROVE IdentityInv'
  <2>1. /\ tab[t].at = "account" /\ stored.account = 0
        /\ UNCHANGED <<stored, registry, used, ids>> /\ failures' \in 0..MaxFailures
    BY <1>0, <1>3, <1>10 DEF Recover, RecoverFails
  <2>2. CASE tab' = [tab EXCEPT ![t].at = "create"]
    <3> DEFINE r == [tab[t] EXCEPT !.at = "create"]
    <3>1. tab' = [tab EXCEPT ![t] = r]
      BY <1>0, <2>2 DEF TypeOK
    <3>2. r \in Tab /\ r.at = "create" /\ r.key = tab[t].key
      BY <1>0, <1>1, StageUpdate DEF Stage
    <3> HIDE DEF r
    <3> QED
      BY <1>0, <1>6, <1>7, <2>1, <3>1, <3>2, TabMoves
  <2>3. ASSUME NEW e \in OfKey(t), Recovered(t, e) PROVE IdentityInv'
    <3> DEFINE r == [tab[t] EXCEPT !.at = "save", !.id = e.id]
    <3>1. tab' = [tab EXCEPT ![t] = r]
      BY <1>0, <2>3 DEF Recovered, TypeOK
    <3>2. /\ e \in registry /\ e.key = tab[t].key /\ e.id \in Id /\ e.id # 0
          /\ e = [key |-> e.key, id |-> e.id]
      BY <1>6, <2>3 DEF OfKey, Account
    <3>3. r \in Tab /\ r.at = "save" /\ r.key = tab[t].key /\ r.id = e.id
      BY <1>1, <3>2 DEF Tab
    <3> HIDE DEF r
    <3> QED
      BY <1>0, <1>6, <1>7, <2>1, <3>1, <3>2, <3>3, TabMoves
  <2> QED
    BY <1>10, <2>2, <2>3 DEF Recover, RecoverFails
<1>11. ASSUME NEW t \in Tabs, Create(t) PROVE IdentityInv'
  <2> DEFINE r == [tab[t] EXCEPT !.at = "register", !.id = ids + 1]
  <2>1. /\ tab[t].at = "create" /\ NewId
        /\ tab' = [tab EXCEPT ![t] = r] /\ UNCHANGED <<stored, registry, used, failures>>
    BY <1>0, <1>11 DEF Create, TypeOK
  <2>2. r \in Tab /\ r.at = "register" /\ r.key = tab[t].key /\ r.id = ids + 1
    BY <1>1, <1>2, <2>1 DEF Tab
  <2>3. stored.account = 0
    BY <2>1 DEF IdentityInv, TabInv
  <2> HIDE DEF r
  <2> QED
    BY <1>0, <1>2, <1>6, <1>7, <2>1, <2>2, <2>3, TabMoves
<1>12. ASSUME NEW t \in Tabs, tab[t].at = "register", OnGuardian(t)
       PROVE  /\ registry \subseteq registry' /\ registry' \subseteq Account
              /\ \A e \in registry' : e.key # 0 /\ e.id # 0
              /\ [key |-> tab[t].key, id |-> tab[t].id] \in registry'
              /\ tab[t].id # 0 /\ stored.account = 0
  <2>1. tab[t].id # 0 /\ stored.account = 0 /\ tab[t].key # 0
    BY <1>7, <1>12 DEF IdentityInv, TabInv
  <2>2. [key |-> tab[t].key, id |-> tab[t].id] \in Account
    BY <1>1 DEF Account
  <2> QED
    BY <1>6, <1>12, <2>1, <2>2 DEF OnGuardian
<1>13. ASSUME NEW t \in Tabs, Register(t) PROVE IdentityInv'
  <2> DEFINE r == [tab[t] EXCEPT !.at = "save"]
  <2>1. /\ tab[t].at = "register" /\ OnGuardian(t)
        /\ tab' = [tab EXCEPT ![t] = r] /\ UNCHANGED <<stored, used, ids, failures>>
    BY <1>0, <1>13 DEF Register, TypeOK
  <2>2. r \in Tab /\ r.at = "save" /\ r.key = tab[t].key /\ r.id = tab[t].id
    BY <1>0, <1>1, StageUpdate DEF Stage
  <2> HIDE DEF r
  <2> QED
    BY <1>0, <1>7, <1>12, <2>1, <2>2, TabMoves
<1>14. ASSUME NEW t \in Tabs, SaveAccount(t) PROVE IdentityInv'
  <2> DEFINE r == [tab[t] EXCEPT !.at = "ready"]
  <2>1. /\ tab[t].at = "save" /\ stored' = [stored EXCEPT !.account = tab[t].id]
        /\ tab' = [tab EXCEPT ![t] = r] /\ UNCHANGED <<registry, used, ids, failures>>
    BY <1>0, <1>14 DEF SaveAccount, TypeOK
  <2>2. r \in Tab /\ r.at = "ready" /\ r.key = tab[t].key /\ r.id = tab[t].id
    BY <1>0, <1>1, StageUpdate DEF Stage
  <2>3. /\ stored.account = 0 /\ tab[t].id # 0 /\ tab[t].key = stored.signer /\ stored.signer # 0
        /\ [key |-> tab[t].key, id |-> tab[t].id] \in registry
    BY <2>1 DEF IdentityInv, TabInv
  <2>4. used = {}
    BY <2>3, NothingUsedYet
  <2>5. /\ stored' \in [signer : Id, account : Id]
        /\ stored'.signer = stored.signer /\ stored'.account = tab[t].id
    BY <1>0, <1>1, <2>1 DEF TypeOK
  <2> HIDE DEF r
  <2>6. tab' \in [Tabs -> Tab] /\ \A u \in Tabs : tab'[u] = r
    BY <1>0, <1>1, <2>1, <2>2 DEF TypeOK
  <2>7. TypeOK'
    BY <1>0, <2>1, <2>5, <2>6 DEF TypeOK
  <2>8. StoredInv' /\ FundsReachable'
    BY <2>1, <2>3, <2>4, <2>5 DEF StoredInv, FundsReachable
  <2>9. TabInv'
    BY <2>1, <2>2, <2>3, <2>5, <2>6 DEF TabInv
  <2> QED
    BY <2>7, <2>8, <2>9 DEF IdentityInv
<1>15. ASSUME NEW t \in Tabs, Use(t) PROVE IdentityInv'
  <2> DEFINE e == [key |-> tab[t].key, id |-> tab[t].id]
  <2>1. /\ tab[t].at = "ready" /\ used' = used \union {e}
        /\ UNCHANGED <<stored, tab, registry, ids, failures>>
    BY <1>15 DEF Use
  <2>2. /\ tab[t].key = stored.signer /\ stored.signer # 0
        /\ stored.account # 0 /\ tab[t].id = stored.account
    BY <2>1 DEF IdentityInv, TabInv
  <2>3. e = [key |-> stored.signer, id |-> stored.account] /\ e \in registry
    BY <2>2 DEF IdentityInv, StoredInv
  <2> HIDE DEF e
  <2>4. FundsReachable'
    BY <2>1, <2>3 DEF IdentityInv, FundsReachable
  <2>5. TypeOK'
    BY <1>0, <1>6, <2>1, <2>3 DEF TypeOK
  <2>6. StoredInv' /\ TabInv'
    BY <2>1 DEF IdentityInv, StoredInv, TabInv
  <2> QED
    BY <2>4, <2>5, <2>6 DEF IdentityInv
<1>16. ASSUME NEW t \in Tabs, Fail(t) \/ Reload(t) PROVE IdentityInv'
  <2>1. tab' = [tab EXCEPT ![t] = Closed] /\ UNCHANGED <<stored, used, ids>>
        /\ failures' \in 0..MaxFailures
    BY <1>0, <1>3, <1>16 DEF Fail, Reload
  <2>2. /\ registry \subseteq registry' /\ registry' \subseteq Account
        /\ \A e \in registry' : e.key # 0 /\ e.id # 0
    BY <1>6, <1>12, <1>16 DEF Fail, Reload
  <2> QED
    BY <1>0, <1>5, <2>1, <2>2, TabMoves
<1>17. CASE UNCHANGED vars
  BY <1>17 DEF vars, IdentityInv, TypeOK, StoredInv, TabInv, FundsReachable
<1> QED
  BY <1>8, <1>9, <1>10, <1>11, <1>13, <1>14, <1>15, <1>16, <1>17 DEF Next, InitStep

LEMMA InitIdentity == ASSUME IdentityAssumption, Init PROVE IdentityInv
<1>1. 0 \in Id /\ 0 \in 0..MaxFailures
  BY DEF IdentityAssumption, Id
<1>2. Closed \in Tab /\ Closed.at = "closed"
  BY <1>1 DEF Closed, Tab
<1>3. TypeOK
  BY <1>1, <1>2 DEF Init, TypeOK
<1>4. StoredInv /\ TabInv /\ FundsReachable
  BY <1>2 DEF Init, StoredInv, TabInv, FundsReachable
<1> QED
  BY <1>3, <1>4 DEF IdentityInv

\* With one tab, every account its user was shown, and may have been paid into, is the
\* one localStorage names, under the key it holds, and is known to the Guardian: no
\* failed call, closed page or reload on the way orphans it (wallet.js:66-97).
THEOREM OneTabKeepsFunds ==
    ASSUME IdentityAssumption, OneTab
    PROVE  Spec => []FundsReachable
<1>1. Init => IdentityInv
  BY InitIdentity
<1>2. IdentityInv /\ [Next]_vars => IdentityInv'
  BY StepIdentity
<1>3. IdentityInv => FundsReachable
  BY DEF IdentityInv
<1> QED
  BY <1>1, <1>2, <1>3, PTL DEF Spec

-----------------------------------------------------------------------------
(* Types, with any number of tabs *)

\* A tab has a key once init runs and an account once it made or found one.
NamedInv ==
    \A t \in Tabs :
        /\ tab[t].at # "closed" => tab[t].key # 0
        /\ tab[t].at \in {"register", "save", "ready"} => tab[t].id # 0

TypedInv == TypeOK /\ NamedInv

\* A tab moves, whatever localStorage becomes.
LEMMA TabMovesTyped ==
    ASSUME TypedInv, NEW t \in Tabs, NEW r \in Tab, tab' = [tab EXCEPT ![t] = r],
           stored' \in [signer : Id, account : Id], registry' \subseteq Account,
           \A e \in registry' : e.key # 0 /\ e.id # 0, UNCHANGED used,
           ids' \in Id, failures' \in 0..MaxFailures,
           r.at # "closed" => r.key # 0,
           r.at \in {"register", "save", "ready"} => r.id # 0
    PROVE  TypedInv'
<1>1. tab \in [Tabs -> Tab]
  BY DEF TypedInv, TypeOK
<1>2. tab' \in [Tabs -> Tab] /\ \A u \in Tabs : tab'[u] = IF u = t THEN r ELSE tab[u]
  BY <1>1
<1>3. TypeOK'
  BY <1>2 DEF TypedInv, TypeOK
<1>4. NamedInv'
  BY <1>2 DEF TypedInv, NamedInv
<1> QED
  BY <1>3, <1>4 DEF TypedInv

LEMMA StepTyped ==
    ASSUME IdentityAssumption, TypedInv, [Next]_vars
    PROVE  TypedInv'
<1>0. /\ TypeOK /\ stored \in [signer : Id, account : Id]
      /\ stored.signer \in Id /\ stored.account \in Id /\ ids \in Id
      /\ 0 \in Id /\ failures \in 0..MaxFailures /\ Id \subseteq Nat /\ MaxFailures \in Nat
      /\ registry \subseteq Account /\ \A e \in registry : e.key # 0 /\ e.id # 0
  BY DEF TypedInv, TypeOK, IdentityAssumption, Id
<1>1. ASSUME NEW t \in Tabs
      PROVE  /\ tab[t] \in Tab /\ tab[t].key \in Id /\ tab[t].id \in Id
             /\ tab[t].at # "closed" => tab[t].key # 0
             /\ tab[t].at \in {"register", "save", "ready"} => tab[t].id # 0
  BY <1>0 DEF TypedInv, NamedInv, TypeOK, Tab
<1>2. ASSUME NewId PROVE ids' \in Id /\ ids + 1 \in Id /\ ids + 1 # 0 /\ ids' = ids + 1
  BY <1>0, <1>2 DEF NewId, Id, IdentityAssumption
<1>3. ASSUME failures < MaxFailures, failures' = failures + 1 PROVE failures' \in 0..MaxFailures
  BY <1>0, <1>3
<1>4. ASSUME NEW k \in Id PROVE /\ [Closed EXCEPT !.at = "account", !.key = k] \in Tab
                                /\ [Closed EXCEPT !.at = "account", !.key = k].at = "account"
                                /\ [Closed EXCEPT !.at = "account", !.key = k].key = k
  BY <1>0 DEF Closed, Tab
<1>5. Closed \in Tab /\ Closed.at = "closed"
  BY <1>0 DEF Closed, Tab
<1>6. ASSUME NEW t \in Tabs, LoadSigner(t) PROVE TypedInv'
  <2>1. CASE stored.signer # 0
    <3>1. /\ tab' = [tab EXCEPT ![t] = [Closed EXCEPT !.at = "account", !.key = stored.signer]]
          /\ UNCHANGED <<stored, ids, registry, used, failures>>
      BY <1>6, <2>1 DEF LoadSigner
    <3> QED
      BY <1>0, <1>4, <2>1, <3>1, TabMovesTyped
  <2>2. CASE stored.signer = 0
    <3>1. /\ NewId /\ stored' = [stored EXCEPT !.signer = ids + 1]
          /\ tab' = [tab EXCEPT ![t] = [Closed EXCEPT !.at = "account", !.key = ids + 1]]
          /\ UNCHANGED <<registry, used, failures>>
      BY <1>6, <2>2 DEF LoadSigner, SavesSigner
    <3>2. stored' \in [signer : Id, account : Id]
      BY <1>0, <1>2, <3>1
    <3> QED
      BY <1>0, <1>2, <1>4, <3>1, <3>2, TabMovesTyped
  <2> QED
    BY <2>1, <2>2
<1>7. ASSUME NEW t \in Tabs, LoadAccount(t) PROVE TypedInv'
  <2> DEFINE r == [tab[t] EXCEPT !.at = "ready", !.id = stored.account]
  <2>1. /\ tab[t].at = "account" /\ stored.account # 0
        /\ tab' = [tab EXCEPT ![t] = r] /\ UNCHANGED <<stored, registry, used, ids, failures>>
    BY <1>0, <1>7 DEF LoadAccount, TypeOK
  <2>2. r \in Tab /\ r.at = "ready" /\ r.key = tab[t].key /\ r.id = stored.account
    BY <1>0, <1>1 DEF Tab
  <2> HIDE DEF r
  <2> QED
    BY <1>0, <1>1, <2>1, <2>2, TabMovesTyped
<1>8. ASSUME NEW t \in Tabs, Recover(t) \/ RecoverFails(t) PROVE TypedInv'
  <2>1. /\ tab[t].at = "account" /\ UNCHANGED <<stored, registry, used, ids>>
        /\ failures' \in 0..MaxFailures
    BY <1>0, <1>3, <1>8 DEF Recover, RecoverFails
  <2>2. CASE tab' = [tab EXCEPT ![t].at = "create"]
    <3> DEFINE r == [tab[t] EXCEPT !.at = "create"]
    <3>1. tab' = [tab EXCEPT ![t] = r]
      BY <1>0, <2>2 DEF TypeOK
    <3>2. r \in Tab /\ r.at = "create" /\ r.key = tab[t].key
      BY <1>0, <1>1, StageUpdate DEF Stage
    <3> HIDE DEF r
    <3> QED
      BY <1>0, <1>1, <2>1, <3>1, <3>2, TabMovesTyped
  <2>3. ASSUME NEW e \in OfKey(t), Recovered(t, e) PROVE TypedInv'
    <3> DEFINE r == [tab[t] EXCEPT !.at = "save", !.id = e.id]
    <3>1. tab' = [tab EXCEPT ![t] = r]
      BY <1>0, <2>3 DEF Recovered, TypeOK
    <3>2. e.id \in Id /\ e.id # 0
      BY <1>0, <2>3 DEF OfKey, Account
    <3>3. r \in Tab /\ r.at = "save" /\ r.key = tab[t].key /\ r.id = e.id
      BY <1>1, <3>2 DEF Tab
    <3> HIDE DEF r
    <3> QED
      BY <1>0, <1>1, <2>1, <3>1, <3>2, <3>3, TabMovesTyped
  <2> QED
    BY <1>8, <2>2, <2>3 DEF Recover, RecoverFails
<1>9. ASSUME NEW t \in Tabs, Create(t) PROVE TypedInv'
  <2> DEFINE r == [tab[t] EXCEPT !.at = "register", !.id = ids + 1]
  <2>1. /\ tab[t].at = "create" /\ NewId
        /\ tab' = [tab EXCEPT ![t] = r] /\ UNCHANGED <<stored, registry, used, failures>>
    BY <1>0, <1>9 DEF Create, TypeOK
  <2>2. r \in Tab /\ r.at = "register" /\ r.key = tab[t].key /\ r.id = ids + 1
    BY <1>1, <1>2, <2>1 DEF Tab
  <2> HIDE DEF r
  <2> QED
    BY <1>0, <1>1, <1>2, <2>1, <2>2, TabMovesTyped
<1>10. ASSUME NEW t \in Tabs, tab[t].at = "register", OnGuardian(t)
       PROVE  registry' \subseteq Account /\ \A e \in registry' : e.key # 0 /\ e.id # 0
  <2>1. /\ tab[t].id # 0 /\ tab[t].key # 0
        /\ [key |-> tab[t].key, id |-> tab[t].id] \in Account
    BY <1>1, <1>10 DEF Account
  <2> QED
    BY <1>0, <1>10, <2>1 DEF OnGuardian
<1>11. ASSUME NEW t \in Tabs, Register(t) PROVE TypedInv'
  <2> DEFINE r == [tab[t] EXCEPT !.at = "save"]
  <2>1. /\ tab[t].at = "register" /\ OnGuardian(t)
        /\ tab' = [tab EXCEPT ![t] = r] /\ UNCHANGED <<stored, used, ids, failures>>
    BY <1>0, <1>11 DEF Register, TypeOK
  <2>2. r \in Tab /\ r.at = "save" /\ r.key = tab[t].key /\ r.id = tab[t].id
    BY <1>0, <1>1, StageUpdate DEF Stage
  <2> HIDE DEF r
  <2> QED
    BY <1>0, <1>1, <1>10, <2>1, <2>2, TabMovesTyped
<1>12. ASSUME NEW t \in Tabs, SaveAccount(t) PROVE TypedInv'
  <2> DEFINE r == [tab[t] EXCEPT !.at = "ready"]
  <2>1. /\ tab[t].at = "save" /\ stored' = [stored EXCEPT !.account = tab[t].id]
        /\ tab' = [tab EXCEPT ![t] = r] /\ UNCHANGED <<registry, used, ids, failures>>
    BY <1>0, <1>12 DEF SaveAccount, TypeOK
  <2>2. r \in Tab /\ r.at = "ready" /\ r.key = tab[t].key /\ r.id = tab[t].id
    BY <1>0, <1>1, StageUpdate DEF Stage
  <2>3. stored' \in [signer : Id, account : Id]
    BY <1>0, <1>1, <2>1
  <2> HIDE DEF r
  <2> QED
    BY <1>0, <1>1, <2>1, <2>2, <2>3, TabMovesTyped
<1>13. ASSUME NEW t \in Tabs, Use(t) PROVE TypedInv'
  <2> DEFINE e == [key |-> tab[t].key, id |-> tab[t].id]
  <2>1. /\ tab[t].at = "ready" /\ used' = used \union {e}
        /\ UNCHANGED <<stored, tab, registry, ids, failures>>
    BY <1>13 DEF Use
  <2>2. e \in Account /\ e.key # 0 /\ e.id # 0
    BY <1>1, <2>1 DEF Account
  <2> HIDE DEF e
  <2> QED
    BY <2>1, <2>2 DEF TypedInv, TypeOK, NamedInv
<1>14. ASSUME NEW t \in Tabs, Fail(t) \/ Reload(t) PROVE TypedInv'
  <2>1. tab' = [tab EXCEPT ![t] = Closed] /\ UNCHANGED <<stored, used, ids>>
        /\ failures' \in 0..MaxFailures
    BY <1>0, <1>3, <1>14 DEF Fail, Reload
  <2>2. registry' \subseteq Account /\ \A e \in registry' : e.key # 0 /\ e.id # 0
    BY <1>0, <1>10, <1>14 DEF Fail, Reload
  <2> QED
    BY <1>0, <1>5, <2>1, <2>2, TabMovesTyped
<1>15. CASE UNCHANGED vars
  BY <1>15 DEF vars, TypedInv, TypeOK, NamedInv
<1> QED
  BY <1>6, <1>7, <1>8, <1>9, <1>11, <1>12, <1>13, <1>14, <1>15 DEF Next, InitStep

LEMMA InitTyped == ASSUME IdentityAssumption, Init PROVE TypedInv
<1>1. 0 \in Id /\ 0 \in 0..MaxFailures
  BY DEF IdentityAssumption, Id
<1>2. Closed \in Tab /\ Closed.at = "closed"
  BY <1>1 DEF Closed, Tab
<1> QED
  BY <1>1, <1>2 DEF Init, TypedInv, TypeOK, NamedInv

\* Whatever two tabs do to localStorage between each other's steps, the Guardian and
\* the user only ever see accounts that have an id and a key (wallet.js:66-97).
THEOREM AccountsAreNamed ==
    ASSUME IdentityAssumption
    PROVE  Spec => []TypeOK
<1>1. TypedInv => TypeOK
  BY DEF TypedInv
<1> QED
  BY <1>1, InitTyped, StepTyped, PTL DEF Spec
=============================================================================
