------------------------ MODULE BartokBridge_proofs ------------------------
(***************************************************************************)
(* Theorems about BartokBridge, for every value of the constants.           *)
(***************************************************************************)
EXTENDS BartokBridge, TLAPS

USE DEF MidTurn

-----------------------------------------------------------------------------
(* Type correctness *)

LEMMA LastOfType ==
    ASSUME NEW S, NEW q \in Seq(S), NEW n \in Nat \ {0}
    PROVE  LastOf(q, n) \in Seq(S)
BY DEF LastOf

\* Updates of one field, or of two, keep a function of records well typed.
LEMMA ChargedType ==
    ASSUME NEW f \in [Sids -> Session], NEW x, NEW c \in Nat
    PROVE  [f EXCEPT ![x].charged = @ + c] \in [Sids -> Session]
<1>1. ASSUME x \in Sids PROVE [f[x] EXCEPT !.charged = @ + c] \in Session
  <2>1. f[x] \in Session
    BY <1>1
  <2>2. f[x].charged + c \in Nat
    BY <2>1 DEF Session
  <2> QED
    BY <2>1, <2>2 DEF Session
<1> QED
  BY <1>1

\* Raising or lowering a settling flag touches nothing else.
LEMMA SettlingFrame ==
    ASSUME NEW f \in [Sids -> Session], NEW s \in Sids, NEW v \in BOOLEAN, NEW u \in Sids
    PROVE  /\ [f EXCEPT ![s].settling = v][u].charged = f[u].charged
           /\ [f EXCEPT ![s].settling = v][u].armed = f[u].armed
           /\ [f EXCEPT ![s].settling = v][u].settled = f[u].settled
<1>1. f[s] \in Session /\ f[u] \in Session
  OBVIOUS
<1>2. CASE u = s
  BY <1>1, <1>2 DEF Session
<1>3. CASE u # s
  BY <1>3
<1> QED
  BY <1>2, <1>3

LEMMA FlagTypes ==
    ASSUME NEW f \in [Sids -> Session], NEW x \in Sids, NEW v \in BOOLEAN
    PROVE  /\ [f EXCEPT ![x].armed = v] \in [Sids -> Session]
           /\ [f EXCEPT ![x].settling = v] \in [Sids -> Session]
           /\ [f EXCEPT ![x].settled = TRUE, ![x].settling = v] \in [Sids -> Session]
<1>1. f[x] \in Session
  OBVIOUS
<1>2. [f[x] EXCEPT !.armed = v] \in Session
  BY <1>1 DEF Session
<1>3. [f[x] EXCEPT !.settling = v] \in Session
  BY <1>1 DEF Session
<1>4. [f[x] EXCEPT !.settled = TRUE, !.settling = v] \in Session
  BY <1>1 DEF Session
<1>5. [f EXCEPT ![x].armed = v] \in [Sids -> Session]
  BY <1>2
<1>6. [f EXCEPT ![x].settling = v] \in [Sids -> Session]
  BY <1>3
<1>7. [f EXCEPT ![x].settled = TRUE, ![x].settling = v] \in [Sids -> Session]
  BY <1>4
<1> QED
  BY <1>5, <1>6, <1>7

LEMMA PhaseType ==
    ASSUME NEW f \in [Sids -> Settler], NEW x \in Sids,
           NEW p \in {"idle", "queued", "waiting", "recorded"}
    PROVE  [f EXCEPT ![x].phase = p] \in [Sids -> Settler]
<1>1. f[x] \in Settler
  OBVIOUS
<1>2. [f[x] EXCEPT !.phase = p] \in Settler
  BY <1>1 DEF Settler
<1> QED
  BY <1>2

\* The phase and the attempt of a settlement change without its charge.
LEMMA SettlerFrame ==
    ASSUME NEW f \in [Sids -> Settler], NEW s \in Sids, NEW u \in Sids, NEW p
    PROVE  /\ [f EXCEPT ![s].phase = p][u].charge = f[u].charge
           /\ [f EXCEPT ![s].phase = p, ![s].attempt = @ + 1][u].charge = f[u].charge
<1>1. f[s] \in Settler /\ f[u] \in Settler
  OBVIOUS
<1>2. CASE u = s
  BY <1>1, <1>2 DEF Settler
<1>3. CASE u # s
  BY <1>3
<1> QED
  BY <1>2, <1>3

LEMMA ChatChargedType ==
    ASSUME NEW f \in [Requests -> Chat], NEW x \in Requests, NEW c \in Nat
    PROVE  [f EXCEPT ![x].phase = "charged", ![x].charge = c] \in [Requests -> Chat]
<1>1. f[x] \in Chat
  OBVIOUS
<1>2. [f[x] EXCEPT !.phase = "charged", !.charge = c] \in Chat
  BY <1>1 DEF Chat
<1> QED
  BY <1>2

LEMMA ChatCountedType ==
    ASSUME NEW f \in [Requests -> Chat], NEW x \in Requests
    PROVE  [f EXCEPT ![x].phase = "counted"] \in [Requests -> Chat]
<1>1. [f[x] EXCEPT !.phase = "counted"] \in Chat
  BY DEF Chat
<1> QED
  BY <1>1

LEMMA RetryType ==
    ASSUME NEW f \in [Sids -> Settler], NEW x \in Sids, f[x].attempt + 1 \in 0..MaxAttempts
    PROVE  [f EXCEPT ![x].phase = "queued", ![x].attempt = @ + 1] \in [Sids -> Settler]
<1>1. f[x] \in Settler
  OBVIOUS
<1>2. [f[x] EXCEPT !.phase = "queued", !.attempt = @ + 1] \in Settler
  BY <1>1 DEF Settler
<1> QED
  BY <1>2

LEMMA SumType ==
    ASSUME NEW f \in [Sids -> Nat], NEW x, NEW c \in Nat
    PROVE  [f EXCEPT ![x] = @ + c] \in [Sids -> Nat]
<1>1. ASSUME x \in Sids PROVE f[x] + c \in Nat
  <2>1. f[x] \in Nat
    BY <1>1
  <2> QED
    BY <2>1
<1> QED
  BY <1>1

LEMMA SpentType ==
    ASSUME NEW f \in [Buyers -> [acct : BOOLEAN, spent : Nat]], NEW x, NEW c \in Nat
    PROVE  [f EXCEPT ![x].spent = @ + c] \in [Buyers -> [acct : BOOLEAN, spent : Nat]]
<1>1. ASSUME x \in Buyers
      PROVE  [f[x] EXCEPT !.spent = @ + c] \in [acct : BOOLEAN, spent : Nat]
  <2>1. f[x] \in [acct : BOOLEAN, spent : Nat]
    BY <1>1
  <2>2. f[x].spent + c \in Nat
    BY <2>1
  <2> QED
    BY <2>1, <2>2
<1> QED
  BY <1>1

LEMMA RefundType ==
    ASSUME NEW f \in [Buyers -> Seq(Sids)], NEW x, NEW s \in Sids
    PROVE  [f EXCEPT ![x] = LastOf(Append(@, s), RefundCap)] \in [Buyers -> Seq(Sids)]
<1>1. ASSUME x \in Buyers PROVE LastOf(Append(f[x], s), RefundCap) \in Seq(Sids)
  <2>1. Append(f[x], s) \in Seq(Sids)
    BY <1>1
  <2> QED
    BY <2>1, LastOfType, LimitsAssumption
<1> QED
  BY <1>1

LEMMA InitType == Init => TypeOK
<1>1. Init => DOMAIN disk = {} /\ disk \in [DOMAIN disk -> Session]
  BY DEF Init
<1>2. NoChat \in Chat /\ NewSession \in Session /\ NoSettler \in Settler
  BY LimitsAssumption DEF Session, NewSession, Chat, NoChat, Settler, NoSettler
<1>3. <<>> \in Seq(Sids) /\ <<>> \in Seq(Job)
  OBVIOUS
<1> SUFFICES ASSUME Init PROVE TypeOK
  OBVIOUS
<1>4. 0 \in 0..MaxVerifies /\ 0 \in 0..MaxCrashes
  BY LimitsAssumption
<1>5. chat \in [Requests -> Chat] /\ settler \in [Sids -> Settler] /\ sess \in [Sids -> Session]
  BY <1>2 DEF Init
<1>6. order \in [Sids -> [buyer : Buyers \union {None}, budget : Nat]]
  BY DEF Init
<1>7. users \in [Buyers -> [acct : BOOLEAN, spent : Nat]]
  BY DEF Init
<1>8. refunds \in [Buyers -> Seq(Sids)] /\ queue \in Seq(Job)
  BY <1>3 DEF Init
<1> QED
  BY <1>1, <1>4, <1>5, <1>6, <1>7, <1>8 DEF Init, TypeOK

\* A persist keeps the snapshot well typed if memory is.
LEMMA PersistType ==
    ASSUME place' \in [Sids -> {"unused", "building", "live", "gone"}],
           sess' \in [Sids -> Session], PersistSessions
    PROVE  DOMAIN disk' \in SUBSET Sids /\ disk' \in [DOMAIN disk' -> Session]
BY DEF PersistSessions

LEMMA RunningType ==
    ASSUME TypeOK, NEW k, NEW s, Running(k, s)
    PROVE  /\ queue # <<>> /\ Head(queue) \in Job /\ Tail(queue) \in Seq(Job)
           /\ Head(queue).charge \in Nat
<1>1. queue # <<>> /\ queue \in Seq(Job)
  BY DEF TypeOK, Running
<1>2. Head(queue) \in Job /\ Tail(queue) \in Seq(Job)
  BY <1>1
<1> QED
  BY <1>1, <1>2 DEF Job

\* A handler in its backoff has an attempt left: the attempt counter is bounded.
BackoffHasAttempt ==
    \A s \in Sids : settler[s].phase = "waiting" => settler[s].attempt < MaxAttempts

TypeInv == TypeOK /\ BackoffHasAttempt

LEMMA StepType == TypeInv /\ [Next]_vars => TypeOK'
<1> SUFFICES ASSUME TypeOK, BackoffHasAttempt, [Next]_vars PROVE TypeOK'
  BY DEF TypeInv
<1> USE DEF sessVars, chatVars, fileVars, binVars, chainVars, history
<1>1. ASSUME NEW s \in Sids, NEW b \in Buyers, NEW t \in Tiers, NEW bal \in Balances,
             StartSession(s, b, t, bal)
      PROVE  TypeOK'
  <2>1. Lesser(Hold[t], bal) \in Nat
    BY SetsAssumption, HoldAssumption DEF Lesser
  <2>2. RunBin("build", s, 0) \in Job
    BY DEF RunBin, Job
  <2>3. queue' \in Seq(Job)
    BY <1>1, <2>2 DEF StartSession, TypeOK
  <2>4. order' \in [Sids -> [buyer : Buyers \union {None}, budget : Nat]]
    BY <1>1, <2>1 DEF StartSession, TypeOK
  <2> QED
    BY <1>1, <2>3, <2>4 DEF StartSession, TypeOK
<1>2. ASSUME NEW s \in Sids, BuildOk(s) PROVE TypeOK'
  <2>1. NewSession \in Session
    BY DEF NewSession, Session
  <2>2. place' \in [Sids -> {"unused", "building", "live", "gone"}] /\ sess' \in [Sids -> Session]
    BY <1>2, <2>1 DEF BuildOk, TypeOK
  <2> QED
    BY <1>2, <2>2, PersistType, RunningType DEF BuildOk, BinExits, TypeOK
<1>3. ASSUME NEW s \in Sids, BuildFail(s) PROVE TypeOK'
  BY <1>3, RunningType DEF BuildFail, BinExits, TypeOK
<1>4. ASSUME NEW s \in Sids, FundEscrow(s) PROVE TypeOK'
  BY <1>4 DEF FundEscrow, TypeOK
<1>5. ASSUME NEW s \in Sids, EscrowReq(s) PROVE TypeOK'
  <2>1. RunBin("verify", s, 0) \in Job
    BY DEF RunBin, Job
  <2>2. queue' \in Seq(Job)
    BY <1>5, <2>1 DEF EscrowReq, TypeOK
  <2>3. verifies' \in [Sids -> 0..MaxVerifies]
    BY <1>5, LimitsAssumption DEF EscrowReq, TypeOK
  <2> QED
    BY <1>5, <2>2, <2>3 DEF EscrowReq, TypeOK
<1>6. ASSUME NEW s \in Sids, VerifyOk(s) PROVE TypeOK'
  <2>1. place' \in [Sids -> {"unused", "building", "live", "gone"}] /\ sess' \in [Sids -> Session]
    BY <1>6, FlagTypes DEF VerifyOk, TypeOK
  <2> QED
    BY <1>6, <2>1, PersistType, RunningType DEF VerifyOk, BinExits, TypeOK
<1>7. ASSUME NEW s \in Sids, VerifyFail(s) PROVE TypeOK'
  BY <1>7, RunningType DEF VerifyFail, BinExits, TypeOK
<1>8. ASSUME NEW b \in Buyers, Register(b) PROVE TypeOK'
  BY <1>8 DEF Register, TypeOK
<1>9. ASSUME NEW r \in Requests, NEW s \in Sids, NEW t \in Tiers, ChatStart(r, s, t)
      PROVE  TypeOK'
  <2>1. sess[s].charged \in Nat
    BY DEF TypeOK, Session
  <2>2. [phase |-> "answering", sid |-> s, tier |-> t, spent |-> sess[s].charged,
         charge |-> 0] \in Chat
    BY <2>1, <1>9 DEF ChatStart, MayUseTier, Chat
  <2>3. chat' \in [Requests -> Chat]
    BY <1>9, <2>2 DEF ChatStart, TypeOK
  <2> QED
    BY <1>9, <2>3 DEF ChatStart, TypeOK
<1>10. ASSUME NEW r \in Requests, EndChat(r)
       PROVE  chat' \in [Requests -> Chat] /\ busy' \in BOOLEAN
  <2>1. NoChat \in Chat
    BY DEF NoChat, Chat
  <2> QED
    BY <1>10, <2>1 DEF EndChat, TypeOK
<1>11. ASSUME NEW r \in Requests, ChatError(r) \/ ChatRefuse(r) PROVE TypeOK'
  BY <1>10, <1>11 DEF ChatError, ChatRefuse, TypeOK
<1>12. ASSUME NEW r \in Requests, NEW c \in 0..MaxCharge, ChatCharge(r, c) PROVE TypeOK'
  <2>1. c \in Nat
    BY PriceAssumption
  <2>2. sess' \in [Sids -> Session]
    BY <1>12, <2>1, ChargedType DEF ChatCharge, TypeOK
  <2>3. chat' \in [Requests -> Chat]
    BY <1>12, <2>1, ChatChargedType DEF ChatCharge, TypeOK
  <2>4. place' \in [Sids -> {"unused", "building", "live", "gone"}]
    BY <1>12 DEF ChatCharge, TypeOK
  <2> QED
    BY <1>12, <2>2, <2>3, <2>4, PersistType DEF ChatCharge, TypeOK
<1>13. ASSUME NEW r \in Requests, ChatCount(r) \/ ChatDeliver(r) PROVE TypeOK'
  <2>1. chat[r].charge \in Nat
    BY DEF TypeOK, Chat
  <2>2. CASE ChatCount(r)
    <3>1. users' \in [Buyers -> [acct : BOOLEAN, spent : Nat]]
      BY <2>1, <2>2, SpentType DEF ChatCount, TypeOK
    <3>2. chat' \in [Requests -> Chat]
      BY <2>2, ChatCountedType DEF ChatCount, TypeOK
    <3> QED
      BY <2>2, <3>1, <3>2 DEF ChatCount, TypeOK
  <2>3. CASE ChatDeliver(r)
    <3>1. served' \in [Sids -> Nat]
      BY <2>1, <2>3, SumType DEF ChatDeliver, TypeOK
    <3> QED
      BY <1>10, <2>3, <3>1 DEF ChatDeliver, TypeOK
  <2> QED
    BY <1>13, <2>2, <2>3
<1>14. ASSUME NEW s \in Sids, NEW w \in {"end", "sweep"}, StartSettling(s, w)
       PROVE  sess' \in [Sids -> Session] /\ settler' \in [Sids -> Settler] /\ queue' \in Seq(Job)
  <2>1. sess[s].charged \in Nat /\ 1 \in 0..MaxAttempts
    BY LimitsAssumption DEF TypeOK, Session
  <2>2. RunBin("settle", s, sess[s].charged) \in Job
    BY <2>1 DEF RunBin, Job
  <2>3. sess' \in [Sids -> Session]
    BY <1>14, FlagTypes DEF StartSettling, TypeOK
  <2>4. settler' \in [Sids -> Settler]
    BY <1>14, <2>1 DEF StartSettling, TypeOK, Settler
  <2> QED
    BY <1>14, <2>2, <2>3, <2>4 DEF StartSettling, TypeOK
<1>15. ASSUME NEW s \in Sids, EndReq(s) \/ Sweep(s) PROVE TypeOK'
  BY <1>14, <1>15 DEF EndReq, Sweep, TypeOK
<1>16. ASSUME NEW s \in Sids, SettleLand(s) PROVE TypeOK'
  BY <1>16, RunningType DEF SettleLand, Consume, TypeOK
<1>17. ASSUME NEW s \in Sids, SettleOk(s) PROVE TypeOK'
  <2>1. refunds' \in [Buyers -> Seq(Sids)]
    BY <1>17, RefundType DEF SettleOk, RecordRefund, TypeOK
  <2>2. settler' \in [Sids -> Settler]
    BY <1>17, PhaseType DEF SettleOk, TypeOK
  <2> QED
    BY <1>17, <2>1, <2>2, RunningType DEF SettleOk, BinExits, TypeOK
<1>18. NoSettler \in Settler
  BY LimitsAssumption DEF NoSettler, Settler
<1>19. ASSUME NEW s \in Sids, Evict(s)
       PROVE  /\ place' \in [Sids -> {"unused", "building", "live", "gone"}]
              /\ sess' \in [Sids -> Session]
              /\ DOMAIN disk' \in SUBSET Sids /\ disk' \in [DOMAIN disk' -> Session]
  <2>1. place' \in [Sids -> {"unused", "building", "live", "gone"}] /\ sess' \in [Sids -> Session]
    BY <1>19, FlagTypes DEF Evict, TypeOK
  <2> QED
    BY <1>19, <2>1, PersistType DEF Evict
<1>20. ASSUME NEW s \in Sids, SettleEvict(s) PROVE TypeOK'
  <2>1. RunBin("joao", s, settler[s].charge) \in Job
    BY DEF RunBin, Job, TypeOK, Settler
  <2>2. queue' \in Seq(Job)
    BY <1>20, <2>1 DEF SettleEvict, TypeOK
  <2> QED
    BY <1>18, <1>19, <1>20, <2>2 DEF SettleEvict, TypeOK
<1>21. ASSUME NEW s \in Sids, SettleSpent(s) PROVE TypeOK'
  BY <1>18, <1>19, <1>21, RunningType DEF SettleSpent, BinExits, TypeOK
<1>22. ASSUME NEW s \in Sids, SettleWedged(s) PROVE TypeOK'
  <2>1. settler' \in [Sids -> Settler]
    BY <1>22, PhaseType DEF SettleWedged, TypeOK
  <2> QED
    BY <1>22, <2>1, RunningType DEF SettleWedged, BinExits, TypeOK
<1>23. ASSUME NEW s \in Sids, SettleRetry(s) PROVE TypeOK'
  <2>1. RunBin("settle", s, settler[s].charge) \in Job
    BY DEF RunBin, Job, TypeOK, Settler
  <2>2. settler[s].attempt + 1 \in 0..MaxAttempts
    BY <1>23, LimitsAssumption DEF SettleRetry, BackoffHasAttempt, TypeOK, Settler
  <2>3. settler' \in [Sids -> Settler]
    BY <1>23, <2>2, RetryType DEF SettleRetry, TypeOK
  <2> QED
    BY <1>23, <2>1, <2>3 DEF SettleRetry, TypeOK
<1>24. ASSUME NEW s \in Sids, SettleFail(s) PROVE TypeOK'
  <2>1. sess' \in [Sids -> Session]
    BY <1>24, FlagTypes DEF SettleFail, ReleaseSettling, TypeOK
  <2> QED
    BY <1>18, <1>24, <2>1, RunningType DEF SettleFail, BinExits, TypeOK
<1>25. ASSUME NEW s \in Sids, NEW ok \in BOOLEAN, JoaoExit(s, ok) PROVE TypeOK'
  BY <1>25, RunningType DEF JoaoExit, BinExits, TypeOK
<1>26. ASSUME CrashRestart PROVE TypeOK'
  <2>1. place' \in [Sids -> {"unused", "building", "live", "gone"}]
    BY <1>26 DEF CrashRestart, TypeOK
  <2>2. sess' \in [Sids -> Session]
    BY <1>26 DEF CrashRestart, Reload, TypeOK
  <2>3. NoChat \in Chat
    BY DEF NoChat, Chat
  <2>4. chat' \in [Requests -> Chat] /\ settler' \in [Sids -> Settler]
    BY <1>18, <1>26, <2>3 DEF CrashRestart
  <2>5. orphans' \in SUBSET Job /\ queue' \in Seq(Job)
    BY <1>26 DEF CrashRestart, TypeOK
  <2>6. crashes' \in 0..MaxCrashes
    BY <1>26, LimitsAssumption DEF CrashRestart, TypeOK
  <2> QED
    BY <1>26, <2>1, <2>2, <2>4, <2>5, <2>6 DEF CrashRestart, TypeOK
<1>27. ASSUME NEW j \in orphans, OrphanSettles(j) PROVE TypeOK'
  <2>1. j.sid \in Sids /\ j.charge \in Nat
    BY DEF TypeOK, Job
  <2> QED
    BY <1>27, <2>1 DEF OrphanSettles, Consume, TypeOK
<1>28. ASSUME NEW j \in orphans, OrphanExits(j) PROVE TypeOK'
  <2>1. j.sid \in Sids
    BY DEF TypeOK, Job
  <2> QED
    BY <1>28, <2>1 DEF OrphanExits, TypeOK
<1>29. CASE UNCHANGED vars
  BY <1>29 DEF vars, TypeOK
<1> QED
  BY <1>1, <1>2, <1>3, <1>4, <1>5, <1>6, <1>7, <1>8, <1>9, <1>11, <1>12, <1>13, <1>15,
     <1>16, <1>17, <1>20, <1>21, <1>22, <1>23, <1>24, <1>25, <1>26, <1>27, <1>28, <1>29
  DEF Next, SessionStep, ChatStep

LEMMA StepBackoff == TypeInv /\ [Next]_vars => BackoffHasAttempt'
<1> SUFFICES ASSUME TypeOK, BackoffHasAttempt, [Next]_vars, NEW u \in Sids,
                    settler'[u].phase = "waiting"
             PROVE  settler'[u].attempt < MaxAttempts
  BY DEF TypeInv, BackoffHasAttempt
<1> USE DEF sessVars, chatVars, fileVars, binVars, chainVars, history
<1>1. ASSUME settler'[u] = settler[u] PROVE settler'[u].attempt < MaxAttempts
  BY <1>1 DEF BackoffHasAttempt
<1>2. ASSUME NEW s \in Sids, SettleWedged(s) PROVE settler'[u].attempt < MaxAttempts
  BY <1>1, <1>2 DEF SettleWedged, TriesAgain, TypeOK, Settler
<1>3. ASSUME NEW s \in Sids, EndReq(s) \/ Sweep(s) PROVE settler'[u] = settler[u]
  BY <1>3 DEF EndReq, Sweep, StartSettling, TypeOK
<1>4. ASSUME NEW s \in Sids, SettleOk(s) \/ SettleRetry(s) PROVE settler'[u] = settler[u]
  BY <1>4 DEF SettleOk, SettleRetry, TypeOK, Settler
<1>5. ASSUME NEW s \in Sids, SettleEvict(s) \/ SettleSpent(s) \/ SettleFail(s)
      PROVE  settler'[u] = settler[u]
  BY <1>5 DEF SettleEvict, SettleSpent, SettleFail, NoSettler, TypeOK
<1>6. ASSUME CrashRestart PROVE FALSE
  BY <1>6 DEF CrashRestart, NoSettler
<1>7. ASSUME NEW s \in Sids, NEW b \in Buyers, NEW t \in Tiers, NEW bal \in Balances,
             StartSession(s, b, t, bal)
      PROVE  settler' = settler
  BY <1>7 DEF StartSession
<1>8. ASSUME NEW s \in Sids,
             \/ BuildOk(s) \/ BuildFail(s) \/ FundEscrow(s) \/ EscrowReq(s)
             \/ VerifyOk(s) \/ VerifyFail(s) \/ SettleLand(s)
             \/ \E ok \in BOOLEAN : JoaoExit(s, ok)
      PROVE  settler' = settler
  BY <1>8 DEF BuildOk, BuildFail, FundEscrow, EscrowReq, VerifyOk, VerifyFail, SettleLand, JoaoExit
<1>9. ASSUME NEW r \in Requests, ChatStep(r) PROVE settler' = settler
  BY <1>9 DEF ChatStep, ChatStart, ChatError, ChatRefuse, ChatCharge, ChatCount, ChatDeliver
<1>10. ASSUME NEW b \in Buyers, Register(b) PROVE settler' = settler
  BY <1>10 DEF Register
<1>11. ASSUME NEW j \in orphans, OrphanSettles(j) \/ OrphanExits(j) PROVE settler' = settler
  BY <1>11 DEF OrphanSettles, OrphanExits
<1>12. CASE UNCHANGED vars
  BY <1>1, <1>12 DEF vars
<1> QED
  BY <1>1, <1>2, <1>3, <1>4, <1>5, <1>6, <1>7, <1>8, <1>9, <1>10, <1>11, <1>12
  DEF Next, SessionStep

\* Every reachable state is well typed.
THEOREM Typing == Spec => []TypeOK
<1>1. Init => TypeInv
  BY InitType DEF Init, TypeInv, BackoffHasAttempt, NoSettler
<1>2. TypeInv /\ [Next]_vars => TypeInv'
  BY StepType, StepBackoff DEF TypeInv
<1>3. TypeInv => TypeOK
  BY DEF TypeInv
<1> QED
  BY <1>1, <1>2, <1>3, PTL DEF Spec

-----------------------------------------------------------------------------
(* The billing invariant: one lemma per part *)

LEMMA StepFresh == TypeInv /\ BillingInv /\ [Next]_vars => FreshIsNew'
<1> SUFFICES ASSUME TypeOK, FreshIsNew, OneChatAtATime, [Next]_vars PROVE FreshIsNew'
  BY DEF TypeInv, BillingInv
<1> USE DEF sessVars, chatVars, fileVars, binVars, chainVars, history
<1>1. ASSUME UNCHANGED <<place, order, sess, note>> PROVE FreshIsNew'
  BY <1>1 DEF FreshIsNew
<1>2. ASSUME NEW s \in Sids, NEW b \in Buyers, NEW t \in Tiers, NEW bal \in Balances,
             StartSession(s, b, t, bal)
      PROVE  FreshIsNew'
  BY <1>2 DEF StartSession, FreshIsNew, TypeOK
<1>3. ASSUME NEW s \in Sids, BuildOk(s) \/ BuildFail(s) PROVE FreshIsNew'
  BY <1>3 DEF BuildOk, BuildFail, FreshIsNew, NewSession, TypeOK, Session
<1>4. ASSUME NEW s \in Sids, FundEscrow(s) PROVE FreshIsNew'
  BY <1>4 DEF FundEscrow, FreshIsNew, TypeOK
<1>5. ASSUME NEW s \in Sids, VerifyOk(s) PROVE FreshIsNew'
  BY <1>5 DEF VerifyOk, Confirmed, FreshIsNew, TypeOK, Session
<1>6. ASSUME NEW r \in Requests, NEW c \in 0..MaxCharge, ChatCharge(r, c) PROVE FreshIsNew'
  BY <1>6 DEF ChatCharge, FreshIsNew, OneChatAtATime, TypeOK, Session
<1>7. ASSUME NEW s \in Sids, EndReq(s) \/ Sweep(s) PROVE FreshIsNew'
  BY <1>7 DEF EndReq, Sweep, MaySettle, StartSettling, FreshIsNew, TypeOK, Session
<1>8. ASSUME NEW s \in Sids, SettleLand(s) PROVE FreshIsNew'
  BY <1>8 DEF SettleLand, Consume, FreshIsNew, TypeOK
<1>9. ASSUME NEW s \in Sids, SettleEvict(s) \/ SettleSpent(s) PROVE FreshIsNew'
  BY <1>9 DEF SettleEvict, SettleSpent, Evict, FreshIsNew, TypeOK, Session
<1>10. ASSUME NEW s \in Sids, SettleFail(s) PROVE FreshIsNew'
  BY <1>10 DEF SettleFail, ReleaseSettling, FreshIsNew, TypeOK, Session
<1>11. ASSUME CrashRestart PROVE FreshIsNew'
  BY <1>11 DEF CrashRestart, FreshIsNew, TypeOK, Session
<1>12. ASSUME NEW j \in orphans, OrphanSettles(j) PROVE FreshIsNew'
  BY <1>12 DEF OrphanSettles, Consume, FreshIsNew, TypeOK
<1>13. ASSUME NEW s \in Sids,
              \/ EscrowReq(s) \/ VerifyFail(s) \/ SettleOk(s) \/ SettleWedged(s)
              \/ SettleRetry(s) \/ \E ok \in BOOLEAN : JoaoExit(s, ok)
       PROVE  UNCHANGED <<place, order, sess, note>>
  BY <1>13 DEF EscrowReq, VerifyFail, SettleOk, SettleWedged, SettleRetry, JoaoExit
<1>14. ASSUME NEW r \in Requests,
              \/ \E s \in Sids, t \in Tiers : ChatStart(r, s, t)
              \/ ChatError(r) \/ ChatRefuse(r) \/ ChatCount(r) \/ ChatDeliver(r)
       PROVE  UNCHANGED <<place, order, sess, note>>
  BY <1>14 DEF ChatStart, ChatError, ChatRefuse, ChatCount, ChatDeliver
<1>15. ASSUME NEW b \in Buyers, Register(b) PROVE UNCHANGED <<place, order, sess, note>>
  BY <1>15 DEF Register
<1>16. ASSUME NEW j \in orphans, OrphanExits(j) PROVE UNCHANGED <<place, order, sess, note>>
  BY <1>16 DEF OrphanExits
<1>17. CASE UNCHANGED vars
  BY <1>1, <1>17 DEF vars
<1> QED
  BY <1>1, <1>2, <1>3, <1>4, <1>5, <1>6, <1>7, <1>8, <1>9, <1>10, <1>11, <1>12, <1>13,
     <1>14, <1>15, <1>16, <1>17
  DEF Next, SessionStep, ChatStep

LEMMA StepSnapshot == TypeInv /\ BillingInv /\ [Next]_vars => SnapshotIsCurrent'
<1> SUFFICES ASSUME TypeOK, SnapshotIsCurrent, [Next]_vars PROVE SnapshotIsCurrent'
  BY DEF TypeInv, BillingInv
<1> USE DEF sessVars, chatVars, fileVars, binVars, chainVars, history
\* a persist brings it up to date, whatever the turn did
<1>1. ASSUME PersistSessions PROVE SnapshotIsCurrent'
  BY <1>1 DEF PersistSessions, SnapshotIsCurrent
\* without one, the Map and what the snapshot must tell of it stay the same
<1>2. ASSUME UNCHANGED <<place, disk, sess>> PROVE SnapshotIsCurrent'
  BY <1>2 DEF SnapshotIsCurrent
<1>3. ASSUME NEW s \in Sids,
             BuildOk(s) \/ VerifyOk(s) \/ SettleEvict(s) \/ SettleSpent(s)
      PROVE  PersistSessions
  BY <1>3 DEF BuildOk, VerifyOk, SettleEvict, SettleSpent, Evict
<1>4. ASSUME NEW r \in Requests, NEW c \in 0..MaxCharge, ChatCharge(r, c)
      PROVE  PersistSessions
  BY <1>4 DEF ChatCharge
<1>5. ASSUME NEW s \in Sids, NEW b \in Buyers, NEW t \in Tiers, NEW bal \in Balances,
             StartSession(s, b, t, bal)
      PROVE  SnapshotIsCurrent'
  BY <1>5 DEF StartSession, SnapshotIsCurrent, TypeOK
<1>6. ASSUME NEW s \in Sids, BuildFail(s) PROVE SnapshotIsCurrent'
  BY <1>6 DEF BuildFail, SnapshotIsCurrent, TypeOK
<1>7. ASSUME NEW s \in Sids, EndReq(s) \/ Sweep(s) \/ SettleFail(s) PROVE SnapshotIsCurrent'
  <2>1. place' = place /\ disk' = disk
    BY <1>7 DEF EndReq, Sweep, SettleFail
  <2>2. ASSUME NEW u \in Sids
        PROVE  sess'[u].charged = sess[u].charged /\ sess'[u].armed = sess[u].armed
    <3>1. PICK v \in BOOLEAN : sess' = [sess EXCEPT ![s].settling = v]
      BY <1>7 DEF EndReq, Sweep, StartSettling, SettleFail, ReleaseSettling
    <3> QED
      BY <3>1, SettlingFrame DEF TypeOK
  <2>3. DOMAIN disk' = {u \in Sids : place'[u] = "live"}
    BY <2>1 DEF SnapshotIsCurrent
  <2>4. ASSUME NEW u \in DOMAIN disk'
        PROVE  disk'[u].charged = sess'[u].charged /\ disk'[u].armed = sess'[u].armed
    <3>1. u \in Sids /\ u \in DOMAIN disk
      BY <2>1, <2>3
    <3>2. disk[u].charged = sess[u].charged /\ disk[u].armed = sess[u].armed
      BY <3>1 DEF SnapshotIsCurrent
    <3> QED
      BY <2>1, <2>2, <3>1, <3>2
  <2> QED
    BY <2>3, <2>4 DEF SnapshotIsCurrent
<1>8. ASSUME CrashRestart PROVE SnapshotIsCurrent'
  BY <1>8 DEF CrashRestart, Reload, SnapshotIsCurrent, TypeOK
<1>9. ASSUME NEW s \in Sids,
             \/ FundEscrow(s) \/ EscrowReq(s) \/ VerifyFail(s) \/ SettleLand(s) \/ SettleOk(s)
             \/ SettleWedged(s) \/ SettleRetry(s) \/ \E ok \in BOOLEAN : JoaoExit(s, ok)
      PROVE  UNCHANGED <<place, disk, sess>>
  BY <1>9 DEF FundEscrow, EscrowReq, VerifyFail, SettleLand, SettleOk, SettleWedged,
              SettleRetry, JoaoExit
<1>10. ASSUME NEW r \in Requests,
              \/ \E s \in Sids, t \in Tiers : ChatStart(r, s, t)
              \/ ChatError(r) \/ ChatRefuse(r) \/ ChatCount(r) \/ ChatDeliver(r)
       PROVE  UNCHANGED <<place, disk, sess>>
  BY <1>10 DEF ChatStart, ChatError, ChatRefuse, ChatCount, ChatDeliver
<1>11. ASSUME NEW b \in Buyers, Register(b) PROVE UNCHANGED <<place, disk, sess>>
  BY <1>11 DEF Register
<1>12. ASSUME NEW j \in orphans, OrphanSettles(j) \/ OrphanExits(j)
       PROVE  UNCHANGED <<place, disk, sess>>
  BY <1>12 DEF OrphanSettles, OrphanExits
<1>13. CASE UNCHANGED vars
  BY <1>2, <1>13 DEF vars
<1> QED
  BY <1>1, <1>2, <1>3, <1>4, <1>5, <1>6, <1>7, <1>8, <1>9, <1>10, <1>11, <1>12, <1>13
  DEF Next, SessionStep, ChatStep

\* The chain's steps are the only ones that touch a note, and none takes it back.
LEMMA NoteFrame ==
    ASSUME TypeOK, [Next]_vars, NEW u \in Sids, note[u] # "absent"
    PROVE  note'[u] # "absent"
<1> USE DEF sessVars, chatVars, fileVars, binVars, chainVars, history
<1>1. ASSUME NEW s \in Sids, FundEscrow(s) \/ SettleLand(s) PROVE note'[u] # "absent"
  BY <1>1 DEF FundEscrow, SettleLand, Consume, TypeOK
<1>2. ASSUME NEW j \in orphans, OrphanSettles(j) PROVE note'[u] # "absent"
  BY <1>2 DEF OrphanSettles, Consume, TypeOK
<1>3. ASSUME NEW s \in Sids, NEW b \in Buyers, NEW t \in Tiers, NEW bal \in Balances,
             StartSession(s, b, t, bal)
      PROVE  note' = note
  BY <1>3 DEF StartSession
<1>4. ASSUME NEW s \in Sids,
             \/ BuildOk(s) \/ BuildFail(s) \/ EscrowReq(s) \/ VerifyOk(s) \/ VerifyFail(s)
             \/ EndReq(s) \/ Sweep(s) \/ SettleOk(s) \/ SettleEvict(s) \/ SettleSpent(s)
             \/ SettleWedged(s) \/ SettleRetry(s) \/ SettleFail(s)
             \/ \E ok \in BOOLEAN : JoaoExit(s, ok)
      PROVE  note' = note
  BY <1>4 DEF BuildOk, BuildFail, EscrowReq, VerifyOk, VerifyFail, EndReq, Sweep, SettleOk,
              SettleEvict, SettleSpent, SettleWedged, SettleRetry, SettleFail, JoaoExit
<1>5. ASSUME NEW r \in Requests, ChatStep(r) PROVE note' = note
  BY <1>5 DEF ChatStep, ChatStart, ChatError, ChatRefuse, ChatCharge, ChatCount, ChatDeliver
<1>6. ASSUME NEW b \in Buyers, Register(b) PROVE note' = note
  BY <1>6 DEF Register
<1>7. ASSUME CrashRestart PROVE note' = note
  BY <1>7 DEF CrashRestart
<1>8. ASSUME NEW j \in orphans, OrphanExits(j) PROVE note' = note
  BY <1>8 DEF OrphanExits
<1>9. CASE UNCHANGED vars
  BY <1>9 DEF vars
<1> QED
  BY <1>1, <1>2, <1>3, <1>4, <1>5, <1>6, <1>7, <1>8, <1>9 DEF Next, SessionStep

\* Only a finished answer changes what a session has been charged; a crash does not.
LEMMA ChargedFrame ==
    ASSUME TypeOK, FreshIsNew, SnapshotIsCurrent, [Next]_vars, NEW u \in Sids,
           ~\E r \in Requests, c \in 0..MaxCharge : ChatCharge(r, c)
    PROVE  sess'[u].charged = sess[u].charged
<1> USE DEF sessVars, chatVars, fileVars, binVars, chainVars, history
<1>1. ASSUME NEW s \in Sids, BuildOk(s) PROVE sess'[u].charged = sess[u].charged
  BY <1>1 DEF BuildOk, FreshIsNew, NewSession, TypeOK
<1>2. ASSUME NEW s \in Sids, VerifyOk(s) PROVE sess'[u].charged = sess[u].charged
  <2>1. sess[s] \in Session
    BY DEF TypeOK
  <2> QED
    BY <1>2, <2>1 DEF VerifyOk, TypeOK, Session
<1>3. ASSUME NEW s \in Sids, EndReq(s) \/ Sweep(s) \/ SettleFail(s)
      PROVE  sess'[u].charged = sess[u].charged
  <2>1. PICK v \in BOOLEAN : sess' = [sess EXCEPT ![s].settling = v]
    BY <1>3 DEF EndReq, Sweep, StartSettling, SettleFail, ReleaseSettling
  <2> QED
    BY <2>1, SettlingFrame DEF TypeOK
<1>4. ASSUME NEW s \in Sids, SettleEvict(s) \/ SettleSpent(s)
      PROVE  sess'[u].charged = sess[u].charged
  <2>1. sess[s] \in Session
    BY DEF TypeOK
  <2>2. sess' = [sess EXCEPT ![s].settled = TRUE, ![s].settling = FALSE]
    BY <1>4 DEF SettleEvict, SettleSpent, Evict
  <2>3. CASE u = s
    BY <2>1, <2>2, <2>3 DEF TypeOK, Session
  <2>4. CASE u # s
    BY <2>2, <2>4 DEF TypeOK
  <2> QED
    BY <2>3, <2>4
<1>5. ASSUME CrashRestart PROVE sess'[u].charged = sess[u].charged
  BY <1>5 DEF CrashRestart, Reload, SnapshotIsCurrent
<1>6. ASSUME NEW s \in Sids, NEW b \in Buyers, NEW t \in Tiers, NEW bal \in Balances,
             StartSession(s, b, t, bal)
      PROVE  sess' = sess
  BY <1>6 DEF StartSession
<1>7. ASSUME NEW s \in Sids,
             \/ BuildFail(s) \/ FundEscrow(s) \/ EscrowReq(s) \/ VerifyFail(s) \/ SettleLand(s)
             \/ SettleOk(s) \/ SettleWedged(s) \/ SettleRetry(s)
             \/ \E ok \in BOOLEAN : JoaoExit(s, ok)
      PROVE  sess' = sess
  BY <1>7 DEF BuildFail, FundEscrow, EscrowReq, VerifyFail, SettleLand, SettleOk,
              SettleWedged, SettleRetry, JoaoExit
<1>8. ASSUME NEW r \in Requests, ChatStep(r) PROVE sess' = sess
  BY <1>8 DEF ChatStep, ChatStart, ChatError, ChatRefuse, ChatCount, ChatDeliver
<1>9. ASSUME NEW b \in Buyers, Register(b) PROVE sess' = sess
  BY <1>9 DEF Register
<1>10. ASSUME NEW j \in orphans, OrphanSettles(j) \/ OrphanExits(j) PROVE sess' = sess
  BY <1>10 DEF OrphanSettles, OrphanExits
<1>11. CASE UNCHANGED vars
  BY <1>11 DEF vars
<1> QED
  BY <1>1, <1>2, <1>3, <1>4, <1>5, <1>6, <1>7, <1>8, <1>9, <1>10, <1>11 DEF Next, SessionStep

\* What one charge does: to the session of the chat that makes it, and to no other.
LEMMA ChargeStep ==
    ASSUME TypeOK, OneChatAtATime, NEW r \in Requests, NEW c \in 0..MaxCharge, ChatCharge(r, c),
           NEW u \in Sids
    PROVE  sess'[u].charged = IF u = chat[r].sid THEN sess[u].charged + c ELSE sess[u].charged
<1>1. sess[u] \in Session /\ c \in Nat
  BY PriceAssumption DEF TypeOK
<1> QED
  BY <1>1 DEF ChatCharge, TypeOK, Session

LEMMA StepChats == TypeInv /\ BillingInv /\ [Next]_vars => OneChatAtATime'
<1> SUFFICES ASSUME TypeOK, BillingInv, [Next]_vars PROVE OneChatAtATime'
  BY DEF TypeInv
<1> USE DEF sessVars, chatVars, fileVars, binVars, chainVars, history
<1>1. ASSUME UNCHANGED <<chat, busy, served>>,
             ~\E r \in Requests, c \in 0..MaxCharge : ChatCharge(r, c)
      PROVE  OneChatAtATime'
  <2>1. ASSUME NEW r \in Requests, chat[r].phase # "idle"
        PROVE  note'[chat[r].sid] # "absent"
    BY <2>1, NoteFrame DEF BillingInv, OneChatAtATime
  <2>2. ASSUME NEW r \in Requests, chat[r].phase # "idle"
        PROVE  sess'[chat[r].sid].charged = sess[chat[r].sid].charged
    BY <1>1, <2>2, ChargedFrame DEF BillingInv, OneChatAtATime
  <2> QED
    BY <1>1, <2>1, <2>2 DEF BillingInv, OneChatAtATime
<1>2. ASSUME NEW r \in Requests, NEW s \in Sids, NEW t \in Tiers, ChatStart(r, s, t)
      PROVE  OneChatAtATime'
  <2>1. \A q \in Requests : chat[q].phase = "idle"
    BY <1>2 DEF ChatStart, PipelineFree, BillingInv, OneChatAtATime
  <2>2. \A q \in Requests \ {r} : chat'[q].phase = "idle"
    BY <1>2, <2>1 DEF ChatStart, TypeOK
  <2>3. /\ chat'[r].phase = "answering" /\ chat'[r].sid = s
        /\ chat'[r].spent = sess[s].charged /\ busy'
        /\ sess' = sess /\ note' = note
    BY <1>2 DEF ChatStart, TypeOK
  <2>4. note[s] # "absent"
    BY <1>2 DEF ChatStart, BillingInv, BillsAreBacked
  <2> QED
    BY <2>2, <2>3, <2>4 DEF OneChatAtATime
<1>3. ASSUME NEW r \in Requests, chat[r].phase # "idle", EndChat(r) PROVE OneChatAtATime'
  <2>1. \A q \in Requests \ {r} : chat[q].phase = "idle"
    BY <1>3 DEF BillingInv, OneChatAtATime
  <2>2. \A q \in Requests : chat'[q].phase = "idle"
    BY <1>3, <2>1 DEF EndChat, NoChat, TypeOK
  <2> QED
    BY <2>2 DEF OneChatAtATime
<1>4. ASSUME NEW r \in Requests, ChatError(r) \/ ChatRefuse(r) \/ ChatDeliver(r)
      PROVE  OneChatAtATime'
  BY <1>3, <1>4 DEF ChatError, ChatRefuse, ChatDeliver
<1>11. ASSUME NEW r \in Requests, ChatCount(r) PROVE OneChatAtATime'
  <2>1. \A q \in Requests \ {r} : chat'[q] = chat[q]
    BY <1>11 DEF ChatCount, TypeOK
  <2>2. chat'[r] = [chat[r] EXCEPT !.phase = "counted"] /\ chat[r] \in Chat /\ MidTurn(r)
    BY <1>11 DEF ChatCount, TypeOK
  <2>3. \A q \in Requests : /\ chat'[q].sid = chat[q].sid /\ chat'[q].charge = chat[q].charge
                            /\ chat'[q].phase # "idle" => chat[q].phase # "idle"
                            /\ (MidTurn(q)') => MidTurn(q)
                            /\ chat'[q].phase = "answering" => chat'[q] = chat[q]
    BY <2>1, <2>2 DEF Chat
  <2> QED
    BY <1>11, <2>3 DEF ChatCount, BillingInv, OneChatAtATime
<1>5. ASSUME NEW r \in Requests, NEW c \in 0..MaxCharge, ChatCharge(r, c) PROVE OneChatAtATime'
  <2>1. \A q \in Requests \ {r} : chat[q].phase = "idle"
    BY <1>5 DEF ChatCharge, BillingInv, OneChatAtATime
  <2>2. \A q \in Requests \ {r} : chat'[q].phase = "idle"
    BY <1>5, <2>1 DEF ChatCharge, TypeOK
  <2>3. chat[r] \in Chat
    BY DEF TypeOK
  <2>4. MidTurn(r)' /\ chat'[r].charge = c /\ chat'[r].sid = chat[r].sid
    BY <1>5, <2>3 DEF ChatCharge, TypeOK, Chat
  <2>5. chat[r].sid \in Sids /\ note[chat[r].sid] # "absent" /\ busy
    BY <1>5 DEF ChatCharge, BillingInv, OneChatAtATime
  <2>6. sess'[chat[r].sid].charged = sess[chat[r].sid].charged + c
    BY <1>5, <2>5, ChargeStep DEF BillingInv
  <2>7. served[chat[r].sid] <= sess[chat[r].sid].charged
    BY <2>5 DEF BillingInv, BillsAreBacked
  <2>8. served[chat[r].sid] \in Nat /\ sess[chat[r].sid].charged \in Nat /\ c \in Nat
    BY <2>5, PriceAssumption DEF TypeOK, Session
  <2>9. served[chat[r].sid] + c <= sess'[chat[r].sid].charged
    BY <2>6, <2>7, <2>8
  <2>10. served' = served /\ note' = note /\ busy' = busy
    BY <1>5 DEF ChatCharge
  <2> QED
    BY <2>2, <2>4, <2>5, <2>9, <2>10 DEF OneChatAtATime
<1>6. ASSUME CrashRestart PROVE OneChatAtATime'
  BY <1>6 DEF CrashRestart, OneChatAtATime, NoChat
<1>7. ASSUME NEW s \in Sids, SessionStep(s) PROVE UNCHANGED <<chat, busy, served>>
  BY <1>7 DEF SessionStep, StartSession, BuildOk, BuildFail, FundEscrow, EscrowReq, VerifyOk,
              VerifyFail, EndReq, Sweep, SettleLand, SettleOk, SettleEvict, SettleSpent,
              SettleWedged, SettleRetry, SettleFail, JoaoExit
<1>8. ASSUME NEW b \in Buyers, Register(b) PROVE UNCHANGED <<chat, busy, served>>
  BY <1>8 DEF Register
<1>9. ASSUME NEW j \in orphans, OrphanSettles(j) \/ OrphanExits(j)
      PROVE  UNCHANGED <<chat, busy, served>>
  BY <1>9 DEF OrphanSettles, OrphanExits
<1>10. CASE UNCHANGED vars
  BY <1>1, <1>5, <1>10 DEF vars
<1> QED
  BY <1>1, <1>2, <1>4, <1>5, <1>6, <1>7, <1>8, <1>9, <1>10, <1>11 DEF Next, ChatStep

\* A session is armed only by its verification, which found its note.
LEMMA ArmedBy ==
    ASSUME TypeOK, SnapshotIsCurrent, [Next]_vars, NEW u \in Sids, sess'[u].armed
    PROVE  sess[u].armed \/ VerifyOk(u)
<1> USE DEF sessVars, chatVars, fileVars, binVars, chainVars, history
<1>1. ASSUME NEW s \in Sids, BuildOk(s) PROVE sess[u].armed
  BY <1>1 DEF BuildOk, NewSession, TypeOK
<1>2. ASSUME NEW s \in Sids, VerifyOk(s) PROVE sess[u].armed \/ VerifyOk(u)
  BY <1>2 DEF VerifyOk, TypeOK
<1>3. ASSUME NEW s \in Sids, EndReq(s) \/ Sweep(s) \/ SettleFail(s) PROVE sess[u].armed
  <2>1. PICK v \in BOOLEAN : sess' = [sess EXCEPT ![s].settling = v]
    BY <1>3 DEF EndReq, Sweep, StartSettling, SettleFail, ReleaseSettling
  <2> QED
    BY <2>1, SettlingFrame DEF TypeOK
<1>4. ASSUME NEW s \in Sids, SettleEvict(s) \/ SettleSpent(s) PROVE sess[u].armed
  <2>1. sess[s] \in Session
    BY DEF TypeOK
  <2>2. sess' = [sess EXCEPT ![s].settled = TRUE, ![s].settling = FALSE]
    BY <1>4 DEF SettleEvict, SettleSpent, Evict
  <2>3. CASE u = s
    BY <2>1, <2>2, <2>3 DEF TypeOK, Session
  <2>4. CASE u # s
    BY <2>2, <2>4 DEF TypeOK
  <2> QED
    BY <2>3, <2>4
<1>5. ASSUME CrashRestart PROVE sess[u].armed
  BY <1>5 DEF CrashRestart, Reload, SnapshotIsCurrent
<1>6. ASSUME NEW r \in Requests, NEW c \in 0..MaxCharge, ChatCharge(r, c) PROVE sess[u].armed
  <2>1. sess[u] \in Session
    BY DEF TypeOK
  <2> QED
    BY <1>6, <2>1 DEF ChatCharge, TypeOK, Session
<1>7. ASSUME NEW s \in Sids, NEW b \in Buyers, NEW t \in Tiers, NEW bal \in Balances,
             StartSession(s, b, t, bal)
      PROVE  sess' = sess
  BY <1>7 DEF StartSession
<1>8. ASSUME NEW s \in Sids,
             \/ BuildFail(s) \/ FundEscrow(s) \/ EscrowReq(s) \/ VerifyFail(s) \/ SettleLand(s)
             \/ SettleOk(s) \/ SettleWedged(s) \/ SettleRetry(s)
             \/ \E ok \in BOOLEAN : JoaoExit(s, ok)
      PROVE  sess' = sess
  BY <1>8 DEF BuildFail, FundEscrow, EscrowReq, VerifyFail, SettleLand, SettleOk,
              SettleWedged, SettleRetry, JoaoExit
<1>9. ASSUME NEW r \in Requests,
             \/ \E s \in Sids, t \in Tiers : ChatStart(r, s, t)
             \/ ChatError(r) \/ ChatRefuse(r) \/ ChatCount(r) \/ ChatDeliver(r)
      PROVE  sess' = sess
  BY <1>9 DEF ChatStart, ChatError, ChatRefuse, ChatCount, ChatDeliver
<1>10. ASSUME NEW b \in Buyers, Register(b) PROVE sess' = sess
  BY <1>10 DEF Register
<1>11. ASSUME NEW j \in orphans, OrphanSettles(j) \/ OrphanExits(j) PROVE sess' = sess
  BY <1>11 DEF OrphanSettles, OrphanExits
<1>12. CASE UNCHANGED vars
  BY <1>12 DEF vars
<1> QED
  BY <1>1, <1>2, <1>3, <1>4, <1>5, <1>6, <1>7, <1>8, <1>9, <1>10, <1>11, <1>12
  DEF Next, SessionStep, ChatStep

LEMMA ArmedFrame ==
    ASSUME TypeOK, SnapshotIsCurrent, [Next]_vars, NEW u \in Sids, sess'[u].armed
    PROVE  sess[u].armed \/ note[u] # "absent"
BY ArmedBy DEF VerifyOk, Confirmed

LEMMA StepBills == TypeInv /\ BillingInv /\ [Next]_vars => BillsAreBacked'
<1> SUFFICES ASSUME TypeInv, TypeOK, BillingInv, [Next]_vars, NEW u \in Sids
             PROVE  /\ served'[u] <= sess'[u].charged
                    /\ sess'[u].charged <= order'[u].budget
                    /\ sess'[u].armed \/ sess'[u].charged > 0 => note'[u] # "absent"
  BY DEF TypeInv, BillsAreBacked
<1> USE DEF sessVars, chatVars, fileVars, binVars, chainVars, history
<1>1. /\ served[u] \in Nat /\ sess[u].charged \in Nat /\ order[u].budget \in Nat
      /\ served[u] <= sess[u].charged /\ sess[u].charged <= order[u].budget
      /\ sess[u].armed \/ sess[u].charged > 0 => note[u] # "absent"
  BY DEF TypeOK, Session, BillingInv, BillsAreBacked
<1>2. sess'[u].armed => note'[u] # "absent"
  BY <1>1, ArmedFrame, NoteFrame DEF BillingInv
<1>3. ASSUME NEW r \in Requests, NEW c \in 0..MaxCharge, ChatCharge(r, c)
      PROVE  /\ served'[u] <= sess'[u].charged
             /\ sess'[u].charged <= order'[u].budget
             /\ sess'[u].charged > 0 => note'[u] # "absent"
  <2>1. served' = served /\ order' = order /\ note' = note
    BY <1>3 DEF ChatCharge
  <2>2. sess'[u].charged = IF u = chat[r].sid THEN sess[u].charged + c ELSE sess[u].charged
    BY <1>3, ChargeStep DEF BillingInv
  <2>3. CASE u # chat[r].sid
    BY <1>1, <2>1, <2>2, <2>3
  <2>4. CASE u = chat[r].sid
    <3>1. sess[u].charged + c <= order[u].budget /\ note[u] # "absent"
      BY <1>3, <2>4 DEF ChatCharge, MayCharge, BillingInv, OneChatAtATime
    <3>2. c \in Nat
      BY PriceAssumption
    <3> QED
      BY <1>1, <2>1, <2>2, <2>4, <3>1, <3>2
  <2> QED
    BY <2>3, <2>4
<1>4. ASSUME ~\E r \in Requests, c \in 0..MaxCharge : ChatCharge(r, c)
      PROVE  /\ served'[u] <= sess'[u].charged
             /\ sess'[u].charged <= order'[u].budget
             /\ sess'[u].charged > 0 => note'[u] # "absent"
  <2>1. sess'[u].charged = sess[u].charged
    BY <1>4, ChargedFrame DEF BillingInv
  <2>2. sess'[u].charged > 0 => note'[u] # "absent"
    BY <1>1, <2>1, NoteFrame
  <2>3. ASSUME NEW s \in Sids, NEW b \in Buyers, NEW t \in Tiers, NEW bal \in Balances,
               StartSession(s, b, t, bal)
        PROVE  served' = served /\ sess[u].charged <= order'[u].budget
    <3>1. Lesser(Hold[t], bal) \in Nat
      BY SetsAssumption, HoldAssumption DEF Lesser
    <3>2. sess[s].charged = 0
      BY <2>3 DEF StartSession, BillingInv, FreshIsNew
    <3> QED
      BY <1>1, <2>3, <3>1, <3>2 DEF StartSession, TypeOK
  <2>4. ASSUME NEW r \in Requests, ChatDeliver(r)
        PROVE  served'[u] <= sess[u].charged /\ order' = order
    <3>1. chat[r].sid \in Sids /\ served[chat[r].sid] + chat[r].charge <= sess[chat[r].sid].charged
      BY <2>4 DEF ChatDeliver, BillingInv, OneChatAtATime
    <3> QED
      BY <1>1, <2>4, <3>1 DEF ChatDeliver, TypeOK
  <2>5. ASSUME NEW s \in Sids,
               \/ BuildOk(s) \/ BuildFail(s) \/ FundEscrow(s) \/ EscrowReq(s) \/ VerifyOk(s)
               \/ VerifyFail(s) \/ EndReq(s) \/ Sweep(s) \/ SettleLand(s) \/ SettleOk(s)
               \/ SettleEvict(s) \/ SettleSpent(s) \/ SettleWedged(s) \/ SettleRetry(s)
               \/ SettleFail(s) \/ \E ok \in BOOLEAN : JoaoExit(s, ok)
        PROVE  UNCHANGED <<served, order>>
    BY <2>5 DEF BuildOk, BuildFail, FundEscrow, EscrowReq, VerifyOk, VerifyFail, EndReq, Sweep,
                SettleLand, SettleOk, SettleEvict, SettleSpent, SettleWedged, SettleRetry,
                SettleFail, JoaoExit
  <2>6. ASSUME NEW r \in Requests,
               \/ \E s \in Sids, t \in Tiers : ChatStart(r, s, t)
               \/ ChatError(r) \/ ChatRefuse(r) \/ ChatCount(r)
        PROVE  UNCHANGED <<served, order>>
    BY <2>6 DEF ChatStart, ChatError, ChatRefuse, ChatCount
  <2>7. ASSUME \/ \E b \in Buyers : Register(b)
               \/ CrashRestart
               \/ \E j \in orphans : OrphanSettles(j) \/ OrphanExits(j)
        PROVE  UNCHANGED <<served, order>>
    BY <2>7 DEF Register, CrashRestart, OrphanSettles, OrphanExits
  <2>8. CASE UNCHANGED vars
    BY <1>1, <2>1, <2>2, <2>8 DEF vars
  <2> QED
    BY <1>1, <1>4, <2>1, <2>2, <2>3, <2>4, <2>5, <2>6, <2>7, <2>8 DEF Next, SessionStep, ChatStep
<1> QED
  BY <1>2, <1>3, <1>4

LEMMA ChargedGrows ==
    ASSUME TypeInv, BillingInv, [Next]_vars, NEW u \in Sids
    PROVE  sess'[u].charged \in Nat /\ sess[u].charged <= sess'[u].charged
<1>1. sess[u].charged \in Nat
  BY DEF TypeInv, TypeOK, Session
<1>2. ASSUME NEW r \in Requests, NEW c \in 0..MaxCharge, ChatCharge(r, c)
      PROVE  sess'[u].charged \in Nat /\ sess[u].charged <= sess'[u].charged
  <2>1. c \in Nat
    BY PriceAssumption
  <2> QED
    BY <1>1, <1>2, <2>1, ChargeStep DEF TypeInv, BillingInv
<1>3. ASSUME ~\E r \in Requests, c \in 0..MaxCharge : ChatCharge(r, c)
      PROVE  sess'[u].charged \in Nat /\ sess[u].charged <= sess'[u].charged
  BY <1>1, <1>3, ChargedFrame DEF TypeInv, BillingInv
<1> QED
  BY <1>2, <1>3

\* What a settlement asks for, or its handler keeps: nothing, the charge its handler
\* keeps, or what its session was charged when the settlement began, between two turns.
Asked(s, c) == c = 0 \/ c = settler[s].charge \/ (~InTurn /\ c = sess[s].charged)
Asks(j) == Asked(j.sid, j.charge)

LEMMA AskedWithinCharges ==
    ASSUME TypeInv, BillingInv, NEW s \in Sids, NEW c, Asked(s, c)
    PROVE  c \in Nat /\ c <= sess[s].charged
BY DEF Asked, TypeInv, TypeOK, Session, Settler, BillingInv, SettlesWhatWasCharged

\* If every job asks for f of its session at most, and a new one too, so it stays.
LEMMA JobsUnder ==
    ASSUME queue \in Seq(Job), NEW f,
           \A i \in 1..Len(queue) : queue[i].charge <= f[queue[i].sid],
           \/ queue' = queue
           \/ queue' = Tail(queue) /\ queue # <<>>
           \/ queue' = <<>>
           \/ \E j \in Job : j.charge <= f[j.sid] /\ queue' = Append(queue, j)
    PROVE  \A i \in 1..Len(queue') : queue'[i] \in Job /\ queue'[i].charge <= f[queue'[i].sid]
<1> SUFFICES ASSUME NEW i \in 1..Len(queue')
             PROVE  queue'[i] \in Job /\ queue'[i].charge <= f[queue'[i].sid]
  OBVIOUS
<1>1. CASE queue' = queue
  BY <1>1
<1>2. CASE queue' = Tail(queue) /\ queue # <<>>
  <2>1. i + 1 \in 1..Len(queue) /\ queue'[i] = queue[i + 1]
    BY <1>2
  <2> QED
    BY <2>1
<1>3. CASE queue' = <<>>
  BY <1>3
<1>4. ASSUME NEW j \in Job, j.charge <= f[j.sid], queue' = Append(queue, j)
      PROVE  queue'[i] \in Job /\ queue'[i].charge <= f[queue'[i].sid]
  <2>1. \/ i \in 1..Len(queue) /\ queue'[i] = queue[i]
        \/ queue'[i] = j
    BY <1>4
  <2> QED
    BY <1>4, <2>1
<1> QED
  BY <1>1, <1>2, <1>3, <1>4

\* What a step does to the queue.
LEMMA QueueStep ==
    ASSUME TypeInv, [Next]_vars
    PROVE  \/ queue' = queue
           \/ queue' = Tail(queue) /\ queue # <<>>
           \/ queue' = <<>>
           \/ \E j \in Job : Asks(j) /\ queue' = Append(queue, j)
<1> USE DEF sessVars, chatVars, fileVars, binVars, chainVars, history
<1>1. ASSUME NEW s \in Sids, NEW k \in {"build", "verify", "settle", "joao"}, NEW c \in Nat,
             Asked(s, c), queue' = Append(queue, RunBin(k, s, c))
      PROVE  \E j \in Job : Asks(j) /\ queue' = Append(queue, j)
  <2>1. RunBin(k, s, c) \in Job /\ RunBin(k, s, c).sid = s /\ RunBin(k, s, c).charge = c
    BY DEF RunBin, Job
  <2> QED
    BY <1>1, <2>1 DEF Asks
<1>2. ASSUME NEW s \in Sids
      PROVE  /\ sess[s].charged \in Nat /\ settler[s].charge \in Nat
             /\ Asked(s, 0) /\ Asked(s, settler[s].charge)
  BY DEF TypeInv, TypeOK, Session, Settler, Asked
<1>3. ASSUME NEW s \in Sids, NEW b \in Buyers, NEW t \in Tiers, NEW bal \in Balances,
             StartSession(s, b, t, bal)
      PROVE  \E j \in Job : Asks(j) /\ queue' = Append(queue, j)
  BY <1>1, <1>2, <1>3 DEF StartSession
<1>4. ASSUME NEW s \in Sids, EscrowReq(s)
      PROVE  \E j \in Job : Asks(j) /\ queue' = Append(queue, j)
  BY <1>1, <1>2, <1>4 DEF EscrowReq
<1>5. ASSUME NEW s \in Sids, EndReq(s) \/ Sweep(s)
      PROVE  \E j \in Job : Asks(j) /\ queue' = Append(queue, j)
  <2>1. Asked(s, sess[s].charged)
    BY <1>5 DEF EndReq, Sweep, Asked
  <2> QED
    BY <1>1, <1>2, <1>5, <2>1 DEF EndReq, Sweep, StartSettling
<1>6. ASSUME NEW s \in Sids, SettleRetry(s)
      PROVE  \E j \in Job : Asks(j) /\ queue' = Append(queue, j)
  BY <1>1, <1>2, <1>6 DEF SettleRetry
<1>7. ASSUME NEW s \in Sids, SettleEvict(s)
      PROVE  \/ queue' = queue
             \/ \E j \in Job : Asks(j) /\ queue' = Append(queue, j)
  BY <1>1, <1>2, <1>7 DEF SettleEvict
<1>8. ASSUME NEW s \in Sids,
             \/ BuildOk(s) \/ BuildFail(s) \/ VerifyOk(s) \/ VerifyFail(s) \/ SettleOk(s)
             \/ SettleSpent(s) \/ SettleWedged(s) \/ SettleFail(s)
             \/ \E ok \in BOOLEAN : JoaoExit(s, ok)
      PROVE  queue' = Tail(queue) /\ queue # <<>>
  BY <1>8 DEF BuildOk, BuildFail, VerifyOk, VerifyFail, SettleOk, SettleSpent, SettleWedged,
              SettleFail, JoaoExit, BinExits, Running
<1>9. ASSUME NEW s \in Sids, FundEscrow(s) \/ SettleLand(s) PROVE queue' = queue
  BY <1>9 DEF FundEscrow, SettleLand
<1>10. ASSUME NEW r \in Requests, ChatStep(r) PROVE queue' = queue
  BY <1>10 DEF ChatStep, ChatStart, ChatError, ChatRefuse, ChatCharge, ChatCount, ChatDeliver
<1>11. ASSUME NEW b \in Buyers, Register(b) PROVE queue' = queue
  BY <1>11 DEF Register
<1>12. ASSUME CrashRestart PROVE queue' = <<>>
  BY <1>12 DEF CrashRestart
<1>13. ASSUME NEW j \in orphans, OrphanSettles(j) \/ OrphanExits(j) PROVE queue' = queue
  BY <1>13 DEF OrphanSettles, OrphanExits
<1>14. CASE UNCHANGED vars
  BY <1>14 DEF vars
<1> QED
  BY <1>3, <1>4, <1>5, <1>6, <1>7, <1>8, <1>9, <1>10, <1>11, <1>12, <1>13, <1>14
  DEF Next, SessionStep

\* What a step does to the charge a settlement's handler keeps.
LEMMA SettlerStep ==
    ASSUME TypeInv, [Next]_vars, NEW u \in Sids
    PROVE  Asked(u, settler'[u].charge)
<1> USE DEF sessVars, chatVars, fileVars, binVars, chainVars, history
<1>0. settler \in [Sids -> Settler]
  BY DEF TypeInv, TypeOK
<1>1. Asked(u, 0) /\ Asked(u, settler[u].charge)
  BY DEF Asked
<1>3. ASSUME NEW s \in Sids, EndReq(s) \/ Sweep(s)
      PROVE  Asked(u, settler'[u].charge)
  <2>1. PICK w \in {"end", "sweep"} :
          settler' = [settler EXCEPT ![s] = [phase |-> "queued", who |-> w, attempt |-> 1,
                                             charge |-> sess[s].charged]]
    BY <1>3 DEF EndReq, Sweep, StartSettling
  <2>2. ~InTurn
    BY <1>3 DEF EndReq, Sweep
  <2> QED
    BY <1>0, <2>1, <2>2 DEF Asked
<1>4. ASSUME NEW s \in Sids, SettleOk(s) \/ SettleWedged(s) \/ SettleRetry(s)
      PROVE  settler'[u].charge = settler[u].charge
  <2>1. CASE SettleOk(s)
    BY <1>0, <2>1, SettlerFrame DEF SettleOk
  <2>2. CASE SettleWedged(s)
    BY <1>0, <2>2, SettlerFrame DEF SettleWedged
  <2>3. CASE SettleRetry(s)
    BY <1>0, <2>3, SettlerFrame DEF SettleRetry
  <2> QED
    BY <1>4, <2>1, <2>2, <2>3
<1>5. ASSUME NEW s \in Sids, SettleEvict(s) \/ SettleSpent(s) \/ SettleFail(s)
      PROVE  settler'[u].charge \in {0, settler[u].charge}
  <2>1. settler' = [settler EXCEPT ![s] = NoSettler]
    BY <1>5 DEF SettleEvict, SettleSpent, SettleFail
  <2> QED
    BY <1>0, <2>1 DEF NoSettler
<1>6. ASSUME CrashRestart PROVE settler'[u].charge = 0
  BY <1>6 DEF CrashRestart, NoSettler
<1>7. ASSUME NEW s \in Sids, NEW b \in Buyers, NEW t \in Tiers, NEW bal \in Balances,
             StartSession(s, b, t, bal)
      PROVE  settler' = settler
  BY <1>7 DEF StartSession
<1>8. ASSUME NEW s \in Sids,
             \/ BuildOk(s) \/ BuildFail(s) \/ FundEscrow(s) \/ EscrowReq(s)
             \/ VerifyOk(s) \/ VerifyFail(s) \/ SettleLand(s)
             \/ \E ok \in BOOLEAN : JoaoExit(s, ok)
      PROVE  settler' = settler
  BY <1>8 DEF BuildOk, BuildFail, FundEscrow, EscrowReq, VerifyOk, VerifyFail, SettleLand,
              JoaoExit
<1>9. ASSUME NEW r \in Requests, ChatStep(r) PROVE settler' = settler
  BY <1>9 DEF ChatStep, ChatStart, ChatError, ChatRefuse, ChatCharge, ChatCount, ChatDeliver
<1>10. ASSUME \/ \E b \in Buyers : Register(b)
              \/ \E j \in orphans : OrphanSettles(j) \/ OrphanExits(j)
       PROVE  settler' = settler
  BY <1>10 DEF Register, OrphanSettles, OrphanExits
<1>11. CASE UNCHANGED vars
  BY <1>1, <1>11 DEF vars
<1> QED
  BY <1>1, <1>3, <1>4, <1>5, <1>6, <1>7, <1>8, <1>9, <1>10, <1>11 DEF Next, SessionStep

\* Only the binary that ran when the bridge died outlives it.
LEMMA OrphansStep ==
    ASSUME TypeInv, [Next]_vars, NEW j \in orphans'
    PROVE  \/ j \in orphans
           \/ queue # <<>> /\ 1 \in 1..Len(queue) /\ j = queue[1] /\ j \in Job
<1> USE DEF sessVars, chatVars, fileVars, binVars, chainVars, history
<1>1. queue # <<>> => 1 \in 1..Len(queue) /\ Head(queue) = queue[1] /\ queue[1] \in Job
  BY DEF TypeInv, TypeOK
<1>2. ASSUME CrashRestart PROVE j \in orphans \/ (queue # <<>> /\ j = Head(queue))
  BY <1>2 DEF CrashRestart
<1>4. ASSUME NEW s \in Sids, SessionStep(s) PROVE orphans' = orphans
  BY <1>4 DEF SessionStep, StartSession, BuildOk, BuildFail, FundEscrow, EscrowReq, VerifyOk,
              VerifyFail, EndReq, Sweep, SettleLand, SettleOk, SettleEvict, SettleSpent,
              SettleWedged, SettleRetry, SettleFail, JoaoExit
<1>5. ASSUME NEW r \in Requests, ChatStep(r) PROVE orphans' = orphans
  BY <1>5 DEF ChatStep, ChatStart, ChatError, ChatRefuse, ChatCharge, ChatCount, ChatDeliver
<1>6. ASSUME NEW b \in Buyers, Register(b) PROVE orphans' = orphans
  BY <1>6 DEF Register
<1>7. ASSUME NEW k \in orphans, OrphanSettles(k) \/ OrphanExits(k)
      PROVE  orphans' \subseteq orphans
  BY <1>7 DEF OrphanSettles, OrphanExits
<1>8. CASE UNCHANGED vars
  BY <1>8 DEF vars
<1> QED
  BY <1>1, <1>2, <1>4, <1>5, <1>6, <1>7, <1>8 DEF Next

LEMMA StepJobs == TypeInv /\ BillingInv /\ [Next]_vars => SettlesWhatWasCharged'
<1> SUFFICES ASSUME TypeInv, BillingInv, [Next]_vars PROVE SettlesWhatWasCharged'
  OBVIOUS
<1> DEFINE f == [s \in Sids |-> sess[s].charged]
<1>1. ASSUME NEW j \in Job, j.charge <= sess[j.sid].charged
      PROVE  j.charge <= sess'[j.sid].charged
  <2>1. j.sid \in Sids /\ j.charge \in Nat /\ sess[j.sid].charged \in Nat
    BY DEF Job, TypeInv, TypeOK, Session
  <2>2. sess'[j.sid].charged \in Nat /\ sess[j.sid].charged <= sess'[j.sid].charged
    BY <2>1, ChargedGrows
  <2> QED
    BY <1>1, <2>1, <2>2
<1>2. queue \in Seq(Job) /\ \A j \in Job : j.sid \in Sids
  BY DEF TypeInv, TypeOK, Job
<1>3. \A i \in 1..Len(queue) : queue[i] \in Job /\ queue[i].charge <= sess[queue[i].sid].charged
  BY <1>2 DEF BillingInv, SettlesWhatWasCharged
<1>4. \A i \in 1..Len(queue') : queue'[i].charge <= sess'[queue'[i].sid].charged
  <2>1. \A i \in 1..Len(queue) : queue[i].charge <= f[queue[i].sid]
    BY <1>2, <1>3
  <2>2. \A j \in Job : Asks(j) => j.charge <= f[j.sid]
    BY <1>2, AskedWithinCharges DEF Asks
  <2>3. \A i \in 1..Len(queue') : queue'[i] \in Job /\ queue'[i].charge <= f[queue'[i].sid]
    <3> HIDE DEF f
    <3> QED
      BY <1>2, <2>1, <2>2, QueueStep, JobsUnder
  <2> QED
    BY <1>1, <1>2, <2>3
<1>5. \A j \in orphans' : j.charge <= sess'[j.sid].charged
  <2>1. \A j \in orphans : j \in Job /\ j.charge <= sess[j.sid].charged
    BY DEF TypeInv, TypeOK, BillingInv, SettlesWhatWasCharged
  <2> QED
    BY <1>1, <1>3, <2>1, OrphansStep
<1>6. ASSUME NEW u \in Sids PROVE settler'[u].charge <= sess'[u].charged
  <2>1. settler'[u].charge \in Nat /\ settler'[u].charge <= sess[u].charged
    BY SettlerStep, AskedWithinCharges
  <2>2. /\ sess[u].charged \in Nat /\ sess'[u].charged \in Nat
        /\ sess[u].charged <= sess'[u].charged
    BY ChargedGrows DEF TypeInv, TypeOK, Session
  <2> QED
    BY <2>1, <2>2
<1> QED
  BY <1>4, <1>5, <1>6 DEF SettlesWhatWasCharged

LEMMA InitBilling == Init => BillingInv
BY DEF Init, BillingInv, FreshIsNew, SnapshotIsCurrent, OneChatAtATime, BillsAreBacked,
       SettlesWhatWasCharged, NewSession, NoChat, NoSettler

\* The invariant behind every theorem below.
LEMMA Billing == Spec => [](TypeInv /\ BillingInv)
<1>1. Init => TypeInv /\ BillingInv
  BY InitType, InitBilling DEF TypeInv, Init, BackoffHasAttempt, NoSettler
<1>2. TypeInv /\ BillingInv /\ [Next]_vars => (TypeInv /\ BillingInv)'
  BY StepType, StepBackoff, StepFresh, StepSnapshot, StepChats, StepBills, StepJobs
  DEF TypeInv, BillingInv
<1> QED
  BY <1>1, <1>2, PTL DEF Spec

-----------------------------------------------------------------------------
(* Safety *)

\* No session is ever charged, on disk or in a settlement under way, more than its hold.
THEOREM HoldIsEnough == Spec => []HoldCoversCharges
<1>1. ASSUME TypeInv, BillingInv PROVE HoldCoversCharges
  <2>1. ASSUME NEW s \in Sids
        PROVE  /\ sess[s].charged \in Nat /\ order[s].budget \in Nat
               /\ sess[s].charged <= order[s].budget
    BY <1>1 DEF TypeInv, TypeOK, Session, BillingInv, BillsAreBacked
  <2>2. ASSUME NEW j \in Job, j.charge <= sess[j.sid].charged
        PROVE  j.charge <= order[j.sid].budget
    <3>1. j.sid \in Sids /\ j.charge \in Nat
      BY DEF Job
    <3> QED
      BY <2>1, <2>2, <3>1
  <2>3. \A s \in DOMAIN disk : disk[s].charged <= order[s].budget
    BY <1>1, <2>1 DEF BillingInv, SnapshotIsCurrent
  <2>4. \A i \in DOMAIN queue : queue[i].charge <= order[queue[i].sid].budget
    <3>1. queue \in Seq(Job) /\ DOMAIN queue = 1..Len(queue)
      BY <1>1 DEF TypeInv, TypeOK
    <3>2. \A i \in 1..Len(queue) : queue[i] \in Job
      BY <3>1
    <3> QED
      BY <1>1, <2>2, <3>1, <3>2 DEF BillingInv, SettlesWhatWasCharged
  <2>5. \A j \in orphans : j.charge <= order[j.sid].budget
    BY <1>1, <2>2 DEF TypeInv, TypeOK, BillingInv, SettlesWhatWasCharged
  <2> QED
    BY <2>1, <2>3, <2>4, <2>5 DEF HoldCoversCharges
<1> QED
  BY <1>1, Billing, PTL

\* Every reply a buyer was sent has its charge in sessions.json already.
THEOREM DurableFirst == Spec => []ChargeIsDurableFirst
<1>1. ASSUME TypeInv, BillingInv PROVE ChargeIsDurableFirst
  BY <1>1 DEF BillingInv, SnapshotIsCurrent, BillsAreBacked, ChargeIsDurableFirst
<1> QED
  BY <1>1, Billing, PTL

\* Nothing is charged, and no answer is paid for, before the note is on the chain.
THEOREM Backed == Spec => []EscrowBacked
<1>1. ASSUME TypeInv, BillingInv PROVE EscrowBacked
  BY <1>1 DEF BillingInv, OneChatAtATime, BillsAreBacked, EscrowBacked
<1> QED
  BY <1>1, Billing, PTL

-----------------------------------------------------------------------------
(* The bridge implements the ledger of holds *)

\* Away from a quote, a charge and the chain's steps, nothing the ledger sees moves.
LEMMA LedgerFrame ==
    ASSUME TypeOK, [Next]_vars,
           ~\E s \in Sids, b \in Buyers, t \in Tiers, bal \in Balances : StartSession(s, b, t, bal),
           ~\E s \in Sids : FundEscrow(s) \/ SettleLand(s),
           ~\E j \in orphans : OrphanSettles(j)
    PROVE  order' = order /\ note' = note /\ paid' = paid
<1> USE DEF sessVars, chatVars, fileVars, binVars, chainVars, history
<1>1. ASSUME NEW s \in Sids, SessionStep(s)
      PROVE  order' = order /\ note' = note /\ paid' = paid
  BY <1>1 DEF SessionStep, BuildOk, BuildFail, EscrowReq, VerifyOk, VerifyFail, EndReq, Sweep,
              SettleOk, SettleEvict, SettleSpent, SettleWedged, SettleRetry, SettleFail, JoaoExit
<1>2. ASSUME NEW r \in Requests, ChatStep(r)
      PROVE  order' = order /\ note' = note /\ paid' = paid
  BY <1>2 DEF ChatStep, ChatStart, ChatError, ChatRefuse, ChatCharge, ChatCount, ChatDeliver
<1>3. ASSUME \/ \E b \in Buyers : Register(b)
             \/ CrashRestart
             \/ \E j \in orphans : OrphanExits(j)
      PROVE  order' = order /\ note' = note /\ paid' = paid
  BY <1>3 DEF Register, CrashRestart, OrphanExits
<1>4. CASE UNCHANGED vars
  BY <1>4 DEF vars
<1> QED
  BY <1>1, <1>2, <1>3, <1>4 DEF Next

\* A settlement on the chain, by the bridge's own binary or by one that outlived a
\* bridge, releases the hold and pays no more than the session was charged.
LEMMA ConsumeReleases ==
    ASSUME TypeInv, BillingInv, NEW s \in Sids, NEW c \in Nat, c <= sess[s].charged,
           Consume(s, c), order' = order, sess' = sess
    PROVE  Ledger!Release(s)
<1>1. note \in [Sids -> {"absent", "committed", "consumed"}] /\ paid \in [Sids -> Nat]
      /\ sess[s].charged \in Nat
  BY DEF TypeInv, TypeOK, Session
<1>2. note[s] = "committed" /\ note' = [note EXCEPT ![s] = "consumed"]
      /\ paid' = [paid EXCEPT ![s] = c]
  BY DEF Consume
<1>3. [u \in Sids |-> HoldOf(note'[u])]
        = [[u \in Sids |-> HoldOf(note[u])] EXCEPT ![s] = "released"]
  BY <1>1, <1>2 DEF HoldOf
<1>4. paid'[s] \in 0..sess[s].charged /\ paid' = [paid EXCEPT ![s] = paid'[s]]
  BY <1>1, <1>2
<1>5. HoldOf(note[s]) = "held"
  BY <1>2 DEF HoldOf
<1> QED
  BY <1>3, <1>4, <1>5 DEF Ledger!Release, Ledger!ChangesAt

LEMMA LedgerStep ==
    ASSUME TypeInv, BillingInv, [Next]_vars
    PROVE  [Ledger!Next]_(Ledger!ledger)
<1>1. ASSUME NEW s \in Sids, NEW b \in Buyers, NEW t \in Tiers, NEW bal \in Balances,
             StartSession(s, b, t, bal)
      PROVE  Ledger!Quote(s)
  <2>1. /\ order' = [order EXCEPT ![s] = [buyer |-> b, budget |-> Lesser(Hold[t], bal)]]
        /\ note' = note /\ sess' = sess /\ paid' = paid /\ place[s] = "unused"
    BY <1>1 DEF StartSession, chainVars
  <2>2. order \in [Sids -> [buyer : Buyers \union {None}, budget : Nat]]
    BY DEF TypeInv, TypeOK
  <2>3. Lesser(Hold[t], bal) \in Nat
    BY HoldAssumption, SetsAssumption DEF Lesser
  <2>4. order[s].budget = 0 /\ note[s] = "absent"
    BY <2>1 DEF BillingInv, FreshIsNew
  <2>5. order'[s].budget \in Nat /\ \A u \in Sids : u # s => order'[u].budget = order[u].budget
    BY <2>1, <2>2, <2>3
  <2>6. HoldOf(note[s]) = "none"
    BY <2>4 DEF HoldOf
  <2>7. [u \in Sids |-> order'[u].budget]
          = [[u \in Sids |-> order[u].budget] EXCEPT ![s] = order'[s].budget]
    BY <2>5
  <2> QED
    BY <2>1, <2>4, <2>5, <2>6, <2>7 DEF Ledger!Quote, Ledger!ChangesAt
<1>2. ASSUME NEW s \in Sids, FundEscrow(s) PROVE Ledger!Lock(s)
  <2>1. /\ note[s] = "absent" /\ note' = [note EXCEPT ![s] = "committed"]
        /\ order' = order /\ sess' = sess /\ paid' = paid
    BY <1>2 DEF FundEscrow, sessVars
  <2>2. note \in [Sids -> {"absent", "committed", "consumed"}]
    BY DEF TypeInv, TypeOK
  <2>3. [u \in Sids |-> HoldOf(note'[u])]
          = [[u \in Sids |-> HoldOf(note[u])] EXCEPT ![s] = "held"]
    BY <2>1, <2>2 DEF HoldOf
  <2>4. HoldOf(note[s]) = "none"
    BY <2>1 DEF HoldOf
  <2> QED
    BY <2>1, <2>3, <2>4 DEF Ledger!Lock
<1>3. ASSUME NEW s \in Sids, SettleLand(s) PROVE Ledger!Release(s)
  <2>1. /\ queue # <<>> /\ Head(queue).sid = s /\ Consume(s, Head(queue).charge)
        /\ order' = order /\ sess' = sess
    BY <1>3 DEF SettleLand, Running, sessVars
  <2>2. queue \in Seq(Job)
    BY DEF TypeInv, TypeOK
  <2>3. 1 \in 1..Len(queue) /\ Head(queue) = queue[1] /\ queue[1] \in Job
    BY <2>1, <2>2
  <2>4. Head(queue).charge \in Nat /\ Head(queue).charge <= sess[s].charged
    BY <2>1, <2>3 DEF Job, BillingInv, SettlesWhatWasCharged
  <2> QED
    BY <2>1, <2>4, ConsumeReleases
<1>4. ASSUME NEW j \in orphans, OrphanSettles(j) PROVE Ledger!Release(j.sid)
  <2>1. j \in Job /\ j.charge <= sess[j.sid].charged
    BY DEF TypeInv, TypeOK, BillingInv, SettlesWhatWasCharged
  <2>2. j.sid \in Sids /\ j.charge \in Nat
    BY <2>1 DEF Job
  <2>3. Consume(j.sid, j.charge) /\ order' = order /\ sess' = sess
    BY <1>4 DEF OrphanSettles, sessVars
  <2> QED
    BY <2>1, <2>2, <2>3, ConsumeReleases
<1>5. ASSUME NEW r \in Requests, NEW c \in 0..MaxCharge, ChatCharge(r, c)
      PROVE  \E s \in Sids : Ledger!Bill(s)
  <2> DEFINE s == chat[r].sid
  <2>1. s \in Sids /\ note[s] # "absent" /\ sess[s].charged \in Nat /\ order[s].budget \in Nat
        /\ c \in Nat
    BY <1>5, PriceAssumption DEF ChatCharge, TypeInv, TypeOK, Session, BillingInv, OneChatAtATime
  <2>2. note' = note /\ order' = order /\ paid' = paid
    BY <1>5 DEF ChatCharge, chainVars
  <2>3. \A u \in Sids : sess'[u].charged =
                          IF u = s THEN sess[u].charged + c ELSE sess[u].charged
    BY <1>5, ChargeStep DEF TypeInv, BillingInv
  <2>4. sess[s].charged + c <= order[s].budget
    BY <1>5 DEF ChatCharge, MayCharge, BillingInv, OneChatAtATime
  <2>5. HoldOf(note[s]) # "none"
    <3>1. note[s] \in {"committed", "consumed"}
      BY <2>1 DEF TypeInv, TypeOK
    <3> QED
      BY <3>1 DEF HoldOf
  <2>6. sess'[s].charged \in sess[s].charged..order[s].budget
    BY <2>1, <2>3, <2>4
  <2> QED
    BY <2>1, <2>2, <2>3, <2>5, <2>6 DEF Ledger!Bill, Ledger!ChangesAt
<1>6. ASSUME ~\E s \in Sids, b \in Buyers, t \in Tiers, bal \in Balances : StartSession(s, b, t, bal),
             ~\E s \in Sids : FundEscrow(s) \/ SettleLand(s),
             ~\E j \in orphans : OrphanSettles(j),
             ~\E r \in Requests, c \in 0..MaxCharge : ChatCharge(r, c)
      PROVE  UNCHANGED Ledger!ledger
  <2>1. order' = order /\ note' = note /\ paid' = paid
    BY <1>6, LedgerFrame DEF TypeInv
  <2>2. \A u \in Sids : sess'[u].charged = sess[u].charged
    BY <1>6, ChargedFrame DEF TypeInv, BillingInv
  <2> QED
    BY <2>1, <2>2 DEF Ledger!ledger
<1>7. \A j \in orphans : j.sid \in Sids
  BY DEF TypeInv, TypeOK, Job
<1> QED
  BY <1>1, <1>2, <1>3, <1>4, <1>5, <1>6, <1>7 DEF Ledger!Next

\* Whatever requests, retries, sweeps and crashes do, every step of the bridge is a
\* step of the ledger or none at all.
THEOREM Refinement == Spec => ImplementsLedger
<1>1. Init => Ledger!Init
  BY DEF Init, Ledger!Init, HoldOf, NewSession
<1>2. TypeInv /\ BillingInv /\ [Next]_vars => [Ledger!Next]_(Ledger!ledger)
  BY LedgerStep
<1> QED
  BY <1>1, <1>2, Billing, PTL DEF Spec, ImplementsLedger, Ledger!Spec

-----------------------------------------------------------------------------
(* No reply after the settlement *)

\* What a step can do to a request: nothing, end it, start it, charge it, or go on
\* with its turn.
LEMMA ChatFrame ==
    ASSUME TypeOK, [Next]_vars, NEW r \in Requests
    PROVE  \/ chat'[r] = chat[r]
           \/ chat'[r].phase = "idle"
           \/ \E s \in Sids, t \in Tiers : ChatStart(r, s, t)
           \/ \E c \in 0..MaxCharge : ChatCharge(r, c)
           \/ MidTurn(r) /\ ChatCount(r) /\ chat'[r] = [chat[r] EXCEPT !.phase = "counted"]
<1> USE DEF sessVars, chatVars, fileVars, binVars, chainVars, history
<1>1. ASSUME NEW q \in Requests, ChatStep(q), q # r PROVE chat'[r] = chat[r]
  <2>1. PICK x : chat' = [chat EXCEPT ![q] = x]
    BY <1>1 DEF ChatStep, ChatStart, ChatError, ChatRefuse, ChatCharge, ChatCount, ChatDeliver, EndChat
  <2> QED
    BY <1>1, <2>1 DEF TypeOK
<1>2. ASSUME ChatError(r) \/ ChatRefuse(r) \/ ChatDeliver(r) PROVE chat'[r].phase = "idle"
  BY <1>2 DEF ChatError, ChatRefuse, ChatDeliver, EndChat, NoChat, TypeOK
<1>3. ASSUME NEW s \in Sids, SessionStep(s) PROVE chat' = chat
  BY <1>3 DEF SessionStep, StartSession, BuildOk, BuildFail, FundEscrow, EscrowReq, VerifyOk,
              VerifyFail, EndReq, Sweep, SettleLand, SettleOk, SettleEvict, SettleSpent,
              SettleWedged, SettleRetry, SettleFail, JoaoExit
<1>4. ASSUME NEW b \in Buyers, Register(b) PROVE chat' = chat
  BY <1>4 DEF Register
<1>5. ASSUME CrashRestart PROVE chat'[r].phase = "idle"
  BY <1>5 DEF CrashRestart, NoChat
<1>6. ASSUME NEW j \in orphans, OrphanSettles(j) \/ OrphanExits(j) PROVE chat' = chat
  BY <1>6 DEF OrphanSettles, OrphanExits
<1>7. CASE UNCHANGED vars
  BY <1>7 DEF vars
<1>8. ASSUME ChatCount(r)
      PROVE  MidTurn(r) /\ chat'[r] = [chat[r] EXCEPT !.phase = "counted"]
  BY <1>8 DEF ChatCount, TypeOK
<1>9. ASSUME ChatStep(r)
      PROVE  \/ chat'[r].phase = "idle"
             \/ \E s \in Sids, t \in Tiers : ChatStart(r, s, t)
             \/ \E c \in 0..MaxCharge : ChatCharge(r, c)
             \/ ChatCount(r)
  BY <1>2, <1>9 DEF ChatStep
<1> QED
  BY <1>1, <1>3, <1>4, <1>5, <1>6, <1>7, <1>8, <1>9 DEF Next

\* In the middle of a chat's turn no session moves, unless the bridge dies.
LEMMA TurnFrame ==
    ASSUME TurnInv, [Next]_vars, ~CrashRestart, NEW r \in Requests, MidTurn(r)
    PROVE  place' = place /\ sess' = sess /\ settler' = settler
<1> USE DEF sessVars, chatVars, fileVars, binVars, chainVars, history
<1>1. InTurn
  BY DEF InTurn
<1>2. ASSUME NEW s \in Sids, FundEscrow(s) \/ SettleLand(s)
      PROVE  place' = place /\ sess' = sess /\ settler' = settler
  BY <1>2 DEF FundEscrow, SettleLand
<1>3. ASSUME NEW s \in Sids, SettleEvict(s) PROVE FALSE
  BY <1>3 DEF SettleEvict, TurnInv
<1>4. ASSUME NEW s \in Sids,
             \/ \E b \in Buyers, t \in Tiers, bal \in Balances : StartSession(s, b, t, bal)
             \/ BuildOk(s) \/ BuildFail(s) \/ EscrowReq(s) \/ VerifyOk(s) \/ VerifyFail(s)
             \/ EndReq(s) \/ Sweep(s) \/ SettleOk(s) \/ SettleSpent(s)
             \/ SettleWedged(s) \/ SettleRetry(s) \/ SettleFail(s)
             \/ \E ok \in BOOLEAN : JoaoExit(s, ok)
      PROVE  FALSE
  BY <1>1, <1>4 DEF StartSession, BuildOk, BuildFail, EscrowReq, VerifyOk, VerifyFail, EndReq,
                    Sweep, SettleOk, SettleSpent, SettleWedged, SettleRetry, SettleFail, JoaoExit
<1>5. ASSUME NEW q \in Requests, ChatStep(q)
      PROVE  place' = place /\ sess' = sess /\ settler' = settler
  <2>1. CASE ChatCount(q) \/ ChatDeliver(q)
    BY <2>1 DEF ChatCount, ChatDeliver
  <2>2. CASE ~(ChatCount(q) \/ ChatDeliver(q))
    BY <1>1, <1>5, <2>2 DEF ChatStep, ChatStart, ChatError, ChatRefuse, ChatCharge
  <2> QED
    BY <2>1, <2>2
<1>6. ASSUME NEW b \in Buyers, Register(b) PROVE FALSE
  BY <1>1, <1>6 DEF Register
<1>7. ASSUME NEW j \in orphans, OrphanSettles(j) \/ OrphanExits(j)
      PROVE  place' = place /\ sess' = sess /\ settler' = settler
  BY <1>7 DEF OrphanSettles, OrphanExits
<1>8. CASE UNCHANGED vars
  BY <1>8 DEF vars
<1> QED
  BY <1>2, <1>3, <1>4, <1>5, <1>6, <1>7, <1>8 DEF Next, SessionStep

\* A session in the Map stays there or is evicted with its settled flag up, and an
\* evicted one stays evicted, unless the bridge dies.
LEMMA SettledFrame ==
    ASSUME TypeOK, [Next]_vars, ~CrashRestart, NEW u \in Sids, place[u] \in {"live", "gone"}
    PROVE  \/ place'[u] = place[u] /\ sess'[u].settled = sess[u].settled
           \/ place'[u] = "gone" /\ sess'[u].settled
<1> USE DEF sessVars, chatVars, fileVars, binVars, chainVars, history
<1> DEFINE Same == place'[u] = place[u] /\ sess'[u].settled = sess[u].settled
<1>1. sess[u] \in Session
  BY DEF TypeOK
<1>2. ASSUME NEW s \in Sids, NEW b \in Buyers, NEW t \in Tiers, NEW bal \in Balances,
             StartSession(s, b, t, bal)
      PROVE  Same
  BY <1>2 DEF StartSession, TypeOK
<1>3. ASSUME NEW s \in Sids, BuildOk(s) \/ BuildFail(s) PROVE Same
  BY <1>3 DEF BuildOk, BuildFail, TypeOK
<1>4. ASSUME NEW s \in Sids, VerifyOk(s) PROVE Same
  <2>1. place' = place /\ sess' = [sess EXCEPT ![s].armed = TRUE]
    BY <1>4 DEF VerifyOk
  <2>2. CASE u = s
    BY <1>1, <2>1, <2>2 DEF TypeOK, Session
  <2>3. CASE u # s
    BY <2>1, <2>3 DEF TypeOK
  <2> QED
    BY <2>2, <2>3
<1>5. ASSUME NEW s \in Sids, EndReq(s) \/ Sweep(s) \/ SettleFail(s) PROVE Same
  <2>1. place' = place /\ \E v \in BOOLEAN : sess' = [sess EXCEPT ![s].settling = v]
    BY <1>5 DEF EndReq, Sweep, StartSettling, SettleFail, ReleaseSettling
  <2> QED
    BY <2>1, SettlingFrame DEF TypeOK
<1>6. ASSUME NEW s \in Sids, SettleEvict(s) \/ SettleSpent(s)
      PROVE  Same \/ (place'[u] = "gone" /\ sess'[u].settled)
  <2>1. /\ place' = [place EXCEPT ![s] = "gone"]
        /\ sess' = [sess EXCEPT ![s].settled = TRUE, ![s].settling = FALSE]
    BY <1>6 DEF SettleEvict, SettleSpent, Evict
  <2>2. CASE u = s
    BY <1>1, <2>1, <2>2 DEF TypeOK, Session
  <2>3. CASE u # s
    BY <2>1, <2>3 DEF TypeOK
  <2> QED
    BY <2>2, <2>3
<1>7. ASSUME NEW s \in Sids,
             \/ FundEscrow(s) \/ EscrowReq(s) \/ VerifyFail(s) \/ SettleLand(s)
             \/ SettleOk(s) \/ SettleWedged(s) \/ SettleRetry(s)
             \/ \E ok \in BOOLEAN : JoaoExit(s, ok)
      PROVE  Same
  BY <1>7 DEF FundEscrow, EscrowReq, VerifyFail, SettleLand, SettleOk, SettleWedged,
              SettleRetry, JoaoExit
<1>8. ASSUME NEW r \in Requests, NEW c \in 0..MaxCharge, ChatCharge(r, c) PROVE Same
  <2>1. place' = place /\ sess' = [sess EXCEPT ![chat[r].sid].charged = @ + c]
    BY <1>8 DEF ChatCharge
  <2>2. CASE u = chat[r].sid
    BY <1>1, <2>1, <2>2 DEF TypeOK, Session
  <2>3. CASE u # chat[r].sid
    BY <2>1, <2>3 DEF TypeOK
  <2> QED
    BY <2>2, <2>3
<1>9. ASSUME NEW r \in Requests, ChatStep(r), ~\E c \in 0..MaxCharge : ChatCharge(r, c)
      PROVE  Same
  BY <1>9 DEF ChatStep, ChatStart, ChatError, ChatRefuse, ChatCount, ChatDeliver
<1>10. ASSUME NEW b \in Buyers, Register(b) PROVE Same
  BY <1>10 DEF Register
<1>11. ASSUME NEW j \in orphans, OrphanSettles(j) \/ OrphanExits(j) PROVE Same
  BY <1>11 DEF OrphanSettles, OrphanExits
<1>12. CASE UNCHANGED vars
  BY <1>12 DEF vars
<1> QED
  BY <1>2, <1>3, <1>4, <1>5, <1>6, <1>7, <1>8, <1>9, <1>10, <1>11, <1>12 DEF Next, SessionStep

LEMMA StepTurn == TypeInv /\ BillingInv /\ TurnInv /\ [Next]_vars => TurnInv'
<1> SUFFICES ASSUME TypeOK, BillingInv, TurnInv, [Next]_vars PROVE TurnInv'
  BY DEF TypeInv
<1>1. CASE CrashRestart
  BY <1>1 DEF CrashRestart, NoChat, TurnInv
<1>2. CASE ~CrashRestart
  <2>1. ASSUME NEW r \in Requests, chat'[r].phase = "answering"
        PROVE  \/ place'[chat'[r].sid] = "live"
               \/ place'[chat'[r].sid] = "gone" /\ sess'[chat'[r].sid].settled
    <3>1. CASE chat'[r] = chat[r]
      <4>1. chat[r].sid \in Sids /\ place[chat[r].sid] \in {"live", "gone"}
        BY <2>1, <3>1 DEF BillingInv, OneChatAtATime, TurnInv
      <4> QED
        BY <1>2, <2>1, <3>1, <4>1, SettledFrame DEF TurnInv
    <3>2. CASE \E s \in Sids, t \in Tiers : ChatStart(r, s, t)
      BY <3>2 DEF ChatStart, sessVars, TypeOK
    <3>3. CASE \E c \in 0..MaxCharge : ChatCharge(r, c)
      <4>1. MidTurn(r)'
        BY <3>3 DEF ChatCharge, TypeOK, Chat
      <4> QED
        BY <2>1, <4>1
    <3>4. CASE MidTurn(r) /\ chat'[r] = [chat[r] EXCEPT !.phase = "counted"]
      BY <2>1, <3>4 DEF TypeOK, Chat
    <3> QED
      BY <2>1, <3>1, <3>2, <3>3, <3>4, ChatFrame
  <2>2. ASSUME NEW r \in Requests, MidTurn(r)'
        PROVE  /\ place'[chat'[r].sid] = "live" /\ ~sess'[chat'[r].sid].settled
               /\ \A s \in Sids : settler'[s].phase # "recorded"
    <3>1. CASE chat'[r] = chat[r]
      BY <1>2, <2>2, <3>1, TurnFrame DEF TurnInv
    <3>2. CASE \E s \in Sids, t \in Tiers : ChatStart(r, s, t)
      <4>1. chat'[r].phase = "answering"
        BY <3>2 DEF ChatStart, TypeOK
      <4> QED
        BY <2>2, <4>1
    <3>3. ASSUME NEW c \in 0..MaxCharge, ChatCharge(r, c)
          PROVE  /\ place'[chat'[r].sid] = "live" /\ ~sess'[chat'[r].sid].settled
                 /\ \A s \in Sids : settler'[s].phase # "recorded"
      <4>1. chat[r].phase = "answering" /\ ~sess[chat[r].sid].settled /\ ~InTurn
            /\ place' = place /\ settler' = settler
        BY <3>3 DEF ChatCharge, MayCharge
      <4>2. chat[r].sid \in Sids /\ place[chat[r].sid] = "live"
        BY <4>1 DEF TurnInv, BillingInv, OneChatAtATime
      <4>3. chat'[r].sid = chat[r].sid
        BY <3>3 DEF ChatCharge, TypeOK, Chat
      <4>4. ~sess'[chat[r].sid].settled
        BY <1>2, <4>1, <4>2, SettledFrame
      <4> QED
        BY <4>1, <4>2, <4>3, <4>4 DEF InTurn
    <3>4. CASE MidTurn(r) /\ chat'[r] = [chat[r] EXCEPT !.phase = "counted"]
      <4>1. chat'[r].sid = chat[r].sid
        BY <3>4 DEF TypeOK, Chat
      <4> QED
        BY <1>2, <3>4, <4>1, TurnFrame DEF TurnInv
    <3> QED
      BY <2>2, <3>1, <3>2, <3>3, <3>4, ChatFrame
  <2> QED
    BY <2>1, <2>2 DEF TurnInv
<1> QED
  BY <1>1, <1>2

\* The replies sent of a session grow only by the delivery of a charged one.
LEMMA ServedFrame ==
    ASSUME TypeOK, [Next]_vars, NEW u \in Sids, served'[u] # served[u]
    PROVE  \E r \in Requests : MidTurn(r) /\ chat[r].sid = u
<1> USE DEF sessVars, chatVars, fileVars, binVars, chainVars, history
<1>1. ASSUME NEW r \in Requests, ChatDeliver(r)
      PROVE  MidTurn(r) /\ chat[r].sid = u
  BY <1>1 DEF ChatDeliver, TypeOK
<1>2. ASSUME NEW r \in Requests, ChatStep(r), ~ChatDeliver(r) PROVE served' = served
  BY <1>2 DEF ChatStep, ChatStart, ChatError, ChatRefuse, ChatCharge, ChatCount
<1>3. ASSUME NEW s \in Sids, SessionStep(s) PROVE served' = served
  BY <1>3 DEF SessionStep, StartSession, BuildOk, BuildFail, FundEscrow, EscrowReq, VerifyOk,
              VerifyFail, EndReq, Sweep, SettleLand, SettleOk, SettleEvict, SettleSpent,
              SettleWedged, SettleRetry, SettleFail, JoaoExit
<1>4. ASSUME \/ \E b \in Buyers : Register(b)
             \/ CrashRestart
             \/ \E j \in orphans : OrphanSettles(j) \/ OrphanExits(j)
      PROVE  served' = served
  BY <1>4 DEF Register, CrashRestart, OrphanSettles, OrphanExits
<1>5. CASE UNCHANGED vars
  BY <1>5 DEF vars
<1> QED
  BY <1>1, <1>2, <1>3, <1>4, <1>5 DEF Next

\* A reply that finishes after its session was settled is never sent.
THEOREM RepliesBeforeSettling == Spec => NoReplyAfterSettling
<1>1. Init => TurnInv
  BY DEF Init, NoChat, TurnInv
<1>2. TypeInv /\ BillingInv /\ TurnInv /\ [Next]_vars => TurnInv'
  BY StepTurn
<1>3. TypeInv /\ TurnInv /\ [Next]_vars =>
        [\A s \in Sids : served'[s] # served[s] => place[s] = "live" /\ ~sess[s].settled]_vars
  BY ServedFrame DEF TypeInv, TurnInv
<1>4. Spec => []TurnInv
  BY <1>1, <1>2, Billing, PTL DEF Spec
<1> QED
  BY <1>3, <1>4, Billing, PTL DEF Spec, NoReplyAfterSettling
=============================================================================
