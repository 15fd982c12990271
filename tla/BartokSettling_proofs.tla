------------------------ MODULE BartokSettling_proofs ------------------------
(***************************************************************************)
(* Theorems about how BartokBridge settles, refunds and evicts a session    *)
(* and about what it is paid, for every value of the constants.  They rest  *)
(* on the typing and billing invariants of BartokBridge_proofs.             *)
(***************************************************************************)
EXTENDS BartokBridge_proofs

USE DEF MidTurn

-----------------------------------------------------------------------------
(* One settlement per session *)

\* A settlement in the queue has its handler waiting for it, the only one of its
\* session, and the settling flag of a session that has a handler is up.
OneSettler ==
    /\ \A i \in 1..Len(queue) : queue[i].kind = "settle" => settler[queue[i].sid].phase = "queued"
    /\ \A i, j \in 1..Len(queue) :
           /\ queue[i].kind = "settle" /\ queue[j].kind = "settle"
           /\ queue[i].sid = queue[j].sid
           => i = j
    /\ \A s \in Sids : settler[s].phase # "idle" => place[s] = "live" /\ sess[s].settling

\* What a step does to the queue and to the handlers that wait for it.
Unmoved == queue' = queue /\ settler' = settler
OthersWait(s) == \A u \in Sids \ {s} : settler'[u] = settler[u]
AnotherExits == queue # <<>> /\ Head(queue).kind # "settle" /\ queue' = Tail(queue) /\ settler' = settler
SettleExits(s) == Running("settle", s) /\ queue' = Tail(queue) /\ OthersWait(s)
AnotherJoins == \E j \in Job : j.kind # "settle" /\ queue' = Append(queue, j) /\ settler' = settler
HandlerLeaves(s) ==
    /\ settler[s].phase = "recorded" /\ settler'[s].phase = "idle" /\ OthersWait(s)
    /\ queue' = queue \/ \E j \in Job : j.kind # "settle" /\ queue' = Append(queue, j)
SettleJoins(s) ==
    /\ settler[s].phase # "queued" /\ settler'[s].phase = "queued" /\ OthersWait(s)
    /\ \E j \in Job : j.kind = "settle" /\ j.sid = s /\ queue' = Append(queue, j)

LEMMA QueueMoves ==
    ASSUME TypeInv, OneSettler, [Next]_vars
    PROVE  \/ Unmoved
           \/ AnotherExits
           \/ \E s \in Sids : SettleExits(s)
           \/ AnotherJoins
           \/ \E s \in Sids : HandlerLeaves(s)
           \/ \E s \in Sids : SettleJoins(s)
           \/ queue' = <<>>
<1> USE DEF sessVars, chatVars, fileVars, binVars, chainVars, history
<1>1. settler \in [Sids -> Settler] /\ sess \in [Sids -> Session]
  BY DEF TypeInv, TypeOK
<1>2. ASSUME NEW s \in Sids, NEW k \in {"build", "verify", "settle", "joao"}, NEW c \in Nat
      PROVE  RunBin(k, s, c) \in Job /\ RunBin(k, s, c).kind = k /\ RunBin(k, s, c).sid = s
  BY DEF RunBin, Job
<1>3. ASSUME NEW s \in Sids PROVE sess[s].charged \in Nat /\ settler[s].charge \in Nat
  BY <1>1 DEF Session, Settler
<1>4. ASSUME NEW s \in Sids, NEW b \in Buyers, NEW t \in Tiers, NEW bal \in Balances,
             StartSession(s, b, t, bal)
      PROVE  AnotherJoins
  BY <1>2, <1>4 DEF StartSession, AnotherJoins
<1>5. ASSUME NEW s \in Sids, EscrowReq(s) PROVE AnotherJoins
  BY <1>2, <1>5 DEF EscrowReq, AnotherJoins
<1>6. ASSUME NEW s \in Sids, EndReq(s) \/ Sweep(s) PROVE SettleJoins(s)
  <2>1. settler[s].phase = "idle"
    BY <1>6 DEF EndReq, Sweep, MaySettle, OneSettler
  <2>2. PICK w \in {"end", "sweep"} : StartSettling(s, w)
    BY <1>6 DEF EndReq, Sweep
  <2>3. settler'[s].phase = "queued" /\ OthersWait(s)
    BY <1>1, <2>2 DEF StartSettling, OthersWait
  <2>4. \E j \in Job : j.kind = "settle" /\ j.sid = s /\ queue' = Append(queue, j)
    BY <1>2, <1>3, <2>2 DEF StartSettling
  <2> QED
    BY <2>1, <2>3, <2>4 DEF SettleJoins
<1>7. ASSUME NEW s \in Sids, SettleRetry(s) PROVE SettleJoins(s)
  <2>1. settler[s].phase = "waiting"
    BY <1>7 DEF SettleRetry
  <2>2. settler'[s].phase = "queued" /\ OthersWait(s)
    BY <1>1, <1>7 DEF SettleRetry, OthersWait, Settler
  <2>3. \E j \in Job : j.kind = "settle" /\ j.sid = s /\ queue' = Append(queue, j)
    BY <1>2, <1>3, <1>7 DEF SettleRetry
  <2> QED
    BY <2>1, <2>2, <2>3 DEF SettleJoins
<1>8. ASSUME NEW s \in Sids, SettleEvict(s) PROVE HandlerLeaves(s)
  <2>1. settler[s].phase = "recorded" /\ settler' = [settler EXCEPT ![s] = NoSettler]
    BY <1>8 DEF SettleEvict
  <2>2. settler'[s].phase = "idle" /\ OthersWait(s)
    BY <1>1, <2>1 DEF NoSettler, OthersWait
  <2>3. queue' = queue \/ \E j \in Job : j.kind # "settle" /\ queue' = Append(queue, j)
    BY <1>2, <1>3, <1>8 DEF SettleEvict
  <2> QED
    BY <2>1, <2>2, <2>3 DEF HandlerLeaves
<1>9. ASSUME NEW s \in Sids, SettleOk(s) \/ SettleSpent(s) \/ SettleWedged(s) \/ SettleFail(s)
      PROVE  SettleExits(s)
  <2>1. Running("settle", s) /\ queue' = Tail(queue)
    BY <1>9 DEF SettleOk, SettleSpent, SettleWedged, SettleFail, BinExits
  <2>2. OthersWait(s)
    BY <1>1, <1>9 DEF SettleOk, SettleSpent, SettleWedged, SettleFail, OthersWait
  <2> QED
    BY <2>1, <2>2 DEF SettleExits
<1>10. ASSUME NEW s \in Sids,
              \/ BuildOk(s) \/ BuildFail(s) \/ VerifyOk(s) \/ VerifyFail(s)
              \/ \E ok \in BOOLEAN : JoaoExit(s, ok)
       PROVE  AnotherExits
  BY <1>10 DEF BuildOk, BuildFail, VerifyOk, VerifyFail, JoaoExit, Running, BinExits, AnotherExits
<1>11. ASSUME NEW s \in Sids, FundEscrow(s) \/ SettleLand(s) PROVE Unmoved
  BY <1>11 DEF FundEscrow, SettleLand, Unmoved
<1>12. ASSUME NEW r \in Requests, ChatStep(r) PROVE Unmoved
  BY <1>12 DEF ChatStep, ChatStart, ChatError, ChatRefuse, ChatCharge, ChatCount, ChatDeliver, Unmoved
<1>13. ASSUME NEW b \in Buyers, Register(b) PROVE Unmoved
  BY <1>13 DEF Register, Unmoved
<1>14. ASSUME CrashRestart PROVE queue' = <<>>
  BY <1>14 DEF CrashRestart
<1>15. ASSUME NEW j \in orphans, OrphanSettles(j) \/ OrphanExits(j) PROVE Unmoved
  BY <1>15 DEF OrphanSettles, OrphanExits, Unmoved
<1>16. CASE UNCHANGED vars
  BY <1>16 DEF vars, Unmoved
<1> QED
  BY <1>4, <1>5, <1>6, <1>7, <1>8, <1>9, <1>10, <1>11, <1>12, <1>13, <1>14, <1>15, <1>16
  DEF Next, SessionStep

\* Where a job of the queue after a step was before it.
LEMMA JobBefore ==
    ASSUME NEW q \in Seq(Job), NEW i \in 1..Len(Tail(q)), q # <<>>
    PROVE  i + 1 \in 1..Len(q) /\ i + 1 # 1 /\ Tail(q)[i] = q[i + 1]
OBVIOUS

LEMMA JobJoins ==
    ASSUME NEW q \in Seq(Job), NEW j \in Job, NEW i \in 1..Len(Append(q, j))
    PROVE  \/ i \in 1..Len(q) /\ Append(q, j)[i] = q[i]
           \/ i = Len(q) + 1 /\ Append(q, j)[i] = j
OBVIOUS

\* The queue and its handlers agree after a step.
LEMMA StepJobsWait ==
    ASSUME TypeInv, OneSettler, [Next]_vars
    PROVE  /\ \A i \in 1..Len(queue') :
                  queue'[i].kind = "settle" => settler'[queue'[i].sid].phase = "queued"
           /\ \A i, j \in 1..Len(queue') :
                  /\ queue'[i].kind = "settle" /\ queue'[j].kind = "settle"
                  /\ queue'[i].sid = queue'[j].sid
                  => i = j
<1> DEFINE Agree ==
        /\ \A i \in 1..Len(queue') :
               queue'[i].kind = "settle" => settler'[queue'[i].sid].phase = "queued"
        /\ \A i, j \in 1..Len(queue') :
               /\ queue'[i].kind = "settle" /\ queue'[j].kind = "settle"
               /\ queue'[i].sid = queue'[j].sid
               => i = j
<1>0. queue \in Seq(Job)
  BY DEF TypeInv, TypeOK
<1>1. queue \in Seq(Job) /\ \A i \in 1..Len(queue) : queue[i].sid \in Sids
  <2>1. \A i \in 1..Len(queue) : queue[i] \in Job
    BY <1>0
  <2> QED
    BY <1>0, <2>1 DEF Job
<1>2. CASE Unmoved
  BY <1>2 DEF Unmoved, OneSettler
<1>3. CASE AnotherExits
  <2>1. \A i \in 1..Len(queue') : i + 1 \in 1..Len(queue) /\ queue'[i] = queue[i + 1]
    BY <1>1, <1>3, JobBefore DEF AnotherExits
  <2>2. settler' = settler
    BY <1>3 DEF AnotherExits
  <2>3. \A i \in 1..Len(queue') :
            queue'[i].kind = "settle" => settler'[queue'[i].sid].phase = "queued"
    BY <2>1, <2>2 DEF OneSettler
  <2>4. ASSUME NEW i \in 1..Len(queue'), NEW j \in 1..Len(queue'),
               queue'[i].kind = "settle", queue'[j].kind = "settle",
               queue'[i].sid = queue'[j].sid
        PROVE  i = j
    <3>1. /\ i + 1 \in 1..Len(queue) /\ j + 1 \in 1..Len(queue)
          /\ queue'[i] = queue[i + 1] /\ queue'[j] = queue[j + 1]
      BY <2>1
    <3>2. i + 1 = j + 1
      BY <2>4, <3>1 DEF OneSettler
    <3> QED
      BY <3>2
  <2> QED
    BY <2>3, <2>4
<1>4. ASSUME NEW s \in Sids, SettleExits(s) PROVE Agree
  <2>1. \A i \in 1..Len(queue') :
            i + 1 \in 1..Len(queue) /\ i + 1 # 1 /\ queue'[i] = queue[i + 1]
    BY <1>1, <1>4, JobBefore DEF SettleExits, Running
  <2>2. 1 \in 1..Len(queue) /\ queue[1].kind = "settle" /\ queue[1].sid = s
    BY <1>1, <1>4 DEF SettleExits, Running
  <2>3. ASSUME NEW i \in 1..Len(queue'), queue'[i].kind = "settle"
        PROVE  settler'[queue'[i].sid].phase = "queued"
    <3>1. queue'[i].sid # s
      BY <2>1, <2>2, <2>3 DEF OneSettler
    <3>2. queue'[i].sid \in Sids \ {s}
      BY <1>1, <2>1, <3>1
    <3>3. settler'[queue'[i].sid] = settler[queue'[i].sid]
      BY <1>4, <3>2 DEF SettleExits, OthersWait
    <3> QED
      BY <2>1, <2>3, <3>3 DEF OneSettler
  <2>4. ASSUME NEW i \in 1..Len(queue'), NEW j \in 1..Len(queue'),
               queue'[i].kind = "settle", queue'[j].kind = "settle",
               queue'[i].sid = queue'[j].sid
        PROVE  i = j
    <3>1. /\ i + 1 \in 1..Len(queue) /\ j + 1 \in 1..Len(queue)
          /\ queue'[i] = queue[i + 1] /\ queue'[j] = queue[j + 1]
      BY <2>1
    <3>2. i + 1 = j + 1
      BY <2>4, <3>1 DEF OneSettler
    <3> QED
      BY <3>2
  <2> QED
    BY <2>3, <2>4
\* a job of another kind joins, and every handler of a queued settlement stays
<1>5. ASSUME NEW k \in Job, k.kind # "settle", queue' = Append(queue, k),
             \A i \in 1..Len(queue) : queue[i].kind = "settle" =>
                 settler'[queue[i].sid] = settler[queue[i].sid]
      PROVE  Agree
  <2>1. \A i \in 1..Len(queue') : queue'[i].kind = "settle" =>
            i \in 1..Len(queue) /\ queue'[i] = queue[i]
    BY <1>1, <1>5, JobJoins
  <2> QED
    BY <1>5, <2>1 DEF OneSettler
<1>6. CASE AnotherJoins
  BY <1>5, <1>6 DEF AnotherJoins
<1>7. ASSUME NEW s \in Sids, HandlerLeaves(s) PROVE Agree
  <2>1. \A i \in 1..Len(queue) : queue[i].kind = "settle" =>
            settler'[queue[i].sid] = settler[queue[i].sid]
    BY <1>1, <1>7 DEF HandlerLeaves, OthersWait, OneSettler
  <2>2. CASE queue' = queue
    BY <2>1, <2>2 DEF OneSettler
  <2>3. CASE \E k \in Job : k.kind # "settle" /\ queue' = Append(queue, k)
    BY <1>5, <2>1, <2>3
  <2> QED
    BY <1>7, <2>2, <2>3 DEF HandlerLeaves
<1>8. ASSUME NEW s \in Sids, SettleJoins(s) PROVE Agree
  <2>1. PICK k \in Job : k.kind = "settle" /\ k.sid = s /\ queue' = Append(queue, k)
    BY <1>8 DEF SettleJoins
  <2>2. \A i \in 1..Len(queue') :
            \/ i \in 1..Len(queue) /\ queue'[i] = queue[i]
            \/ i = Len(queue) + 1 /\ queue'[i] = k
    BY <1>1, <2>1, JobJoins
  <2>3. \A i \in 1..Len(queue) : queue[i].kind = "settle" => queue[i].sid \in Sids \ {s}
    BY <1>1, <1>8 DEF SettleJoins, OneSettler
  <2>4. \A i \in 1..Len(queue) : queue[i].kind = "settle" =>
            settler'[queue[i].sid].phase = "queued"
    BY <1>8, <2>3 DEF SettleJoins, OthersWait, OneSettler
  <2>5. settler'[s].phase = "queued"
    BY <1>8 DEF SettleJoins
  <2>6. \A i \in 1..Len(queue') :
            queue'[i].kind = "settle" => settler'[queue'[i].sid].phase = "queued"
    BY <2>1, <2>2, <2>4, <2>5
  <2>7. ASSUME NEW i \in 1..Len(queue'), NEW j \in 1..Len(queue'),
               queue'[i].kind = "settle", queue'[j].kind = "settle",
               queue'[i].sid = queue'[j].sid
        PROVE  i = j
    BY <2>1, <2>2, <2>3, <2>7 DEF OneSettler
  <2> QED
    BY <2>6, <2>7
<1>9. CASE queue' = <<>>
  BY <1>9
<1> QED
  BY <1>2, <1>3, <1>4, <1>6, <1>7, <1>8, <1>9, QueueMoves

\* A handler is at work on a session of the Map whose settling flag is up.
LEMMA StepFlags ==
    ASSUME TypeInv, OneSettler, [Next]_vars, NEW u \in Sids, settler'[u].phase # "idle"
    PROVE  place'[u] = "live" /\ sess'[u].settling
<1> USE DEF sessVars, chatVars, fileVars, binVars, chainVars, history
<1>1. settler \in [Sids -> Settler] /\ sess \in [Sids -> Session] /\ sess[u] \in Session
      /\ place \in [Sids -> {"unused", "building", "live", "gone"}]
  BY DEF TypeInv, TypeOK
<1>2. settler[u].phase # "idle" => place[u] = "live" /\ sess[u].settling
  BY DEF OneSettler
<1>3. ASSUME NEW s \in Sids, EndReq(s) \/ Sweep(s) PROVE place'[u] = "live" /\ sess'[u].settling
  <2>1. place' = place /\ sess' = [sess EXCEPT ![s].settling = TRUE] /\ place[s] = "live"
    BY <1>3 DEF EndReq, Sweep, MaySettle, StartSettling
  <2>2. CASE u = s
    BY <1>1, <2>1, <2>2 DEF Session
  <2>3. CASE u # s
    <3>1. settler'[u] = settler[u] /\ sess'[u] = sess[u]
      BY <1>1, <1>3, <2>1, <2>3 DEF EndReq, Sweep, StartSettling
    <3> QED
      BY <1>2, <2>1, <3>1
  <2> QED
    BY <2>2, <2>3
<1>4. ASSUME NEW s \in Sids, SettleEvict(s) \/ SettleSpent(s)
      PROVE  place'[u] = "live" /\ sess'[u].settling
  <2>1. /\ settler' = [settler EXCEPT ![s] = NoSettler]
        /\ place' = [place EXCEPT ![s] = "gone"]
        /\ sess' = [sess EXCEPT ![s].settled = TRUE, ![s].settling = FALSE]
    BY <1>4 DEF SettleEvict, SettleSpent, Evict
  <2>2. u # s
    BY <1>1, <2>1 DEF NoSettler
  <2> QED
    BY <1>1, <1>2, <2>1, <2>2
<1>5. ASSUME NEW s \in Sids, SettleFail(s) PROVE place'[u] = "live" /\ sess'[u].settling
  <2>1. /\ settler' = [settler EXCEPT ![s] = NoSettler] /\ place' = place
        /\ sess' = [sess EXCEPT ![s].settling = FALSE]
    BY <1>5 DEF SettleFail, ReleaseSettling
  <2>2. u # s
    BY <1>1, <2>1 DEF NoSettler
  <2> QED
    BY <1>1, <1>2, <2>1, <2>2
\* the handler of u goes on, or is not concerned
<1>6. ASSUME NEW s \in Sids, SettleOk(s) \/ SettleWedged(s) \/ SettleRetry(s)
      PROVE  place'[u] = "live" /\ sess'[u].settling
  <2>1. place' = place /\ sess' = sess /\ \A v \in Sids \ {s} : settler'[v] = settler[v]
    BY <1>1, <1>6 DEF SettleOk, SettleWedged, SettleRetry
  <2>2. settler[s].phase # "idle"
    <3>1. ASSUME Running("settle", s) PROVE settler[s].phase = "queued"
      <4>1. queue \in Seq(Job) /\ queue # <<>>
        BY <3>1 DEF TypeInv, TypeOK, Running
      <4>2. 1 \in 1..Len(queue) /\ Head(queue) = queue[1]
        BY <4>1
      <4> QED
        BY <3>1, <4>2 DEF Running, OneSettler
    <3> QED
      BY <1>6, <3>1 DEF SettleOk, SettleWedged, SettleRetry
  <2> QED
    BY <1>2, <2>1, <2>2
<1>7. ASSUME NEW s \in Sids, BuildOk(s) PROVE place'[u] = "live" /\ sess'[u].settling
  <2>1. settler' = settler /\ place' = [place EXCEPT ![s] = "live"]
        /\ sess' = [sess EXCEPT ![s] = NewSession] /\ place[s] = "building"
    BY <1>7 DEF BuildOk
  <2>2. u # s
    BY <1>2, <2>1
  <2> QED
    BY <1>1, <1>2, <2>1, <2>2
<1>8. ASSUME NEW s \in Sids,
             BuildFail(s) \/ \E b \in Buyers, t \in Tiers, bal \in Balances : StartSession(s, b, t, bal)
      PROVE  place'[u] = "live" /\ sess'[u].settling
  BY <1>1, <1>2, <1>8 DEF BuildFail, StartSession
<1>9. ASSUME NEW s \in Sids, VerifyOk(s) PROVE place'[u] = "live" /\ sess'[u].settling
  <2>1. settler' = settler /\ place' = place /\ sess' = [sess EXCEPT ![s].armed = TRUE]
    BY <1>9 DEF VerifyOk
  <2>2. sess'[u].settling = sess[u].settling
    BY <1>1, <2>1 DEF Session
  <2> QED
    BY <1>2, <2>1, <2>2
<1>10. ASSUME NEW r \in Requests, NEW c \in 0..MaxCharge, ChatCharge(r, c)
       PROVE  place'[u] = "live" /\ sess'[u].settling
  <2>1. settler' = settler /\ place' = place
        /\ sess' = [sess EXCEPT ![chat[r].sid].charged = @ + c]
    BY <1>10 DEF ChatCharge
  <2>2. sess'[u].settling = sess[u].settling
    BY <1>1, <2>1 DEF Session
  <2> QED
    BY <1>2, <2>1, <2>2
<1>11. ASSUME CrashRestart PROVE FALSE
  BY <1>11 DEF CrashRestart, NoSettler
<1>12. ASSUME UNCHANGED <<place, sess, settler>> PROVE place'[u] = "live" /\ sess'[u].settling
  BY <1>2, <1>12
<1>13. ASSUME NEW s \in Sids,
              \/ FundEscrow(s) \/ EscrowReq(s) \/ VerifyFail(s) \/ SettleLand(s)
              \/ \E ok \in BOOLEAN : JoaoExit(s, ok)
       PROVE  UNCHANGED <<place, sess, settler>>
  BY <1>13 DEF FundEscrow, EscrowReq, VerifyFail, SettleLand, JoaoExit
<1>14. ASSUME NEW r \in Requests,
              \/ \E s \in Sids, t \in Tiers : ChatStart(r, s, t)
              \/ ChatError(r) \/ ChatRefuse(r) \/ ChatCount(r) \/ ChatDeliver(r)
       PROVE  UNCHANGED <<place, sess, settler>>
  BY <1>14 DEF ChatStart, ChatError, ChatRefuse, ChatCount, ChatDeliver
<1>15. ASSUME \/ \E b \in Buyers : Register(b)
              \/ \E j \in orphans : OrphanSettles(j) \/ OrphanExits(j)
       PROVE  UNCHANGED <<place, sess, settler>>
  BY <1>15 DEF Register, OrphanSettles, OrphanExits
<1>16. CASE UNCHANGED vars
  BY <1>12, <1>16 DEF vars
<1> QED
  BY <1>3, <1>4, <1>5, <1>6, <1>7, <1>8, <1>9, <1>10, <1>11, <1>12, <1>13, <1>14, <1>15, <1>16
  DEF Next, SessionStep, ChatStep

LEMMA Settling == Spec => []OneSettler
<1>1. Init => OneSettler
  BY DEF Init, OneSettler, NoSettler
<1>2. TypeInv /\ OneSettler /\ [Next]_vars => OneSettler'
  <2> SUFFICES ASSUME TypeInv, OneSettler, [Next]_vars PROVE OneSettler'
    OBVIOUS
  <2>1. \A s \in Sids : settler'[s].phase # "idle" => place'[s] = "live" /\ sess'[s].settling
    BY StepFlags
  <2> QED
    BY <2>1, StepJobsWait DEF OneSettler
<1> QED
  BY <1>1, <1>2, Billing, PTL DEF Spec

\* Retries, the buyer's end request and the sweeper never have two settlements of a
\* session queued or running, and none of a session that was evicted.
THEOREM OneSettlement == Spec => []OneSettlePerSession
<1>1. TypeInv /\ OneSettler => OneSettlePerSession
  <2> SUFFICES ASSUME TypeInv, OneSettler, NEW i \in DOMAIN queue, NEW j \in DOMAIN queue,
                      queue[i].kind = "settle"
               PROVE  /\ place[queue[i].sid] = "live" /\ sess[queue[i].sid].settling
                      /\ queue[j].kind = "settle" /\ queue[j].sid = queue[i].sid => i = j
    BY DEF OneSettlePerSession
  <2>1. queue \in Seq(Job)
    BY DEF TypeInv, TypeOK
  <2>2. i \in 1..Len(queue) /\ j \in 1..Len(queue) /\ queue[i] \in Job
    BY <2>1
  <2>3. queue[i].sid \in Sids /\ settler[queue[i].sid].phase = "queued"
    BY <2>2 DEF Job, OneSettler
  <2> QED
    BY <2>2, <2>3 DEF OneSettler
<1> QED
  BY <1>1, Settling, Billing, PTL

-----------------------------------------------------------------------------
(* Refund files and evictions *)

\* A transaction that landed is that of the settlement now running, and it is not yet
\* in a refund file.
LandedSettles ==
    landed =>
        /\ queue # <<>> /\ Head(queue).kind = "settle"
        /\ note[Head(queue).sid] = "consumed"
        /\ paid[Head(queue).sid] = Head(queue).charge
        /\ \A b \in Buyers : \A i \in DOMAIN refunds[b] : refunds[b][i] # Head(queue).sid

RecordedIsSpent == \A s \in Sids : settler[s].phase = "recorded" => note[s] = "consumed"

\* A verification still in the queue is of a session of the Map, or came too late to
\* arm a hold that is still locked.
VerifiesKnown ==
    \A i \in 1..Len(queue) : queue[i].kind = "verify" =>
        place[queue[i].sid] = "live" \/ note[queue[i].sid] = "consumed"

ReleaseInv ==
    /\ LandedSettles
    /\ RecordedIsSpent
    /\ VerifiesKnown
    /\ EvictionStrandsNothing
    /\ RefundFilesAreReal

\* A spent note stays spent, with its payment, its buyer and its budget.
LEMMA SpentFrame ==
    ASSUME TypeInv, BillingInv, [Next]_vars, NEW u \in Sids, note[u] = "consumed"
    PROVE  note'[u] = "consumed" /\ paid'[u] = paid[u] /\ order'[u] = order[u]
<1> USE DEF sessVars, chatVars, fileVars, binVars, chainVars, history
<1>1. ASSUME NEW s \in Sids, NEW b \in Buyers, NEW t \in Tiers, NEW bal \in Balances,
             StartSession(s, b, t, bal)
      PROVE  note' = note /\ paid' = paid /\ order'[u] = order[u]
  <2>1. s # u
    BY <1>1 DEF StartSession, BillingInv, FreshIsNew
  <2> QED
    BY <1>1, <2>1 DEF StartSession, TypeInv, TypeOK
<1>2. ASSUME NEW s \in Sids, NEW c, Consume(s, c)
      PROVE  note'[u] = note[u] /\ paid'[u] = paid[u]
  BY <1>2 DEF Consume, TypeInv, TypeOK
<1>3. ASSUME NEW s \in Sids, SettleLand(s)
      PROVE  note'[u] = note[u] /\ paid'[u] = paid[u] /\ order' = order
  BY <1>2, <1>3 DEF SettleLand
<1>4. ASSUME NEW j \in orphans, OrphanSettles(j)
      PROVE  note'[u] = note[u] /\ paid'[u] = paid[u] /\ order' = order
  <2>1. j.sid \in Sids
    BY DEF TypeInv, TypeOK, Job
  <2> QED
    BY <1>2, <1>4, <2>1 DEF OrphanSettles
<1>5. ASSUME NEW s \in Sids, FundEscrow(s)
      PROVE  note'[u] = note[u] /\ paid' = paid /\ order' = order
  BY <1>5 DEF FundEscrow, TypeInv, TypeOK
<1>6. ASSUME ~\E s \in Sids, b \in Buyers, t \in Tiers, bal \in Balances : StartSession(s, b, t, bal),
             ~\E s \in Sids : FundEscrow(s) \/ SettleLand(s),
             ~\E j \in orphans : OrphanSettles(j)
      PROVE  note' = note /\ paid' = paid /\ order' = order
  BY <1>6, LedgerFrame DEF TypeInv
<1> QED
  BY <1>1, <1>3, <1>4, <1>5, <1>6

\* The running binary's transaction lands, or was there already and the binary runs on.
LEMMA LandedFrame ==
    ASSUME TypeInv, [Next]_vars, landed'
    PROVE  \/ \E s \in Sids : SettleLand(s)
           \/ /\ landed /\ refunds' = refunds
              /\ queue' = queue \/ \E j \in Job : queue' = Append(queue, j)
<1> USE DEF sessVars, chatVars, fileVars, binVars, chainVars, history
<1>1. ASSUME NEW s \in Sids, NEW k \in {"build", "verify", "settle", "joao"}, NEW c \in Nat
      PROVE  RunBin(k, s, c) \in Job
  BY DEF RunBin, Job
<1>2. ASSUME NEW s \in Sids PROVE sess[s].charged \in Nat /\ settler[s].charge \in Nat
  BY DEF TypeInv, TypeOK, Session, Settler
<1>3. ASSUME NEW s \in Sids, NEW b \in Buyers, NEW t \in Tiers, NEW bal \in Balances,
             StartSession(s, b, t, bal)
      PROVE  landed /\ refunds' = refunds /\ \E j \in Job : queue' = Append(queue, j)
  BY <1>1, <1>3 DEF StartSession
<1>4. ASSUME NEW s \in Sids, EscrowReq(s) \/ EndReq(s) \/ Sweep(s) \/ SettleRetry(s)
      PROVE  landed /\ refunds' = refunds /\ \E j \in Job : queue' = Append(queue, j)
  BY <1>1, <1>2, <1>4 DEF EscrowReq, EndReq, Sweep, StartSettling, SettleRetry
<1>5. ASSUME NEW s \in Sids, SettleEvict(s)
      PROVE  /\ landed /\ refunds' = refunds
             /\ queue' = queue \/ \E j \in Job : queue' = Append(queue, j)
  BY <1>1, <1>2, <1>5 DEF SettleEvict
<1>6. ASSUME NEW s \in Sids,
             \/ BuildOk(s) \/ BuildFail(s) \/ VerifyOk(s) \/ VerifyFail(s) \/ SettleOk(s)
             \/ SettleSpent(s) \/ SettleWedged(s) \/ SettleFail(s)
             \/ \E ok \in BOOLEAN : JoaoExit(s, ok)
      PROVE  FALSE
  BY <1>6 DEF BuildOk, BuildFail, VerifyOk, VerifyFail, SettleOk, SettleSpent, SettleWedged,
              SettleFail, JoaoExit, BinExits
<1>7. ASSUME NEW s \in Sids, FundEscrow(s) PROVE landed /\ refunds' = refunds /\ queue' = queue
  BY <1>7 DEF FundEscrow
<1>8. ASSUME NEW r \in Requests, ChatStep(r) PROVE landed /\ refunds' = refunds /\ queue' = queue
  BY <1>8 DEF ChatStep, ChatStart, ChatError, ChatRefuse, ChatCharge, ChatCount, ChatDeliver
<1>9. ASSUME \/ \E b \in Buyers : Register(b)
             \/ \E j \in orphans : OrphanSettles(j) \/ OrphanExits(j)
      PROVE  landed /\ refunds' = refunds /\ queue' = queue
  BY <1>9 DEF Register, OrphanSettles, OrphanExits
<1>10. ASSUME CrashRestart PROVE FALSE
  BY <1>10 DEF CrashRestart
<1>11. CASE UNCHANGED vars
  BY <1>11 DEF vars
<1> QED
  BY <1>3, <1>4, <1>5, <1>6, <1>7, <1>8, <1>9, <1>10, <1>11 DEF Next, SessionStep

LEMMA StepLanded == TypeInv /\ BillingInv /\ ReleaseInv /\ [Next]_vars => LandedSettles'
<1> SUFFICES ASSUME TypeInv, BillingInv, ReleaseInv, [Next]_vars, landed'
             PROVE  /\ queue' # <<>> /\ Head(queue').kind = "settle"
                    /\ note'[Head(queue').sid] = "consumed"
                    /\ paid'[Head(queue').sid] = Head(queue').charge
                    /\ \A b \in Buyers : \A i \in DOMAIN refunds'[b] :
                           refunds'[b][i] # Head(queue').sid
  BY DEF LandedSettles
<1>0. queue \in Seq(Job)
  BY DEF TypeInv, TypeOK
<1>1. ASSUME NEW s \in Sids, SettleLand(s)
      PROVE  /\ queue' # <<>> /\ Head(queue').kind = "settle"
             /\ note'[Head(queue').sid] = "consumed"
             /\ paid'[Head(queue').sid] = Head(queue').charge
             /\ \A b \in Buyers : \A i \in DOMAIN refunds'[b] :
                    refunds'[b][i] # Head(queue').sid
  <2>1. /\ queue # <<>> /\ Head(queue).kind = "settle" /\ Head(queue).sid = s
        /\ queue' = queue /\ refunds' = refunds
        /\ note[s] = "committed" /\ note' = [note EXCEPT ![s] = "consumed"]
        /\ paid' = [paid EXCEPT ![s] = Head(queue).charge]
    BY <1>1 DEF SettleLand, Running, Consume, fileVars
  <2>2. note'[s] = "consumed" /\ paid'[s] = Head(queue).charge
    BY <2>1 DEF TypeInv, TypeOK
  <2>3. \A b \in Buyers : \A i \in DOMAIN refunds[b] : refunds[b][i] # s
    BY <2>1 DEF ReleaseInv, RefundFilesAreReal
  <2> QED
    BY <2>1, <2>2, <2>3
<1>2. ASSUME landed, refunds' = refunds, queue' = queue \/ \E j \in Job : queue' = Append(queue, j)
      PROVE  /\ queue' # <<>> /\ Head(queue').kind = "settle"
             /\ note'[Head(queue').sid] = "consumed"
             /\ paid'[Head(queue').sid] = Head(queue').charge
             /\ \A b \in Buyers : \A i \in DOMAIN refunds'[b] :
                    refunds'[b][i] # Head(queue').sid
  <2>1. /\ queue # <<>> /\ Head(queue).kind = "settle"
        /\ note[Head(queue).sid] = "consumed"
        /\ paid[Head(queue).sid] = Head(queue).charge
        /\ \A b \in Buyers : \A i \in DOMAIN refunds[b] : refunds[b][i] # Head(queue).sid
    BY <1>2 DEF ReleaseInv, LandedSettles
  <2>2. queue' # <<>> /\ Head(queue') = Head(queue)
    BY <1>0, <1>2, <2>1
  <2>3. Head(queue).sid \in Sids
    <3>1. Head(queue) \in Job
      BY <1>0, <2>1
    <3> QED
      BY <3>1 DEF Job
  <2>4. note'[Head(queue).sid] = "consumed" /\ paid'[Head(queue).sid] = paid[Head(queue).sid]
    BY <2>1, <2>3, SpentFrame
  <2> QED
    BY <1>2, <2>1, <2>2, <2>4
<1> QED
  BY <1>1, <1>2, LandedFrame

LEMMA StepRecorded == TypeInv /\ BillingInv /\ ReleaseInv /\ [Next]_vars => RecordedIsSpent'
<1> SUFFICES ASSUME TypeInv, BillingInv, ReleaseInv, [Next]_vars, NEW u \in Sids,
                    settler'[u].phase = "recorded"
             PROVE  note'[u] = "consumed"
  BY DEF RecordedIsSpent
<1> USE DEF sessVars, chatVars, fileVars, binVars, chainVars, history
<1>0. settler \in [Sids -> Settler] /\ settler[u] \in Settler
  BY DEF TypeInv, TypeOK
<1>1. CASE settler[u].phase = "recorded"
  BY <1>1, SpentFrame DEF ReleaseInv, RecordedIsSpent
<1>2. ASSUME NEW s \in Sids, SettleOk(s) PROVE settler[u].phase = "recorded" \/ note'[u] = "consumed"
  <2>1. note[s] = "consumed" /\ note' = note
    BY <1>2 DEF SettleOk, Running, ReleaseInv, LandedSettles
  <2>2. u = s \/ settler'[u] = settler[u]
    BY <1>0, <1>2 DEF SettleOk
  <2> QED
    BY <2>1, <2>2
<1>3. ASSUME NEW s \in Sids,
             EndReq(s) \/ Sweep(s) \/ SettleEvict(s) \/ SettleSpent(s) \/ SettleFail(s)
      PROVE  settler'[u] = settler[u]
  BY <1>0, <1>3 DEF EndReq, Sweep, StartSettling, SettleEvict, SettleSpent, SettleFail, NoSettler
<1>4. ASSUME NEW s \in Sids, SettleWedged(s) \/ SettleRetry(s) PROVE settler'[u] = settler[u]
  BY <1>0, <1>4 DEF SettleWedged, SettleRetry, Settler
<1>5. ASSUME CrashRestart PROVE FALSE
  BY <1>5 DEF CrashRestart, NoSettler
<1>6. ASSUME NEW s \in Sids,
             \/ \E b \in Buyers, t \in Tiers, bal \in Balances : StartSession(s, b, t, bal)
             \/ BuildOk(s) \/ BuildFail(s) \/ FundEscrow(s) \/ EscrowReq(s)
             \/ VerifyOk(s) \/ VerifyFail(s) \/ SettleLand(s)
             \/ \E ok \in BOOLEAN : JoaoExit(s, ok)
      PROVE  settler' = settler
  BY <1>6 DEF StartSession, BuildOk, BuildFail, FundEscrow, EscrowReq, VerifyOk, VerifyFail,
              SettleLand, JoaoExit
<1>7. ASSUME NEW r \in Requests, ChatStep(r) PROVE settler' = settler
  BY <1>7 DEF ChatStep, ChatStart, ChatError, ChatRefuse, ChatCharge, ChatCount, ChatDeliver
<1>8. ASSUME \/ \E b \in Buyers : Register(b)
             \/ \E j \in orphans : OrphanSettles(j) \/ OrphanExits(j)
      PROVE  settler' = settler
  BY <1>8 DEF Register, OrphanSettles, OrphanExits
<1>9. CASE UNCHANGED vars
  BY <1>1, <1>9 DEF vars
<1> QED
  BY <1>1, <1>2, <1>3, <1>4, <1>5, <1>6, <1>7, <1>8, <1>9 DEF Next, SessionStep

\* A session of the Map leaves it only when its note is spent.
LEMMA LiveFrame ==
    ASSUME TypeInv, BillingInv, ReleaseInv, [Next]_vars, NEW u \in Sids,
           place[u] = "live" \/ note[u] = "consumed"
    PROVE  place'[u] = "live" \/ note'[u] = "consumed"
<1> USE DEF sessVars, chatVars, fileVars, binVars, chainVars, history
<1>0. place \in [Sids -> {"unused", "building", "live", "gone"}]
  BY DEF TypeInv, TypeOK
<1>1. CASE note[u] = "consumed"
  BY <1>1, SpentFrame
<1>2. CASE place[u] = "live"
  <2>1. ASSUME NEW s \in Sids, SettleEvict(s) \/ SettleSpent(s)
        PROVE  place'[u] = "live" \/ note[u] = "consumed"
    <3>1. place' = [place EXCEPT ![s] = "gone"]
      BY <2>1 DEF SettleEvict, SettleSpent, Evict
    <3>2. note[s] = "consumed"
      BY <2>1 DEF SettleEvict, SettleSpent, EscrowSpent, ReleaseInv, RecordedIsSpent
    <3> QED
      BY <1>0, <1>2, <3>1, <3>2
  <2>2. ASSUME NEW s \in Sids,
               \/ \E b \in Buyers, t \in Tiers, bal \in Balances : StartSession(s, b, t, bal)
               \/ BuildOk(s) \/ BuildFail(s)
        PROVE  place'[u] = "live"
    BY <1>0, <1>2, <2>2 DEF StartSession, BuildOk, BuildFail
  <2>3. ASSUME CrashRestart PROVE place'[u] = "live"
    BY <1>2, <2>3 DEF CrashRestart, BillingInv, SnapshotIsCurrent
  <2>4. ASSUME NEW s \in Sids,
               \/ FundEscrow(s) \/ EscrowReq(s) \/ VerifyOk(s) \/ VerifyFail(s) \/ EndReq(s)
               \/ Sweep(s) \/ SettleLand(s) \/ SettleOk(s) \/ SettleWedged(s)
               \/ SettleRetry(s) \/ SettleFail(s) \/ \E ok \in BOOLEAN : JoaoExit(s, ok)
        PROVE  place' = place
    BY <2>4 DEF FundEscrow, EscrowReq, VerifyOk, VerifyFail, EndReq, Sweep, SettleLand,
                SettleOk, SettleWedged, SettleRetry, SettleFail, JoaoExit
  <2>5. ASSUME NEW r \in Requests, ChatStep(r) PROVE place' = place
    BY <2>5 DEF ChatStep, ChatStart, ChatError, ChatRefuse, ChatCharge, ChatCount, ChatDeliver
  <2>6. ASSUME \/ \E b \in Buyers : Register(b)
               \/ \E j \in orphans : OrphanSettles(j) \/ OrphanExits(j)
        PROVE  place' = place
    BY <2>6 DEF Register, OrphanSettles, OrphanExits
  <2>7. CASE UNCHANGED vars
    BY <1>2, <2>7 DEF vars
  <2> QED
    BY <1>1, <1>2, <2>1, <2>2, <2>3, <2>4, <2>5, <2>6, <2>7, SpentFrame DEF Next, SessionStep
<1> QED
  BY <1>1, <1>2

\* A verification joins the queue only for a session of the Map.
LEMMA NewVerify ==
    ASSUME TypeInv, [Next]_vars, NEW i \in 1..Len(queue'), queue'[i].kind = "verify"
    PROVE  \/ \E k \in 1..Len(queue) : queue'[i] = queue[k]
           \/ queue'[i].sid \in Sids /\ place[queue'[i].sid] = "live"
<1> USE DEF sessVars, chatVars, fileVars, binVars, chainVars, history
<1> DEFINE Old == \E k \in 1..Len(queue) : queue'[i] = queue[k]
<1>0. queue \in Seq(Job)
  BY DEF TypeInv, TypeOK
<1>1. ASSUME NEW s \in Sids, NEW k \in {"build", "verify", "settle", "joao"}, NEW c \in Nat,
             queue' = Append(queue, RunBin(k, s, c))
      PROVE  Old \/ (k = "verify" /\ queue'[i].sid = s)
  <2>1. RunBin(k, s, c) \in Job /\ RunBin(k, s, c).kind = k /\ RunBin(k, s, c).sid = s
    BY DEF RunBin, Job
  <2> QED
    BY <1>0, <1>1, <2>1, JobJoins
<1>2. ASSUME NEW s \in Sids PROVE sess[s].charged \in Nat /\ settler[s].charge \in Nat
  BY DEF TypeInv, TypeOK, Session, Settler
<1>3. ASSUME queue' = queue PROVE Old
  BY <1>3
<1>4. ASSUME NEW s \in Sids, NEW b \in Buyers, NEW t \in Tiers, NEW bal \in Balances,
             StartSession(s, b, t, bal)
      PROVE  Old
  BY <1>1, <1>4 DEF StartSession
<1>5. ASSUME NEW s \in Sids, EscrowReq(s)
      PROVE  Old \/ (queue'[i].sid = s /\ place[s] = "live")
  BY <1>1, <1>5 DEF EscrowReq
<1>6. ASSUME NEW s \in Sids, EndReq(s) \/ Sweep(s) \/ SettleRetry(s) PROVE Old
  BY <1>1, <1>2, <1>6 DEF EndReq, Sweep, StartSettling, SettleRetry
<1>7. ASSUME NEW s \in Sids, SettleEvict(s) PROVE Old
  BY <1>1, <1>2, <1>3, <1>7 DEF SettleEvict
<1>8. ASSUME NEW s \in Sids,
             \/ BuildOk(s) \/ BuildFail(s) \/ VerifyOk(s) \/ VerifyFail(s) \/ SettleOk(s)
             \/ SettleSpent(s) \/ SettleWedged(s) \/ SettleFail(s)
             \/ \E ok \in BOOLEAN : JoaoExit(s, ok)
      PROVE  Old
  <2>1. queue' = Tail(queue) /\ queue # <<>>
    BY <1>8 DEF BuildOk, BuildFail, VerifyOk, VerifyFail, SettleOk, SettleSpent, SettleWedged,
                SettleFail, JoaoExit, BinExits, Running
  <2> QED
    BY <1>0, <2>1, JobBefore
<1>9. ASSUME NEW s \in Sids, FundEscrow(s) \/ SettleLand(s) PROVE queue' = queue
  BY <1>9 DEF FundEscrow, SettleLand
<1>10. ASSUME NEW r \in Requests, ChatStep(r) PROVE queue' = queue
  BY <1>10 DEF ChatStep, ChatStart, ChatError, ChatRefuse, ChatCharge, ChatCount, ChatDeliver
<1>11. ASSUME \/ \E b \in Buyers : Register(b)
              \/ \E j \in orphans : OrphanSettles(j) \/ OrphanExits(j)
       PROVE  queue' = queue
  BY <1>11 DEF Register, OrphanSettles, OrphanExits
<1>12. ASSUME CrashRestart PROVE FALSE
  BY <1>12 DEF CrashRestart
<1>13. CASE UNCHANGED vars
  BY <1>3, <1>13 DEF vars
<1> QED
  BY <1>3, <1>4, <1>5, <1>6, <1>7, <1>8, <1>9, <1>10, <1>11, <1>12, <1>13
  DEF Next, SessionStep

LEMMA StepVerifies == TypeInv /\ BillingInv /\ ReleaseInv /\ [Next]_vars => VerifiesKnown'
<1> SUFFICES ASSUME TypeInv, BillingInv, ReleaseInv, [Next]_vars,
                    NEW i \in 1..Len(queue'), queue'[i].kind = "verify"
             PROVE  place'[queue'[i].sid] = "live" \/ note'[queue'[i].sid] = "consumed"
  BY DEF VerifiesKnown
<1>1. ASSUME NEW k \in 1..Len(queue), queue'[i] = queue[k]
      PROVE  /\ queue'[i].sid \in Sids
             /\ place[queue'[i].sid] = "live" \/ note[queue'[i].sid] = "consumed"
  <2>1. queue \in Seq(Job)
    BY DEF TypeInv, TypeOK
  <2>2. queue[k] \in Job
    BY <2>1
  <2> QED
    BY <1>1, <2>2 DEF Job, ReleaseInv, VerifiesKnown
<1> QED
  BY <1>1, NewVerify, LiveFrame

LEMMA StepEvicted == TypeInv /\ BillingInv /\ ReleaseInv /\ [Next]_vars => EvictionStrandsNothing'
<1> SUFFICES ASSUME TypeInv, BillingInv, ReleaseInv, [Next]_vars, NEW u \in Sids,
                    sess'[u].armed, place'[u] = "gone"
             PROVE  note'[u] = "consumed"
  BY DEF EvictionStrandsNothing
<1>1. place[u] \in {"unused", "building", "live", "gone"}
  BY DEF TypeInv, TypeOK
<1>2. CASE place[u] = "live"
  BY <1>2, LiveFrame
<1>3. CASE place[u] = "gone"
  <2>1. CASE sess[u].armed
    BY <1>3, <2>1, SpentFrame DEF ReleaseInv, EvictionStrandsNothing
  <2>2. CASE VerifyOk(u)
    <3>1. queue # <<>> /\ queue \in Seq(Job) /\ Head(queue).kind = "verify" /\ Head(queue).sid = u
      BY <2>2 DEF VerifyOk, Running, TypeInv, TypeOK
    <3>2. 1 \in 1..Len(queue) /\ Head(queue) = queue[1]
      BY <3>1
    <3>3. note[u] = "consumed"
      BY <1>3, <3>1, <3>2 DEF ReleaseInv, VerifiesKnown
    <3> QED
      BY <3>3, SpentFrame
  <2> QED
    BY <2>1, <2>2, ArmedBy DEF TypeInv, BillingInv
<1>4. CASE place[u] \in {"unused", "building"}
  <2>1. ~sess[u].armed /\ note[u] = "absent"
    BY <1>4 DEF BillingInv, FreshIsNew
  <2> QED
    BY <2>1, ArmedFrame DEF TypeInv, BillingInv
<1> QED
  BY <1>1, <1>2, <1>3, <1>4

\* What LastOf keeps is a suffix.
LEMMA SuffixAt ==
    ASSUME NEW q \in Seq(Sids), NEW k \in Nat, k <= Len(q)
    PROVE  /\ Len(SubSeq(q, 1 + k, Len(q))) + k = Len(q)
           /\ \A i \in 1..(Len(q) - k) : SubSeq(q, 1 + k, Len(q))[i] = q[i + k]
<1>1. Len(SubSeq(q, 1 + k, Len(q))) = Len(q) - k
  OBVIOUS
<1>2. ASSUME NEW i \in 1..(Len(q) - k) PROVE SubSeq(q, 1 + k, Len(q))[i] = q[i + k]
  <2>1. 1 + k + i - 1 = i + k
    OBVIOUS
  <2>2. SubSeq(q, 1 + k, Len(q))[i] = q[1 + k + i - 1]
    OBVIOUS
  <2> QED
    BY <2>1, <2>2
<1>3. Len(SubSeq(q, 1 + k, Len(q))) + k = Len(q)
  BY <1>1
<1> QED
  BY <1>2, <1>3

LEMMA LastOfSuffix ==
    ASSUME NEW q \in Seq(Sids), NEW n \in Nat \ {0}
    PROVE  \E k \in Nat : /\ Len(LastOf(q, n)) + k = Len(q)
                          /\ \A i \in 1..Len(LastOf(q, n)) :
                                 i + k \in 1..Len(q) /\ LastOf(q, n)[i] = q[i + k]
<1> DEFINE k == IF Len(q) > n THEN Len(q) - n ELSE 0
<1>1. k \in Nat
  BY Len(q) \in Nat
<1>2. k <= Len(q) /\ LastOf(q, n) = SubSeq(q, 1 + k, Len(q))
  BY Len(q) \in Nat DEF LastOf
<1> HIDE DEF k
<1>3. Len(LastOf(q, n)) + k = Len(q) /\ LastOf(q, n) \in Seq(Sids)
  BY <1>1, <1>2, SuffixAt, LastOfType
<1>4. \A i \in 1..Len(LastOf(q, n)) : i \in 1..(Len(q) - k) /\ i + k \in 1..Len(q)
  BY <1>1, <1>2, <1>3
<1>5. \A i \in 1..Len(LastOf(q, n)) : LastOf(q, n)[i] = q[i + k]
  BY <1>1, <1>2, <1>4, SuffixAt
<1> QED
  BY <1>1, <1>3, <1>4, <1>5

LEMMA RefundFrame ==
    ASSUME [Next]_vars
    PROVE  refunds' = refunds \/ \E s \in Sids : SettleOk(s)
<1> USE DEF sessVars, chatVars, fileVars, binVars, chainVars, history
<1>1. ASSUME NEW s \in Sids, SessionStep(s) PROVE refunds' = refunds \/ SettleOk(s)
  BY <1>1 DEF SessionStep, StartSession, BuildOk, BuildFail, FundEscrow, EscrowReq, VerifyOk,
              VerifyFail, EndReq, Sweep, SettleLand, SettleEvict, SettleSpent, SettleWedged,
              SettleRetry, SettleFail, JoaoExit
<1>2. ASSUME NEW r \in Requests, ChatStep(r) PROVE refunds' = refunds
  BY <1>2 DEF ChatStep, ChatStart, ChatError, ChatRefuse, ChatCharge, ChatCount, ChatDeliver
<1>3. ASSUME \/ \E b \in Buyers : Register(b)
             \/ CrashRestart
             \/ \E j \in orphans : OrphanSettles(j) \/ OrphanExits(j)
      PROVE  refunds' = refunds
  BY <1>3 DEF Register, CrashRestart, OrphanSettles, OrphanExits
<1>4. CASE UNCHANGED vars
  BY <1>4 DEF vars
<1> QED
  BY <1>1, <1>2, <1>3, <1>4 DEF Next

LEMMA StepRefunds == TypeInv /\ BillingInv /\ ReleaseInv /\ [Next]_vars => RefundFilesAreReal'
<1> SUFFICES ASSUME TypeInv, BillingInv, ReleaseInv, [Next]_vars, NEW b \in Buyers,
                    NEW i \in DOMAIN refunds'[b], NEW j \in DOMAIN refunds'[b]
             PROVE  LET s == refunds'[b][i] IN
                      /\ order'[s].buyer = b /\ note'[s] = "consumed" /\ paid'[s] < order'[s].budget
                      /\ refunds'[b][j] = s => i = j
  BY DEF RefundFilesAreReal
<1> DEFINE Real(s) == order[s].buyer = b /\ note[s] = "consumed" /\ paid[s] < order[s].budget
<1>1. refunds[b] \in Seq(Sids)
  BY DEF TypeInv, TypeOK
<1>2. \A k \in 1..Len(refunds[b]) : refunds[b][k] \in Sids /\ Real(refunds[b][k])
  <2>1. \A k \in 1..Len(refunds[b]) : refunds[b][k] \in Sids /\ k \in DOMAIN refunds[b]
    BY <1>1
  <2> QED
    BY <2>1 DEF ReleaseInv, RefundFilesAreReal
<1>3. \A k, m \in 1..Len(refunds[b]) : refunds[b][k] = refunds[b][m] => k = m
  <2>1. DOMAIN refunds[b] = 1..Len(refunds[b])
    BY <1>1
  <2> QED
    BY <2>1 DEF ReleaseInv, RefundFilesAreReal
<1>4. ASSUME NEW s \in Sids, Real(s)
      PROVE  order'[s].buyer = b /\ note'[s] = "consumed" /\ paid'[s] < order'[s].budget
  BY <1>4, SpentFrame
<1>5. CASE refunds'[b] = refunds[b]
  <2>1. i \in 1..Len(refunds[b]) /\ j \in 1..Len(refunds[b])
    BY <1>1, <1>5
  <2> QED
    BY <1>2, <1>3, <1>4, <1>5, <2>1
<1>6. ASSUME NEW s \in Sids, SettleOk(s), refunds'[b] # refunds[b]
      PROVE  LET u == refunds'[b][i] IN
               /\ order'[u].buyer = b /\ note'[u] = "consumed" /\ paid'[u] < order'[u].budget
               /\ refunds'[b][j] = u => i = j
  <2> DEFINE q == Append(refunds[b], s)
  <2>1. /\ order[s].buyer = b /\ order[s].budget > Head(queue).charge
        /\ refunds' = [refunds EXCEPT ![order[s].buyer] = LastOf(Append(@, s), RefundCap)]
    BY <1>6 DEF SettleOk, RecordRefund, TypeInv, TypeOK
  <2>2. refunds'[b] = LastOf(q, RefundCap)
    BY <2>1 DEF TypeInv, TypeOK
  <2>3. q \in Seq(Sids) /\ Len(q) = Len(refunds[b]) + 1
    BY <1>1
  <2>4. PICK k \in Nat : /\ Len(LastOf(q, RefundCap)) + k = Len(q)
                         /\ \A m \in 1..Len(LastOf(q, RefundCap)) :
                                m + k \in 1..Len(q) /\ LastOf(q, RefundCap)[m] = q[m + k]
    BY <2>3, LastOfSuffix, LimitsAssumption
  <2>5. LastOf(q, RefundCap) \in Seq(Sids)
    BY <2>3, LastOfType, LimitsAssumption
  <2>6. i \in 1..Len(LastOf(q, RefundCap)) /\ j \in 1..Len(LastOf(q, RefundCap))
    BY <2>2, <2>5
  <2>7. Real(s) /\ \A m \in 1..Len(refunds[b]) : refunds[b][m] # s
    <3>1. /\ landed /\ Head(queue).sid = s
      BY <1>6 DEF SettleOk, Running
    <3>2. note[s] = "consumed" /\ paid[s] = Head(queue).charge
      BY <3>1 DEF ReleaseInv, LandedSettles
    <3>3. Head(queue).charge \in Nat /\ order[s].budget \in Nat
      BY <1>6, RunningType DEF SettleOk, TypeInv, TypeOK
    <3>4. \A m \in 1..Len(refunds[b]) : refunds[b][m] # s
      BY <1>1, <3>1 DEF ReleaseInv, LandedSettles
    <3> QED
      BY <2>1, <3>2, <3>3, <3>4
  <2>8. \A m \in 1..Len(q) : q[m] \in Sids /\ Real(q[m])
    BY <1>1, <1>2, <2>3, <2>7
  <2>9. \A m, n \in 1..Len(q) : q[m] = q[n] => m = n
    <3>1. \A m \in 1..Len(q) : \/ m \in 1..Len(refunds[b]) /\ q[m] = refunds[b][m]
                               \/ m = Len(refunds[b]) + 1 /\ q[m] = s
      BY <1>1, <2>3
    <3> HIDE DEF q
    <3> QED
      BY <1>3, <2>7, <3>1
  <2>10. refunds'[b][i] = q[i + k] /\ refunds'[b][j] = q[j + k]
         /\ i + k \in 1..Len(q) /\ j + k \in 1..Len(q)
    BY <2>2, <2>4, <2>6
  <2>11. refunds'[b][j] = refunds'[b][i] => i = j
    <3>1. ASSUME refunds'[b][j] = refunds'[b][i] PROVE i + k = j + k
      <4> HIDE DEF q
      <4> QED
        BY <2>9, <2>10, <3>1
    <3>2. i \in Nat /\ j \in Nat
      BY <2>6
    <3> QED
      BY <3>1, <3>2
  <2>12. refunds'[b][i] \in Sids /\ Real(refunds'[b][i])
    BY <2>8, <2>10
  <2> QED
    BY <1>4, <2>11, <2>12
<1> QED
  BY <1>5, <1>6, RefundFrame

LEMMA Release == Spec => []ReleaseInv
<1>1. Init => ReleaseInv
  BY DEF Init, ReleaseInv, LandedSettles, RecordedIsSpent, VerifiesKnown, EvictionStrandsNothing,
         RefundFilesAreReal, NewSession, NoSettler
<1>2. TypeInv /\ BillingInv /\ ReleaseInv /\ [Next]_vars => ReleaseInv'
  BY StepLanded, StepRecorded, StepVerifies, StepEvicted, StepRefunds DEF ReleaseInv
<1> QED
  BY <1>1, <1>2, Billing, PTL DEF Spec

\* The bridge forgets an armed session only when its hold was released on the chain;
\* neither a crash in the middle of a settlement nor a late verification strands one.
THEOREM NothingStranded == Spec => []EvictionStrandsNothing
<1>1. ReleaseInv => EvictionStrandsNothing
  BY DEF ReleaseInv
<1> QED
  BY <1>1, Release, PTL

\* Every refund file kept is of a note the chain spent for less than the buyer's hold,
\* is filed under that buyer and is filed once.
THEOREM RefundsAreReal == Spec => []RefundFilesAreReal
<1>1. ReleaseInv => RefundFilesAreReal
  BY DEF ReleaseInv
<1> QED
  BY <1>1, Release, PTL

-----------------------------------------------------------------------------
(* What the seller is paid *)

\* The charges whose replies were sent, or fell with a crash.
Sent(s) == served[s] + crashes * MaxCharge

\* A session's charges are those sent, plus that of the chat whose turn is not over.
\* No settlement asks for more than was sent when it began: it begins between two turns.
PaidInv ==
    /\ \A s \in Sids : (\A r \in Requests : MidTurn(r) => chat[r].sid # s)
                       => sess[s].charged <= Sent(s)
    /\ \A r \in Requests, s \in Sids : MidTurn(r) /\ chat[r].sid = s =>
           chat[r].charge <= MaxCharge /\ sess[s].charged <= Sent(s) + chat[r].charge
    /\ \A i \in 1..Len(queue) : queue[i].charge <= Sent(queue[i].sid)
    /\ \A j \in orphans : j.charge <= Sent(j.sid)
    /\ \A s \in Sids : settler[s].charge <= Sent(s)
    /\ PaysForRepliesSent

LEMMA SentType ==
    ASSUME TypeOK, NEW u \in Sids
    PROVE  /\ Sent(u) \in Nat /\ served[u] \in Nat /\ crashes \in Nat
           /\ crashes * MaxCharge \in Nat /\ (crashes + 1) * MaxCharge = crashes * MaxCharge + MaxCharge
<1>1. served[u] \in Nat /\ crashes \in Nat /\ MaxCharge \in Nat
  BY PriceAssumption, LimitsAssumption DEF TypeOK
<1>2. crashes * MaxCharge \in Nat /\ (crashes + 1) * MaxCharge = crashes * MaxCharge + MaxCharge
  BY <1>1
<1> QED
  BY <1>1, <1>2 DEF Sent

\* A reply sent adds its charge.
LEMMA SentByDelivery ==
    ASSUME TypeOK, NEW r \in Requests, ChatDeliver(r), NEW u \in Sids
    PROVE  Sent(u)' = IF u = chat[r].sid THEN Sent(u) + chat[r].charge ELSE Sent(u)
<1>1. /\ served' = [served EXCEPT ![chat[r].sid] = @ + chat[r].charge]
      /\ crashes' = crashes /\ chat[r].charge \in Nat
  BY DEF ChatDeliver, TypeOK, Chat, sessVars, fileVars, chainVars
<1>2. served'[u] = IF u = chat[r].sid THEN served[u] + chat[r].charge ELSE served[u]
  BY <1>1 DEF TypeOK
<1> DEFINE lost == crashes * MaxCharge
<1>3. lost \in Nat /\ served[u] \in Nat /\ crashes' * MaxCharge = lost
  BY <1>1, SentType
<1> HIDE DEF lost
<1>4. Sent(u) = served[u] + lost /\ Sent(u)' = served'[u] + lost
  BY <1>3 DEF Sent, lost
<1> QED
  BY <1>1, <1>2, <1>3, <1>4

\* A crash writes one reply off.
LEMMA SentByCrash ==
    ASSUME TypeOK, CrashRestart, NEW u \in Sids
    PROVE  Sent(u)' = Sent(u) + MaxCharge
<1>1. served' = served /\ crashes' = crashes + 1
  BY DEF CrashRestart
<1> DEFINE lost == crashes * MaxCharge
<1>2. lost \in Nat /\ served[u] \in Nat /\ crashes' * MaxCharge = lost + MaxCharge /\ MaxCharge \in Nat
  BY <1>1, SentType, PriceAssumption
<1> HIDE DEF lost
<1>3. Sent(u) = served[u] + lost /\ Sent(u)' = served[u] + (lost + MaxCharge)
  BY <1>1, <1>2 DEF Sent, lost
<1> QED
  BY <1>2, <1>3

\* Nothing else counts.
LEMMA SentFrame ==
    ASSUME TypeOK, [Next]_vars, NEW u \in Sids
    PROVE  \/ Sent(u)' = Sent(u)
           \/ CrashRestart /\ Sent(u)' = Sent(u) + MaxCharge
           \/ \E r \in Requests : /\ ChatDeliver(r)
                                  /\ Sent(u)' = IF u = chat[r].sid THEN Sent(u) + chat[r].charge
                                                                   ELSE Sent(u)
<1> USE DEF sessVars, chatVars, fileVars, binVars, chainVars, history
<1>1. ASSUME NEW r \in Requests, ChatDeliver(r)
      PROVE  Sent(u)' = IF u = chat[r].sid THEN Sent(u) + chat[r].charge ELSE Sent(u)
  BY <1>1, SentByDelivery
<1>2. ASSUME CrashRestart PROVE Sent(u)' = Sent(u) + MaxCharge
  BY <1>2, SentByCrash
<1>3. ASSUME UNCHANGED <<served, crashes>> PROVE Sent(u)' = Sent(u)
  BY <1>3 DEF Sent
<1>4. ASSUME NEW s \in Sids, SessionStep(s) PROVE UNCHANGED <<served, crashes>>
  BY <1>4 DEF SessionStep, StartSession, BuildOk, BuildFail, FundEscrow, EscrowReq, VerifyOk,
              VerifyFail, EndReq, Sweep, SettleLand, SettleOk, SettleEvict, SettleSpent,
              SettleWedged, SettleRetry, SettleFail, JoaoExit
<1>5. ASSUME NEW r \in Requests, ChatStep(r), ~ChatDeliver(r) PROVE UNCHANGED <<served, crashes>>
  BY <1>5 DEF ChatStep, ChatStart, ChatError, ChatRefuse, ChatCharge, ChatCount
<1>6. ASSUME \/ \E b \in Buyers : Register(b)
             \/ \E j \in orphans : OrphanSettles(j) \/ OrphanExits(j)
      PROVE  UNCHANGED <<served, crashes>>
  BY <1>6 DEF Register, OrphanSettles, OrphanExits
<1>7. CASE UNCHANGED vars
  BY <1>3, <1>7 DEF vars
<1> QED
  BY <1>1, <1>2, <1>3, <1>4, <1>5, <1>6, <1>7 DEF Next

LEMMA SentGrows ==
    ASSUME TypeOK, [Next]_vars, NEW u \in Sids
    PROVE  Sent(u) \in Nat /\ Sent(u)' \in Nat /\ Sent(u) <= Sent(u)'
<1>1. Sent(u) \in Nat /\ MaxCharge \in Nat /\ \A r \in Requests : chat[r].charge \in Nat
  BY SentType, PriceAssumption DEF TypeOK, Chat
<1>2. CASE Sent(u)' = Sent(u)
  BY <1>1, <1>2
<1>3. CASE Sent(u)' = Sent(u) + MaxCharge
  BY <1>1, <1>3
<1>4. ASSUME NEW r \in Requests,
             Sent(u)' = IF u = chat[r].sid THEN Sent(u) + chat[r].charge ELSE Sent(u)
      PROVE  Sent(u)' \in Nat /\ Sent(u) <= Sent(u)'
  <2>1. chat[r].charge \in Nat
    BY <1>1
  <2> QED
    BY <1>1, <1>4, <2>1
<1> QED
  BY <1>1, <1>2, <1>3, <1>4, SentFrame

\* The turn of a chat goes on, with the session and the charge it began with.
GoesOn(r) ==
    /\ MidTurn(r) /\ MidTurn(r)'
    /\ chat'[r].sid = chat[r].sid /\ chat'[r].charge = chat[r].charge

\* Only a delivery or a crash ends the turn of a chat, and only a charge begins one.
LEMMA TurnKept ==
    ASSUME TypeOK, [Next]_vars, NEW r \in Requests, ~CrashRestart, ~ChatDeliver(r)
    PROVE  /\ MidTurn(r) => GoesOn(r)
           /\ (MidTurn(r)') => GoesOn(r) \/ \E c \in 0..MaxCharge : ChatCharge(r, c)
<1> USE DEF sessVars, chatVars, fileVars, binVars, chainVars, history
<1>0. chat \in [Requests -> Chat]
  BY DEF TypeOK
<1>1. ASSUME NEW q \in Requests, ChatStep(q), q # r PROVE chat'[r] = chat[r]
  <2>1. PICK x : chat' = [chat EXCEPT ![q] = x]
    BY <1>1 DEF ChatStep, ChatStart, ChatError, ChatRefuse, ChatCharge, ChatCount, ChatDeliver, EndChat
  <2> QED
    BY <1>0, <1>1, <2>1
<1>2. ASSUME ChatStep(r)
      PROVE  \/ GoesOn(r)
             \/ ~MidTurn(r) /\ ((MidTurn(r)') => \E c \in 0..MaxCharge : ChatCharge(r, c))
  <2>1. ASSUME NEW s \in Sids, NEW t \in Tiers, ChatStart(r, s, t)
        PROVE  ~MidTurn(r) /\ ~MidTurn(r)'
    BY <1>0, <2>1 DEF ChatStart
  <2>2. ASSUME ChatError(r) \/ ChatRefuse(r)
        PROVE  ~MidTurn(r) /\ ~MidTurn(r)'
    BY <1>0, <2>2 DEF ChatError, ChatRefuse, EndChat, NoChat
  <2>3. ASSUME NEW c \in 0..MaxCharge, ChatCharge(r, c) PROVE ~MidTurn(r)
    BY <2>3 DEF ChatCharge
  <2>4. ASSUME ChatCount(r) PROVE GoesOn(r)
    BY <1>0, <2>4 DEF ChatCount, GoesOn, Chat
  <2> QED
    BY <1>2, <2>1, <2>2, <2>3, <2>4 DEF ChatStep
<1>3. ASSUME NEW s \in Sids, SessionStep(s) PROVE chat' = chat
  BY <1>3 DEF SessionStep, StartSession, BuildOk, BuildFail, FundEscrow, EscrowReq, VerifyOk,
              VerifyFail, EndReq, Sweep, SettleLand, SettleOk, SettleEvict, SettleSpent,
              SettleWedged, SettleRetry, SettleFail, JoaoExit
<1>4. ASSUME \/ \E b \in Buyers : Register(b)
             \/ \E j \in orphans : OrphanSettles(j) \/ OrphanExits(j)
      PROVE  chat' = chat
  BY <1>4 DEF Register, OrphanSettles, OrphanExits
<1>5. ASSUME UNCHANGED vars PROVE chat' = chat
  BY <1>5 DEF vars
<1>6. CASE chat'[r] = chat[r]
  BY <1>6 DEF GoesOn
<1> QED
  BY <1>1, <1>2, <1>3, <1>4, <1>5, <1>6 DEF Next

\* The charges of a session, and those of the chat in its turn, after a step.
LEMMA StepCharges ==
    ASSUME TypeInv, BillingInv, PaidInv, [Next]_vars
    PROVE  /\ \A s \in Sids : (\A r \in Requests : (MidTurn(r)') => chat'[r].sid # s)
                              => sess'[s].charged <= Sent(s)'
           /\ \A r \in Requests, s \in Sids : MidTurn(r)' /\ chat'[r].sid = s =>
                  chat'[r].charge <= MaxCharge /\ sess'[s].charged <= Sent(s)' + chat'[r].charge
<1> USE DEF sessVars, chatVars, fileVars, binVars, chainVars, history
<1> DEFINE Within ==
        /\ \A s \in Sids : (\A r \in Requests : (MidTurn(r)') => chat'[r].sid # s)
                           => sess'[s].charged <= Sent(s)'
        /\ \A r \in Requests, s \in Sids : MidTurn(r)' /\ chat'[r].sid = s =>
               chat'[r].charge <= MaxCharge /\ sess'[s].charged <= Sent(s)' + chat'[r].charge
<1>0. /\ TypeOK /\ MaxCharge \in Nat
      /\ \A s \in Sids : sess[s].charged \in Nat /\ Sent(s) \in Nat
      /\ \A r \in Requests : chat[r].charge \in Nat
      /\ \A r \in Requests : MidTurn(r) => chat[r].sid \in Sids
  BY SentType, PriceAssumption DEF TypeInv, TypeOK, Session, Chat, BillingInv, OneChatAtATime
<1>1. CASE CrashRestart
  <2>1. \A r \in Requests : chat'[r].phase = "idle"
    BY <1>1 DEF CrashRestart, NoChat
  <2>2. ASSUME NEW s \in Sids PROVE sess'[s].charged <= Sent(s)'
    <3>1. sess'[s].charged = sess[s].charged
      BY <1>1 DEF CrashRestart, Reload, BillingInv, SnapshotIsCurrent
    <3>2. Sent(s)' = Sent(s) + MaxCharge
      BY <1>0, <1>1, SentByCrash
    <3>3. CASE \A r \in Requests : MidTurn(r) => chat[r].sid # s
      BY <1>0, <3>1, <3>2, <3>3 DEF PaidInv
    <3>4. ASSUME NEW r \in Requests, MidTurn(r), chat[r].sid = s
          PROVE  sess'[s].charged <= Sent(s)'
      BY <1>0, <3>1, <3>2, <3>4 DEF PaidInv
    <3> QED
      BY <3>3, <3>4
  <2> QED
    BY <2>1, <2>2
<1>2. ASSUME NEW r \in Requests, ChatDeliver(r) PROVE Within
  <2>1. MidTurn(r) /\ sess' = sess
    BY <1>2 DEF ChatDeliver
  <2>2. \A q \in Requests \ {r} : chat[q].phase = "idle"
    BY <2>1 DEF BillingInv, OneChatAtATime
  <2>3. \A q \in Requests : chat'[q].phase = "idle"
    BY <1>0, <1>2, <2>2 DEF ChatDeliver, EndChat, NoChat, TypeOK
  <2>4. \A s \in Sids :
            Sent(s)' = IF s = chat[r].sid THEN Sent(s) + chat[r].charge ELSE Sent(s)
    BY <1>0, <1>2, SentByDelivery
  <2>5. ASSUME NEW s \in Sids PROVE sess'[s].charged <= Sent(s)'
    <3>1. CASE s = chat[r].sid
      BY <1>0, <2>1, <2>4, <3>1 DEF PaidInv
    <3>2. CASE s # chat[r].sid
      <4>1. \A q \in Requests : MidTurn(q) => chat[q].sid # s
        BY <2>2, <3>2
      <4> QED
        BY <2>1, <2>4, <3>2, <4>1 DEF PaidInv
    <3> QED
      BY <3>1, <3>2
  <2> QED
    BY <2>3, <2>5
<1>3. ASSUME NEW r \in Requests, NEW c \in 0..MaxCharge, ChatCharge(r, c) PROVE Within
  <2>1. /\ \A q \in Requests : ~MidTurn(q)
        /\ chat[r].phase = "answering" /\ chat[r].sid \in Sids
    BY <1>3 DEF ChatCharge, InTurn, BillingInv, OneChatAtATime
  <2>2. /\ MidTurn(r)' /\ chat'[r].sid = chat[r].sid /\ chat'[r].charge = c
        /\ \A q \in Requests \ {r} : chat'[q] = chat[q]
    <3>1. chat \in [Requests -> Chat]
      BY <1>0 DEF TypeOK
    <3> QED
      BY <1>3, <3>1 DEF ChatCharge, Chat
  <2>3. \A s \in Sids : Sent(s)' = Sent(s) /\ sess[s].charged <= Sent(s)
    BY <1>3, <2>1 DEF ChatCharge, Sent, PaidInv
  <2>4. \A s \in Sids : sess'[s].charged =
                          IF s = chat[r].sid THEN sess[s].charged + c ELSE sess[s].charged
    BY <1>3, ChargeStep DEF TypeInv, BillingInv
  <2>5. c \in Nat /\ c <= MaxCharge
    BY <1>0
  <2>6. \A s \in Sids : sess'[s].charged <= Sent(s)' + c
    BY <1>0, <2>3, <2>4, <2>5
  <2>7. \A q \in Requests : (MidTurn(q)') => q = r
    BY <2>1, <2>2
  <2>8. ASSUME NEW s \in Sids, \A q \in Requests : (MidTurn(q)') => chat'[q].sid # s
        PROVE  sess'[s].charged <= Sent(s)'
    BY <2>2, <2>3, <2>4, <2>8
  <2> QED
    BY <2>2, <2>5, <2>6, <2>7, <2>8
<1>4. ASSUME ~CrashRestart, ~\E r \in Requests : ChatDeliver(r),
             ~\E r \in Requests, c \in 0..MaxCharge : ChatCharge(r, c)
      PROVE  Within
  <2>1. \A r \in Requests : /\ MidTurn(r) => GoesOn(r)
                            /\ (MidTurn(r)') => GoesOn(r)
    BY <1>0, <1>4, TurnKept
  <2>2. \A s \in Sids : sess'[s].charged = sess[s].charged /\ Sent(s)' = Sent(s)
    BY <1>0, <1>4, ChargedFrame, SentFrame DEF BillingInv
  <2>3. ASSUME NEW s \in Sids, \A r \in Requests : (MidTurn(r)') => chat'[r].sid # s
        PROVE  sess'[s].charged <= Sent(s)'
    <3>1. \A r \in Requests : MidTurn(r) => chat[r].sid # s
      BY <2>1, <2>3 DEF GoesOn
    <3> QED
      BY <2>2, <3>1 DEF PaidInv
  <2>4. ASSUME NEW r \in Requests, NEW s \in Sids, MidTurn(r)', chat'[r].sid = s
        PROVE  chat'[r].charge <= MaxCharge /\ sess'[s].charged <= Sent(s)' + chat'[r].charge
    BY <2>1, <2>2, <2>4 DEF PaidInv, GoesOn
  <2> QED
    BY <2>3, <2>4
<1> QED
  BY <1>1, <1>2, <1>3, <1>4

\* A settlement asks for no more than was sent.
LEMMA AskedWithinSent ==
    ASSUME TypeInv, PaidInv, NEW s \in Sids, NEW c, Asked(s, c)
    PROVE  c \in Nat /\ c <= Sent(s)
<1>1. Sent(s) \in Nat /\ sess[s].charged \in Nat /\ settler[s].charge \in Nat
  BY SentType DEF TypeInv, TypeOK, Session, Settler
<1>2. ~InTurn => sess[s].charged <= Sent(s)
  BY DEF InTurn, PaidInv
<1>3. settler[s].charge <= Sent(s)
  BY DEF PaidInv
<1> QED
  BY <1>1, <1>2, <1>3 DEF Asked

LEMMA PaidFrame ==
    ASSUME TypeInv, [Next]_vars, NEW u \in Sids
    PROVE  \/ paid'[u] = paid[u]
           \/ queue # <<>> /\ 1 \in 1..Len(queue) /\ queue[1].sid = u /\ paid'[u] = queue[1].charge
           \/ \E j \in orphans : j.sid = u /\ paid'[u] = j.charge
<1>1. ASSUME NEW s \in Sids, NEW c, Consume(s, c)
      PROVE  paid'[u] = paid[u] \/ (s = u /\ paid'[u] = c)
  BY <1>1 DEF Consume, TypeInv, TypeOK
<1>2. ASSUME NEW s \in Sids, SettleLand(s)
      PROVE  \/ paid'[u] = paid[u]
             \/ queue # <<>> /\ 1 \in 1..Len(queue) /\ queue[1].sid = u /\ paid'[u] = queue[1].charge
  <2>1. queue # <<>> /\ Head(queue).sid = s /\ Consume(s, Head(queue).charge)
    BY <1>2 DEF SettleLand, Running
  <2>2. 1 \in 1..Len(queue) /\ Head(queue) = queue[1]
    BY <2>1 DEF TypeInv, TypeOK
  <2> QED
    BY <1>1, <2>1, <2>2
<1>3. ASSUME NEW j \in orphans, OrphanSettles(j)
      PROVE  paid'[u] = paid[u] \/ (j.sid = u /\ paid'[u] = j.charge)
  <2>1. j.sid \in Sids
    BY DEF TypeInv, TypeOK, Job
  <2> QED
    BY <1>1, <1>3, <2>1 DEF OrphanSettles
<1>4. ASSUME NEW s \in Sids, \/ FundEscrow(s)
                             \/ \E b \in Buyers, t \in Tiers, bal \in Balances : StartSession(s, b, t, bal)
      PROVE  paid' = paid
  BY <1>4 DEF FundEscrow, StartSession, chainVars
<1>5. ASSUME ~\E s \in Sids, b \in Buyers, t \in Tiers, bal \in Balances : StartSession(s, b, t, bal),
             ~\E s \in Sids : FundEscrow(s) \/ SettleLand(s),
             ~\E j \in orphans : OrphanSettles(j)
      PROVE  paid' = paid
  BY <1>5, LedgerFrame DEF TypeInv
<1> QED
  BY <1>2, <1>3, <1>4, <1>5

LEMMA StepPaid == TypeInv /\ BillingInv /\ PaidInv /\ [Next]_vars => PaidInv'
<1> SUFFICES ASSUME TypeInv, BillingInv, PaidInv, [Next]_vars PROVE PaidInv'
  OBVIOUS
<1> DEFINE f == [s \in Sids |-> Sent(s)]
<1>1. ASSUME NEW s \in Sids, NEW c \in Nat, c <= Sent(s) PROVE c <= Sent(s)'
  BY <1>1, SentGrows DEF TypeInv
<1>2. queue \in Seq(Job) /\ \A j \in Job : j.sid \in Sids /\ j.charge \in Nat
  BY DEF TypeInv, TypeOK, Job
<1>3. \A i \in 1..Len(queue) : queue[i] \in Job /\ queue[i].charge <= Sent(queue[i].sid)
  BY <1>2 DEF PaidInv
<1>4. \A j \in orphans : j \in Job /\ j.charge <= Sent(j.sid)
  BY DEF PaidInv, TypeInv, TypeOK
<1>5. \A i \in 1..Len(queue') : queue'[i] \in Job /\ queue'[i].charge <= Sent(queue'[i].sid)
  <2>1. \A i \in 1..Len(queue) : queue[i].charge <= f[queue[i].sid]
    BY <1>2, <1>3
  <2>2. \A j \in Job : Asks(j) => j.charge <= f[j.sid]
    BY <1>2, AskedWithinSent DEF Asks
  <2>3. \A i \in 1..Len(queue') : queue'[i] \in Job /\ queue'[i].charge <= f[queue'[i].sid]
    <3> HIDE DEF f
    <3> QED
      BY <1>2, <2>1, <2>2, QueueStep, JobsUnder
  <2> QED
    BY <1>2, <2>3
<1>6. \A j \in orphans' : j \in Job /\ j.charge <= Sent(j.sid)
  BY <1>3, <1>4, OrphansStep
<1>7. ASSUME NEW u \in Sids PROVE settler'[u].charge <= Sent(u)'
  BY <1>1, SettlerStep, AskedWithinSent
<1>8. ASSUME NEW u \in Sids PROVE paid'[u] <= Sent(u)'
  <2>1. paid[u] \in Nat /\ paid[u] <= Sent(u)
    BY DEF TypeInv, TypeOK, PaidInv, PaysForRepliesSent, Sent
  <2>2. paid'[u] \in Nat /\ paid'[u] <= Sent(u)
    BY <1>2, <1>3, <1>4, <2>1, PaidFrame
  <2> QED
    BY <1>1, <2>2
<1>9. \A s \in Sids, j \in Job : j.sid = s /\ j.charge <= Sent(s) => j.charge <= Sent(s)'
  BY <1>1, <1>2
<1> QED
  BY <1>2, <1>5, <1>6, <1>7, <1>8, <1>9, StepCharges DEF PaidInv, PaysForRepliesSent, Sent

\* The seller is paid for replies that were sent, and for at most one more, lost between
\* its charge and its delivery, for every time the bridge died.
THEOREM SellerPaidForReplies == Spec => []PaysForRepliesSent
<1>1. Init => PaidInv
  <2>1. Init => \A s \in Sids : Sent(s) \in Nat
    BY InitType, SentType
  <2> QED
    BY <2>1 DEF Init, PaidInv, PaysForRepliesSent, NewSession, NoChat, NoSettler, Sent
<1>2. TypeInv /\ BillingInv /\ PaidInv /\ [Next]_vars => PaidInv'
  BY StepPaid
<1>3. PaidInv => PaysForRepliesSent
  BY DEF PaidInv
<1> QED
  BY <1>1, <1>2, <1>3, Billing, PTL DEF Spec

-----------------------------------------------------------------------------
(* The anonymous cap *)

\* The spend of the chat in flight is not in users.json yet.
Uncounted(r) == chat[r].phase \in {"answering", "charged"}

\* The chat in flight was let in while its buyer, if still anonymous, was under the cap.
CapInv ==
    /\ \A r \in Requests, b \in Buyers :
           Uncounted(r) /\ order[chat[r].sid].buyer = b /\ ~HasAccount(b)
           => users[b].spent < AnonCap
    /\ \A r \in Requests : MidTurn(r) => chat[r].charge <= MaxCharge
    /\ AnonOverrunIsOneReply

\* An account is never lost, and spend is recorded by recordSpend only.
LEMMA UsersFrame ==
    ASSUME TypeOK, [Next]_vars, NEW b \in Buyers
    PROVE  \/ users'[b] = users[b]
           \/ users'[b].acct
           \/ \E r \in Requests : /\ ChatCount(r) /\ order[chat[r].sid].buyer = b
                                  /\ users'[b].acct = users[b].acct
                                  /\ users'[b].spent = users[b].spent + chat[r].charge
<1> USE DEF sessVars, chatVars, fileVars, binVars, chainVars, history
<1>0. users \in [Buyers -> [acct : BOOLEAN, spent : Nat]] /\ users[b] \in [acct : BOOLEAN, spent : Nat]
  BY DEF TypeOK
<1>1. ASSUME NEW a \in Buyers, Register(a) PROVE users'[b] = users[b] \/ users'[b].acct
  BY <1>0, <1>1 DEF Register
<1>2. ASSUME NEW r \in Requests, ChatCount(r)
      PROVE  \/ users'[b] = users[b]
             \/ /\ order[chat[r].sid].buyer = b
                /\ users'[b].acct = users[b].acct
                /\ users'[b].spent = users[b].spent + chat[r].charge
  BY <1>0, <1>2 DEF ChatCount
<1>3. ASSUME NEW r \in Requests, ChatStep(r), ~ChatCount(r) PROVE users' = users
  BY <1>3 DEF ChatStep, ChatStart, ChatError, ChatRefuse, ChatCharge, ChatDeliver
<1>4. ASSUME NEW s \in Sids, SessionStep(s) PROVE users' = users
  BY <1>4 DEF SessionStep, StartSession, BuildOk, BuildFail, FundEscrow, EscrowReq, VerifyOk,
              VerifyFail, EndReq, Sweep, SettleLand, SettleOk, SettleEvict, SettleSpent,
              SettleWedged, SettleRetry, SettleFail, JoaoExit
<1>5. ASSUME CrashRestart \/ \E j \in orphans : OrphanSettles(j) \/ OrphanExits(j)
      PROVE  users' = users
  BY <1>5 DEF CrashRestart, OrphanSettles, OrphanExits
<1>6. CASE UNCHANGED vars
  BY <1>6 DEF vars
<1> QED
  BY <1>1, <1>2, <1>3, <1>4, <1>5, <1>6 DEF Next

LEMMA StepCap == TypeInv /\ BillingInv /\ CapInv /\ [Next]_vars => CapInv'
<1> SUFFICES ASSUME TypeInv, BillingInv, CapInv, [Next]_vars PROVE CapInv'
  OBVIOUS
<1> USE DEF HasAccount, Uncounted
<1>0. /\ TypeOK /\ AnonCap \in Nat /\ MaxCharge \in Nat
      /\ \A r \in Requests : chat[r] \in Chat
      /\ \A b \in Buyers : users[b] \in [acct : BOOLEAN, spent : Nat]
  BY LimitsAssumption, PriceAssumption DEF TypeInv, TypeOK
<1>1. \A r \in Requests : chat[r].phase # "idle" =>
          chat[r].sid \in Sids /\ order'[chat[r].sid] = order[chat[r].sid]
  <2> SUFFICES ASSUME NEW r \in Requests, chat[r].phase # "idle"
               PROVE  chat[r].sid \in Sids /\ order'[chat[r].sid] = order[chat[r].sid]
    OBVIOUS
  <2>1. chat[r].sid \in Sids /\ note[chat[r].sid] # "absent"
    BY DEF BillingInv, OneChatAtATime
  <2>2. ASSUME NEW s \in Sids, NEW b \in Buyers, NEW t \in Tiers, NEW bal \in Balances,
               StartSession(s, b, t, bal)
        PROVE  order'[chat[r].sid] = order[chat[r].sid]
    <3>1. s # chat[r].sid
      BY <2>1, <2>2 DEF StartSession, BillingInv, FreshIsNew
    <3> QED
      BY <1>0, <2>1, <2>2, <3>1 DEF StartSession, TypeOK
  <2>3. ASSUME ~\E s \in Sids, b \in Buyers, t \in Tiers, bal \in Balances : StartSession(s, b, t, bal)
        PROVE  order' = order
    <3>1. ASSUME NEW s \in Sids, FundEscrow(s) \/ SettleLand(s) PROVE order' = order
      BY <3>1 DEF FundEscrow, SettleLand, sessVars
    <3>2. ASSUME NEW j \in orphans, OrphanSettles(j) PROVE order' = order
      BY <3>2 DEF OrphanSettles, sessVars
    <3> QED
      BY <1>0, <2>3, <3>1, <3>2, LedgerFrame
  <2> QED
    BY <2>1, <2>2, <2>3
\* a chat in flight keeps its session, and was in flight or was let in just now
<1>2. ASSUME NEW r \in Requests, Uncounted(r)'
      PROVE  \/ Uncounted(r) /\ chat'[r].sid = chat[r].sid
             \/ \E s \in Sids, t \in Tiers : ChatStart(r, s, t) /\ chat'[r].sid = s
  <2>1. ASSUME NEW s \in Sids, NEW t \in Tiers, ChatStart(r, s, t) PROVE chat'[r].sid = s
    BY <1>0, <2>1 DEF ChatStart, TypeOK
  <2>2. ASSUME NEW c \in 0..MaxCharge, ChatCharge(r, c)
        PROVE  Uncounted(r) /\ chat'[r].sid = chat[r].sid
    BY <1>0, <2>2 DEF ChatCharge, Chat, TypeOK
  <2>3. ASSUME chat'[r] = [chat[r] EXCEPT !.phase = "counted"] PROVE FALSE
    BY <1>0, <1>2, <2>3 DEF Chat
  <2> QED
    BY <1>0, <1>2, <2>1, <2>2, <2>3, ChatFrame
<1>3. ASSUME NEW r \in Requests, NEW b \in Buyers, Uncounted(r)',
             order'[chat'[r].sid].buyer = b, ~users'[b].acct
      PROVE  users'[b].spent < AnonCap
  <2>1. ASSUME NEW s \in Sids, NEW t \in Tiers, ChatStart(r, s, t), chat'[r].sid = s
        PROVE  users'[b].spent < AnonCap
    BY <1>3, <2>1 DEF ChatStart, UnderAnonCap, sessVars, fileVars
  <2>2. ASSUME Uncounted(r), chat'[r].sid = chat[r].sid PROVE users'[b].spent < AnonCap
    <3>1. order[chat[r].sid].buyer = b
      BY <1>1, <1>3, <2>2
    <3>2. CASE users'[b] = users[b]
      BY <1>3, <2>2, <3>1, <3>2 DEF CapInv
    <3>3. ASSUME NEW q \in Requests, ChatCount(q) PROVE FALSE
      <4>1. q = r
        BY <2>2, <3>3 DEF ChatCount, BillingInv, OneChatAtATime
      <4> QED
        BY <1>0, <1>3, <3>3, <4>1 DEF ChatCount, TypeOK
    <3> QED
      BY <1>0, <1>3, <3>2, <3>3, UsersFrame
  <2> QED
    BY <1>2, <1>3, <2>1, <2>2
<1>4. ASSUME NEW r \in Requests, MidTurn(r)' PROVE chat'[r].charge <= MaxCharge
  <2>1. ASSUME NEW c \in 0..MaxCharge, ChatCharge(r, c) PROVE chat'[r].charge <= MaxCharge
    <3>1. chat'[r].charge = c
      BY <1>0, <2>1 DEF ChatCharge, Chat, TypeOK
    <3> QED
      BY <1>0, <3>1
  <2>2. ASSUME NEW s \in Sids, NEW t \in Tiers, ChatStart(r, s, t) PROVE FALSE
    BY <1>0, <1>4, <2>2 DEF ChatStart, TypeOK
  <2>3. ASSUME MidTurn(r), chat'[r] = [chat[r] EXCEPT !.phase = "counted"]
        PROVE  chat'[r].charge <= MaxCharge
    BY <1>0, <2>3 DEF CapInv, Chat
  <2> QED
    BY <1>0, <1>4, <2>1, <2>2, <2>3, ChatFrame DEF CapInv
<1>5. ASSUME NEW b \in Buyers, ~users'[b].acct PROVE users'[b].spent < AnonCap + MaxCharge
  <2>1. CASE users'[b] = users[b]
    BY <1>5, <2>1 DEF CapInv, AnonOverrunIsOneReply
  <2>2. ASSUME NEW r \in Requests, ChatCount(r), order[chat[r].sid].buyer = b,
               users'[b].acct = users[b].acct,
               users'[b].spent = users[b].spent + chat[r].charge
        PROVE  users'[b].spent < AnonCap + MaxCharge
    <3>1. MidTurn(r) /\ users[b].spent < AnonCap /\ chat[r].charge <= MaxCharge
      BY <1>5, <2>2 DEF ChatCount, CapInv
    <3>2. chat[r].charge \in Nat /\ users[b].spent \in Nat
      BY <1>0 DEF Chat
    <3> QED
      BY <1>0, <2>2, <3>1, <3>2
  <2> QED
    BY <1>0, <1>5, <2>1, <2>2, UsersFrame
<1> QED
  BY <1>3, <1>4, <1>5 DEF CapInv, AnonOverrunIsOneReply

\* However many sessions and chats an anonymous buyer has, its spend passes the cap by
\* less than one reply.
THEOREM AnonOverrun == Spec => []AnonOverrunIsOneReply
<1>1. Init => CapInv
  BY LimitsAssumption, PriceAssumption DEF Init, CapInv, Uncounted, AnonOverrunIsOneReply, NoChat
<1>2. TypeInv /\ BillingInv /\ CapInv /\ [Next]_vars => CapInv'
  BY StepCap
<1>3. CapInv => AnonOverrunIsOneReply
  BY DEF CapInv
<1> QED
  BY <1>1, <1>2, <1>3, Billing, PTL DEF Spec

=============================================================================
