------------------------ MODULE BartokCredits_proofs ------------------------
(***************************************************************************)
(* Theorems about BartokCredits, for every set of wallets and slots, every  *)
(* length of the ladder and every bound.                                    *)
(***************************************************************************)
EXTENDS BartokCredits, TLAPS

-----------------------------------------------------------------------------
(* The queue and the requests in it *)

\* A request that has a buyer is one in progress, well typed.
LEMMA RequestType ==
    ASSUME TypeOK, NEW s \in Slots
    PROVE  /\ request[s] # NoRequest => request[s] \in Redemption
           /\ request[s].buyer \in Buyers => request[s] # NoRequest
           /\ request[s].code \in Codes
BY CreditsAssumption DEF TypeOK, Redemption, NoRequest, Codes

\* The running binary belongs to a request in progress.
LEMMA HeadType ==
    ASSUME TypeOK, QueueInv, queue # <<>>
    PROVE  /\ Head(queue) \in Slots
           /\ Head(queue) = queue[1]
           /\ 1 \in DOMAIN queue
           /\ request[Head(queue)] \in Redemption
           /\ request[Head(queue)].buyer \in Buyers
           /\ request[Head(queue)].code \in Codes
           /\ request[Head(queue)].object \in Slots
<1>1. queue \in Seq(Slots)
  BY DEF TypeOK
<1>2. Head(queue) \in Slots /\ Head(queue) = queue[1] /\ 1 \in DOMAIN queue
  BY <1>1
<1>3. request[Head(queue)] # NoRequest
  BY <1>2 DEF QueueInv
<1>4. request[Head(queue)] \in Redemption
  BY <1>2, <1>3, RequestType
<1> QED
  BY <1>2, <1>4 DEF Redemption

\* Answering the head keeps the queue well formed.
LEMMA AnsweredQueue ==
    ASSUME TypeOK, QueueInv, queue # <<>>, Answered(Head(queue))
    PROVE  /\ QueueInv'
           /\ queue' \in Seq(Slots)
           /\ request' \in [Slots -> Redemption \union {NoRequest}]
           /\ landed' = FALSE
<1>1. /\ queue \in Seq(Slots) /\ queue' = Tail(queue) /\ landed' = FALSE
      /\ request' = [request EXCEPT ![Head(queue)] = NoRequest]
      /\ request \in [Slots -> Redemption \union {NoRequest}]
  BY DEF TypeOK, Answered
<1>2. /\ queue' \in Seq(Slots)
      /\ \A i \in DOMAIN queue' : i + 1 \in DOMAIN queue /\ i + 1 # 1 /\ queue'[i] = queue[i + 1]
      /\ DOMAIN queue' \subseteq Int
  BY <1>1
<1>3. ASSUME NEW i \in DOMAIN queue' PROVE request'[queue'[i]] # NoRequest
  <2>1. queue[i + 1] # Head(queue)
    BY <1>2, HeadType DEF QueueInv
  <2>2. queue[i + 1] \in Slots /\ request[queue[i + 1]] # NoRequest
    BY <1>1, <1>2 DEF QueueInv
  <2> QED
    BY <1>1, <1>2, <2>1, <2>2
<1>4. ASSUME NEW i \in DOMAIN queue', NEW j \in DOMAIN queue', queue'[i] = queue'[j] PROVE i = j
  <2>1. i + 1 = j + 1
    BY <1>2, <1>4 DEF QueueInv
  <2> QED
    BY <1>2, <2>1
<1> QED
  BY <1>1, <1>2, <1>3, <1>4 DEF QueueInv

-----------------------------------------------------------------------------
(* Type correctness and the queue *)

LEMMA InitTyping == Init => TypeOK /\ QueueInv
<1> SUFFICES ASSUME Init PROVE TypeOK /\ QueueInv
  OBVIOUS
<1>1. minted \in [Buyers -> [Codes -> Nat]]
  <2>1. \A b \in Buyers, c \in Codes : (IF c = Plain /\ legacy[b] THEN 1 ELSE 0) \in Nat
    OBVIOUS
  <2> QED
    BY <2>1 DEF Init
<1>2. TypeOK
  <2>1. queue \in Seq(Slots) /\ request \in [Slots -> Redemption \union {NoRequest}]
    BY DEF Init
  <2>2. heap \in [Buyers -> [Slots -> SUBSET Codes]] /\ codes \in [Buyers -> Slots \union {None}]
    BY DEF Init
  <2>3. /\ legacy \in [Buyers -> BOOLEAN]
        /\ disk \in [Buyers -> [has : BOOLEAN, codes : SUBSET Codes, legacy : BOOLEAN]]
    BY DEF Init
  <2>4. redeems \in 0..MaxRedeems /\ crashes \in 0..MaxCrashes
    BY CreditsAssumption DEF Init
  <2> QED
    BY <1>1, <2>1, <2>2, <2>3, <2>4 DEF Init, TypeOK
<1>3. QueueInv
  BY DEF Init, QueueInv
<1> QED
  BY <1>2, <1>3

\* A code that passes the pattern is one of the codes.
LEMMA ClaimedType ==
    ASSUME TypeOK, NEW b \in Buyers
    PROVE  Claimed(b) \in SUBSET Codes
BY DEF TypeOK, Claimed, Migrated, Codes

LEMMA RedeemTyping ==
    ASSUME TypeOK, QueueInv, NEW s \in Slots, NEW b \in Buyers, NEW c \in ValidCodes,
           Redeem(s, b, c)
    PROVE  TypeOK' /\ QueueInv'
<1> DEFINE o == IF codes[b] = None THEN s ELSE codes[b]
           q == [buyer |-> b, code |-> c, object |-> o]
<1>1. o \in Slots /\ q \in Redemption /\ c \in Codes
  BY DEF TypeOK, Redemption, ValidCodes, Codes
<1>2. request' = [request EXCEPT ![s] = q] /\ request[s] = NoRequest
  BY DEF Redeem
<1>3. queue' = Append(queue, s)
  BY DEF Redeem
<1>4. request' \in [Slots -> Redemption \union {NoRequest}]
  BY <1>1, <1>2 DEF TypeOK
<1>5. heap' \in [Buyers -> [Slots -> SUBSET Codes]]
  BY <1>1, ClaimedType DEF Redeem, Checks, TypeOK
<1>6. risky' \subseteq Buyers /\ redeems' \in 0..MaxRedeems
  BY CreditsAssumption DEF Redeem, TypeOK
<1>7. TypeOK'
  BY <1>3, <1>4, <1>5, <1>6 DEF Redeem, TypeOK
<1>8. q # NoRequest
  BY <1>1, CreditsAssumption DEF Redemption, NoRequest
<1>9. QueueInv'
  <2>1. queue \in Seq(Slots) /\ request \in [Slots -> Redemption \union {NoRequest}]
    BY DEF TypeOK
  <2>2. \A i \in DOMAIN queue' :
            \/ i \in DOMAIN queue /\ queue'[i] = queue[i]
            \/ i = Len(queue) + 1 /\ queue'[i] = s
    <3>1. DOMAIN queue' = 1..(Len(queue) + 1) /\ DOMAIN queue = 1..Len(queue) /\ Len(queue) \in Nat
      BY <1>3, <2>1
    <3>2. \A i \in DOMAIN queue' : i <= Len(queue) => queue'[i] = queue[i]
      BY <1>3, <2>1
    <3>3. queue'[Len(queue) + 1] = s
      BY <1>3, <2>1
    <3> QED
      BY <3>1, <3>2, <3>3
  <2>3. \A i \in DOMAIN queue : queue[i] # s /\ queue[i] \in Slots
    BY <1>2, <2>1 DEF QueueInv
  <2>4. \A i \in DOMAIN queue' : request'[queue'[i]] # NoRequest
    BY <1>2, <1>8, <2>1, <2>2, <2>3 DEF QueueInv
  <2>5. \A i, j \in DOMAIN queue' : queue'[i] = queue'[j] => i = j
    BY <2>2, <2>3 DEF QueueInv
  <2>6. queue' # <<>>
    BY <1>3, <2>1
  <2> QED
    BY <2>4, <2>5, <2>6 DEF QueueInv
<1> QED
  BY <1>7, <1>9

LEMMA MintLandsTyping ==
    ASSUME TypeOK, QueueInv, MintLands
    PROVE  TypeOK' /\ QueueInv'
<1> DEFINE q == request[Head(queue)]
<1>1. q.buyer \in Buyers /\ q.code \in Codes
  BY HeadType DEF MintLands
<1>2. minted' = [minted EXCEPT ![q.buyer][q.code] = @ + 1]
  BY DEF MintLands
<1>3. [minted[q.buyer] EXCEPT ![q.code] = @ + 1] \in [Codes -> Nat]
  BY <1>1 DEF TypeOK
<1>4. minted' \in [Buyers -> [Codes -> Nat]]
  BY <1>2, <1>3 DEF TypeOK
<1> QED
  BY <1>4 DEF MintLands, TypeOK, QueueInv, memory

LEMMA MintOkTyping ==
    ASSUME TypeOK, QueueInv, MintOk
    PROVE  TypeOK' /\ QueueInv'
<1> DEFINE q == request[Head(queue)]
<1>1. /\ q.buyer \in Buyers /\ q.code \in Codes /\ q.object \in Slots
      /\ Answered(Head(queue))
  BY HeadType DEF MintOk
<1>2. heap' \in [Buyers -> [Slots -> SUBSET Codes]]
  BY <1>1 DEF MintOk, TypeOK
<1>3. codes' \in [Buyers -> Slots \union {None}] /\ legacy' \in [Buyers -> BOOLEAN]
  BY <1>1 DEF MintOk, TypeOK
<1>4. ASSUME NEW b \in Buyers
      PROVE  /\ (codes'[b] # None) \in BOOLEAN
             /\ (IF codes'[b] = None THEN {} ELSE heap'[b][codes'[b]]) \in SUBSET Codes
             /\ legacy'[b] \in BOOLEAN
  BY <1>2, <1>3
<1>5. disk' \in [Buyers -> [has : BOOLEAN, codes : SUBSET Codes, legacy : BOOLEAN]]
  BY <1>4 DEF MintOk, SaveUsers
<1> QED
  BY <1>1, <1>2, <1>3, <1>5, AnsweredQueue DEF MintOk, TypeOK

LEMMA MintFailsTyping ==
    ASSUME TypeOK, QueueInv, MintFails
    PROVE  TypeOK' /\ QueueInv'
<1>1. request[Head(queue)].buyer \in Buyers /\ Answered(Head(queue))
  BY HeadType DEF MintFails
<1> QED
  BY <1>1, AnsweredQueue DEF MintFails, TypeOK, memory

LEMMA CrashTyping ==
    ASSUME TypeOK, QueueInv, CrashRestart
    PROVE  TypeOK' /\ QueueInv'
<1>1. \A b \in Buyers : /\ disk[b].has \in BOOLEAN
                        /\ disk[b].codes \in SUBSET Codes
                        /\ disk[b].legacy \in BOOLEAN
  BY DEF TypeOK
<1>2. heap' \in [Buyers -> [Slots -> SUBSET Codes]]
  <2>1. \A b \in Buyers : \A o \in Slots :
            (IF disk[b].has /\ o = codes[b] THEN disk[b].codes ELSE {}) \in SUBSET Codes
    BY <1>1
  <2> QED
    BY <2>1 DEF CrashRestart
<1>3. codes' \in [Buyers -> Slots \union {None}] /\ legacy' \in [Buyers -> BOOLEAN]
  BY <1>1 DEF CrashRestart, TypeOK
<1>4. /\ risky' \subseteq Buyers
      /\ orphans' \subseteq [buyer : Buyers, code : Codes, crash : Nat]
  <2>1. CASE queue = <<>>
    BY <2>1 DEF CrashRestart, TypeOK
  <2>2. CASE queue # <<>>
    BY <2>2, HeadType DEF CrashRestart, TypeOK
  <2> QED
    BY <2>1, <2>2
<1>5. crashes' \in 0..MaxCrashes
  BY CreditsAssumption DEF CrashRestart, TypeOK
<1>6. /\ request' \in [Slots -> Redemption \union {NoRequest}]
      /\ queue' = <<>> /\ queue' \in Seq(Slots)
      /\ landed' = FALSE
      /\ UNCHANGED <<disk, minted, redeems>>
  BY DEF CrashRestart
<1>7. TypeOK'
  BY <1>2, <1>3, <1>4, <1>5, <1>6 DEF TypeOK
<1> QED
  BY <1>6, <1>7 DEF QueueInv

LEMMA OrphanTyping ==
    ASSUME TypeOK, QueueInv, NEW j \in orphans, OrphanExits(j)
    PROVE  TypeOK' /\ QueueInv'
<1>1. j.buyer \in Buyers /\ j.code \in Codes
  BY DEF TypeOK
<1>2. minted' \in [Buyers -> [Codes -> Nat]]
  <2>1. CASE UNCHANGED minted
    BY <2>1 DEF TypeOK
  <2>2. CASE minted' = [minted EXCEPT ![j.buyer][j.code] = @ + 1]
    <3>1. [minted[j.buyer] EXCEPT ![j.code] = @ + 1] \in [Codes -> Nat]
      BY <1>1 DEF TypeOK
    <3> QED
      BY <2>2, <3>1 DEF TypeOK
  <2> QED
    BY <2>1, <2>2 DEF OrphanExits
<1> QED
  BY <1>2 DEF OrphanExits, TypeOK, QueueInv, memory

LEMMA StepTyping ==
    ASSUME TypeOK, QueueInv, [Next]_vars
    PROVE  TypeOK' /\ QueueInv'
<1>1. CASE UNCHANGED vars
  BY <1>1 DEF vars, memory, TypeOK, QueueInv
<1>2. CASE Next
  BY <1>2, RedeemTyping, MintLandsTyping, MintOkTyping, MintFailsTyping, CrashTyping, OrphanTyping
     DEF Next
<1> QED
  BY <1>1, <1>2

\* Every reachable state is well typed.
THEOREM CreditsTyping == Spec => []TypeOK
<1>1. TypeOK /\ QueueInv /\ [Next]_vars => (TypeOK /\ QueueInv)'
  BY StepTyping
<1> QED
  BY InitTyping, <1>1, PTL DEF Spec

-----------------------------------------------------------------------------
(* The invariant of the claims *)

LEMMA InitClaims == Init => CreditsInv
<1> SUFFICES ASSUME Init PROVE CreditsInv
  OBVIOUS
<1>1. QueueInv
  BY InitTyping
<1>2. /\ \A b \in Buyers : codes[b] = None
      /\ \A b \in Buyers, o \in Slots : heap[b][o] = {}
      /\ \A b \in Buyers : disk[b].has = FALSE /\ disk[b].legacy = legacy[b]
      /\ \A s \in Slots : request[s].buyer = None
      /\ legacy \in [Buyers -> BOOLEAN]
      /\ ~landed /\ orphans = {}
  BY DEF Init, NoRequest
<1>3. \A b \in Buyers : Busy(b) = {}
  BY <1>2, CreditsAssumption DEF Busy
<1>4. \A b \in Buyers, c \in Codes : minted[b][c] = IF c = Plain /\ legacy[b] THEN 1 ELSE 0
  BY DEF Init
<1>5. ObjectInv /\ SavedInv
  BY <1>2, <1>3 DEF ObjectInv, SavedInv
<1>6. LadderInv
  BY <1>2, CreditsAssumption DEF LadderInv
<1>7. MintedInv
  BY <1>2, <1>4 DEF MintedInv, Codes
<1>8. OnceInv
  <2>1. \A b \in Buyers, c \in Codes : minted[b][c] <= 1 /\ (minted[b][c] = 1 => c \in Claimed(b))
    BY <1>2, <1>4 DEF Claimed, Migrated
  <2> QED
    BY <1>2, <1>3, <2>1 DEF OnceInv
<1> QED
  BY <1>1, <1>5, <1>6, <1>7, <1>8 DEF CreditsInv

\* What a redeem request changes: the object it checks holds what is claimed,
\* no claim changes, and no request in progress sees its object change.
LEMMA RedeemFrame ==
    ASSUME TypeOK, CreditsInv, NEW s \in Slots, NEW b \in Buyers, NEW c \in ValidCodes,
           Redeem(s, b, c)
    PROVE  /\ request'[s].buyer = b /\ request'[s].code = c
           /\ request'[s].object = IF codes[b] = None THEN s ELSE codes[b]
           /\ \A t \in Slots : t # s => request'[t] = request[t]
           /\ \A x \in Buyers : s \notin Busy(x)
           /\ \A x \in Buyers : Claimed(x)' = Claimed(x)
           /\ heap'[b][request'[s].object] = Claimed(b)
           /\ \A x \in Buyers, p \in Slots :
                 heap'[x][p] = heap[x][p] \/ (x = b /\ heap'[x][p] = Claimed(b))
           /\ \A x \in Buyers : \A t \in Busy(x) :
                 heap'[x][request[t].object] = heap[x][request[t].object]
<1> DEFINE o == IF codes[b] = None THEN s ELSE codes[b]
<1>1. o \in Slots
  BY DEF TypeOK
<1>2. /\ request[s] = NoRequest
      /\ request' = [request EXCEPT ![s] = [buyer |-> b, code |-> c, object |-> o]]
      /\ heap' = [heap EXCEPT ![b][o] = Claimed(b)]
      /\ codes' = codes /\ legacy' = legacy
  BY DEF Redeem, Checks
<1>3. \A x \in Buyers, p \in Slots :
          heap'[x][p] = IF x = b /\ p = o THEN Claimed(b) ELSE heap[x][p]
  BY <1>1, <1>2 DEF TypeOK
<1>4. codes[b] # None => heap[b][o] = Claimed(b)
  BY DEF Claimed
<1>5. \A x \in Buyers : s \notin Busy(x)
  BY <1>2, CreditsAssumption DEF Busy, NoRequest
<1>6. /\ request'[s].buyer = b /\ request'[s].code = c /\ request'[s].object = o
      /\ \A t \in Slots : t # s => request'[t] = request[t]
  BY <1>2 DEF TypeOK
<1>7. ASSUME NEW x \in Buyers PROVE Claimed(x)' = Claimed(x)
  <2>1. CASE codes[x] = None
    BY <1>2, <2>1 DEF Claimed, Migrated
  <2>2. CASE codes[x] # None
    <3>1. codes[x] \in Slots
      BY <2>2 DEF TypeOK
    <3>2. heap'[x][codes[x]] = heap[x][codes[x]]
      BY <1>3, <1>4, <2>2, <3>1
    <3> QED
      BY <1>2, <2>2, <3>2 DEF Claimed
  <2> QED
    BY <2>1, <2>2
<1>8. ASSUME NEW x \in Buyers, NEW t \in Busy(x)
      PROVE  heap'[x][request[t].object] = heap[x][request[t].object]
  <2>1. t \in Slots /\ request[t] \in Redemption /\ t # s
    BY <1>5, RequestType DEF Busy
  <2>2. request[t].object \in Slots
    BY <2>1 DEF Redemption
  <2>3. CASE codes[x] = None
    <3>1. request[t].object = t
      BY <2>3 DEF CreditsInv, ObjectInv
    <3> QED
      BY <1>3, <2>1, <2>2, <2>3, <3>1
  <2>4. CASE codes[x] # None
    BY <1>3, <1>4, <2>2, <2>4
  <2> QED
    BY <2>3, <2>4
<1> QED
  BY <1>1, <1>3, <1>5, <1>6, <1>7, <1>8

\* The requests of a wallet after one more has passed the checks.
LEMMA RedeemBusy ==
    ASSUME TypeOK, CreditsInv, NEW s \in Slots, NEW b \in Buyers, NEW c \in ValidCodes,
           Redeem(s, b, c), NEW x \in Buyers
    PROVE  Busy(x)' = IF x = b THEN Busy(x) \union {s} ELSE Busy(x)
BY RedeemFrame DEF Busy

\* A new request leaves the running mint at the head.
LEMMA RedeemHead ==
    ASSUME TypeOK, CreditsInv, NEW s \in Slots, NEW b \in Buyers, NEW c \in ValidCodes,
           Redeem(s, b, c), landed
    PROVE  Head(queue') = Head(queue) /\ request'[Head(queue)] = request[Head(queue)]
<1>1. queue' = Append(queue, s) /\ request[s] = NoRequest
  BY DEF Redeem
<1>2. queue # <<>> /\ queue \in Seq(Slots)
  BY DEF CreditsInv, QueueInv, TypeOK
<1>3. Head(queue) \in Slots /\ request[Head(queue)].buyer \in Buyers
  BY <1>2, HeadType DEF CreditsInv
<1>4. Head(queue) # s
  BY <1>1, <1>3, CreditsAssumption DEF NoRequest
<1> QED
  BY <1>1, <1>2, <1>3, <1>4, RedeemFrame

LEMMA RedeemLadder ==
    ASSUME TypeOK, CreditsInv, NEW s \in Slots, NEW b \in Buyers, NEW c \in ValidCodes,
           Redeem(s, b, c)
    PROVE  LadderInv'
<1>1. Unlocked(c, Claimed(b))
  BY DEF Redeem
<1>2. \A i \in Claimed(b) : Unlocked(i, Claimed(b))
  <2>1. CASE codes[b] = None
    BY <2>1 DEF Claimed, Migrated, Unlocked
  <2>2. CASE codes[b] # None
    <3>1. codes[b] \in Slots
      BY <2>2 DEF TypeOK
    <3> QED
      BY <2>2, <3>1 DEF CreditsInv, LadderInv, Claimed
  <2> QED
    BY <2>1, <2>2
<1>3. ASSUME NEW x \in Buyers, NEW p \in Slots, NEW i \in heap'[x][p]
      PROVE  Unlocked(i, heap'[x][p])
  BY <1>2, <1>3, RedeemFrame DEF CreditsInv, LadderInv
<1>4. ASSUME NEW t \in Slots, NEW x \in Buyers, request'[t].buyer = x
      PROVE  Unlocked(request'[t].code, heap'[x][request'[t].object])
  <2>1. CASE t = s
    BY <1>1, <1>4, <2>1, RedeemFrame
  <2>2. CASE t # s
    <3>1. request'[t] = request[t] /\ t \in Busy(x)
      BY <1>4, <2>2, RedeemFrame DEF Busy
    <3>2. heap'[x][request[t].object] = heap[x][request[t].object]
      BY <3>1, RedeemFrame
    <3>3. Unlocked(request[t].code, heap[x][request[t].object])
      BY <1>4, <3>1 DEF CreditsInv, LadderInv
    <3> QED
      BY <3>1, <3>2, <3>3
  <2> QED
    BY <2>1, <2>2
<1> QED
  BY <1>3, <1>4 DEF LadderInv, Unlocked

LEMMA RedeemMinted ==
    ASSUME TypeOK, CreditsInv, NEW s \in Slots, NEW b \in Buyers, NEW c \in ValidCodes,
           Redeem(s, b, c)
    PROVE  MintedInv'
<1>1. minted' = minted /\ legacy' = legacy /\ landed' = landed
      /\ queue' = Append(queue, s) /\ request[s] = NoRequest
  BY DEF Redeem
<1>2. \A d \in Claimed(b) : minted[b][d] >= 1
  <2>1. CASE codes[b] = None
    BY <2>1 DEF Claimed, Migrated, CreditsInv, MintedInv
  <2>2. CASE codes[b] # None
    <3>1. codes[b] \in Slots
      BY <2>2 DEF TypeOK
    <3> QED
      BY <2>2, <3>1 DEF CreditsInv, MintedInv, Claimed
  <2> QED
    BY <2>1, <2>2
<1>3. \A x \in Buyers, p \in Slots : \A d \in heap'[x][p] : minted'[x][d] >= 1
  BY <1>1, <1>2, RedeemFrame DEF CreditsInv, MintedInv
<1>4. landed => Head(queue') = Head(queue) /\ request'[Head(queue)] = request[Head(queue)]
  BY RedeemHead
<1> QED
  BY <1>1, <1>3, <1>4 DEF CreditsInv, MintedInv

\* A request that does not race leaves its wallet's requests with distinct codes
\* and one object.
LEMMA RedeemOnce ==
    ASSUME TypeOK, CreditsInv, NEW s \in Slots, NEW b \in Buyers, NEW c \in ValidCodes,
           Redeem(s, b, c)
    PROVE  OnceInv'
<1> DEFINE o == IF codes[b] = None THEN s ELSE codes[b]
<1>1. /\ minted' = minted /\ landed' = landed /\ orphans' = orphans
      /\ queue' = Append(queue, s) /\ request[s] = NoRequest /\ c \notin Claimed(b)
      /\ risky \subseteq risky'
      /\ b \notin risky' => \A t \in Busy(b) : request[t].code # c /\ request[t].object = o
  BY DEF Redeem
<1> SUFFICES ASSUME NEW x \in Buyers \ risky'
             PROVE  /\ \A t \in Busy(x)' :
                          /\ heap'[x][request'[t].object] = Claimed(x)'
                          /\ request'[t].code \notin Claimed(x)'
                    /\ \A t, u \in Busy(x)' : t # u =>
                          /\ request'[t].code # request'[u].code
                          /\ request'[t].object = request'[u].object
                    /\ \A d \in Codes :
                          /\ minted'[x][d] <= 1
                          /\ minted'[x][d] = 1 =>
                                \/ d \in Claimed(x)'
                                \/ /\ landed'
                                   /\ request'[Head(queue')].buyer = x
                                   /\ request'[Head(queue')].code = d
                    /\ \A j \in orphans' : j.buyer # x
  BY DEF OnceInv
<1>2. x \in Buyers \ risky
  BY <1>1
<1>3. \A t \in Busy(x) : request'[t] = request[t] /\ t # s /\ t \in Slots
  BY RedeemFrame DEF Busy
<1>4. /\ Claimed(x)' = Claimed(x)
      /\ Busy(x)' = IF x = b THEN Busy(x) \union {s} ELSE Busy(x)
      /\ request'[s].object = o /\ request'[s].code = c /\ heap'[b][o] = Claimed(b)
      /\ \A t \in Busy(x) : heap'[x][request[t].object] = heap[x][request[t].object]
  BY RedeemFrame, RedeemBusy
<1>5. \A t \in Busy(x)' :
          /\ heap'[x][request'[t].object] = Claimed(x)'
          /\ request'[t].code \notin Claimed(x)'
  BY <1>1, <1>2, <1>3, <1>4 DEF CreditsInv, OnceInv
<1>6. \A t, u \in Busy(x)' : t # u =>
          /\ request'[t].code # request'[u].code
          /\ request'[t].object = request'[u].object
  BY <1>1, <1>2, <1>3, <1>4 DEF CreditsInv, OnceInv
<1>7. landed => Head(queue') = Head(queue) /\ request'[Head(queue)] = request[Head(queue)]
  BY RedeemHead
<1>8. \A d \in Codes :
          /\ minted'[x][d] <= 1
          /\ minted'[x][d] = 1 =>
                \/ d \in Claimed(x)'
                \/ /\ landed'
                   /\ request'[Head(queue')].buyer = x
                   /\ request'[Head(queue')].code = d
  BY <1>1, <1>2, <1>4, <1>7 DEF CreditsInv, OnceInv
<1>9. \A j \in orphans' : j.buyer # x
  BY <1>1, <1>2 DEF CreditsInv, OnceInv
<1> QED
  BY <1>5, <1>6, <1>8, <1>9

LEMMA RedeemClaims ==
    ASSUME TypeOK, CreditsInv, NEW s \in Slots, NEW b \in Buyers, NEW c \in ValidCodes,
           Redeem(s, b, c)
    PROVE  CreditsInv'
<1>1. QueueInv'
  BY RedeemTyping DEF CreditsInv
<1>2. codes' = codes /\ legacy' = legacy /\ disk' = disk
  BY DEF Redeem
<1>3. ObjectInv'
  <2> SUFFICES ASSUME NEW x \in Buyers, codes'[x] = None, NEW t \in Busy(x)'
               PROVE  request'[t].object = t
    BY DEF ObjectInv
  <2>1. CASE t = s
    BY <1>2, <2>1, RedeemFrame, RedeemBusy
  <2>2. CASE t # s
    BY <1>2, <2>2, RedeemFrame, RedeemBusy DEF CreditsInv, ObjectInv, Busy
  <2> QED
    BY <2>1, <2>2
<1>4. SavedInv'
  <2>1. \A x \in Buyers : codes[x] # None => heap'[x][codes[x]] = heap[x][codes[x]]
    BY <1>2, RedeemFrame DEF Claimed
  <2> QED
    BY <1>2, <2>1 DEF CreditsInv, SavedInv
<1> QED
  BY <1>1, <1>3, <1>4, RedeemLadder, RedeemMinted, RedeemOnce DEF CreditsInv

\* One more grant, of the counts and of what is minted.
LEMMA GrantCounts ==
    ASSUME TypeOK, NEW b \in Buyers, NEW c \in Codes,
           minted' = [minted EXCEPT ![b][c] = @ + 1]
    PROVE  /\ \A x \in Buyers, d \in Codes :
                 (x # b \/ d # c) => minted'[x][d] = minted[x][d]
           /\ minted'[b][c] = minted[b][c] + 1
           /\ minted'[b][c] >= 1
           /\ \A x \in Buyers, d \in Codes : minted[x][d] >= 1 => minted'[x][d] >= 1
<1>1. \A x \in Buyers, d \in Codes : minted[x][d] \in Nat
  BY DEF TypeOK
<1>2. \A x \in Buyers, d \in Codes :
          minted'[x][d] = IF x = b /\ d = c THEN minted[x][d] + 1 ELSE minted[x][d]
  BY DEF TypeOK
<1>3. minted'[b][c] = minted[b][c] + 1 /\ minted'[b][c] >= 1
  BY <1>1, <1>2
<1>4. \A x \in Buyers, d \in Codes : (x # b \/ d # c) => minted'[x][d] = minted[x][d]
  BY <1>2
<1> QED
  BY <1>3, <1>4

\* What was minted stays minted, so the claims stay backed.
LEMMA BackedKept ==
    ASSUME TypeOK, MintedInv, heap' = heap, legacy' = legacy,
           \A x \in Buyers, d \in Codes : minted[x][d] >= 1 => minted'[x][d] >= 1
    PROVE  /\ \A x \in Buyers, p \in Slots : \A d \in heap'[x][p] : minted'[x][d] >= 1
           /\ \A x \in Buyers : legacy'[x] => minted'[x][Plain] >= 1
<1>1. \A x \in Buyers, p \in Slots : heap[x][p] \subseteq Codes
  BY DEF TypeOK
<1>2. Plain \in Codes
  BY DEF Codes
<1>3. \A x \in Buyers, p \in Slots : \A d \in heap[x][p] : minted'[x][d] >= 1
  BY <1>1 DEF MintedInv
<1>4. \A x \in Buyers : legacy[x] => minted'[x][Plain] >= 1
  BY <1>2 DEF MintedInv
<1> QED
  BY <1>3, <1>4

LEMMA MintLandsClaims ==
    ASSUME TypeOK, CreditsInv, MintLands
    PROVE  CreditsInv'
<1> DEFINE q == request[Head(queue)]
<1>1. /\ queue # <<>> /\ ~landed /\ landed' = TRUE
      /\ minted' = [minted EXCEPT ![q.buyer][q.code] = @ + 1]
      /\ heap' = heap /\ codes' = codes /\ legacy' = legacy /\ disk' = disk
      /\ request' = request /\ queue' = queue /\ orphans' = orphans /\ risky' = risky
  BY DEF MintLands, memory
<1>2. q.buyer \in Buyers /\ q.code \in Codes /\ Head(queue) \in Slots
  BY <1>1, HeadType DEF CreditsInv
<1>3. /\ \A x \in Buyers, d \in Codes :
            (x # q.buyer \/ d # q.code) => minted'[x][d] = minted[x][d]
      /\ minted'[q.buyer][q.code] = minted[q.buyer][q.code] + 1
      /\ minted'[q.buyer][q.code] >= 1
      /\ \A x \in Buyers, d \in Codes : minted[x][d] >= 1 => minted'[x][d] >= 1
  BY <1>1, <1>2, GrantCounts
<1>4. \A x \in Buyers : Claimed(x)' = Claimed(x) /\ Busy(x)' = Busy(x)
  BY <1>1 DEF Claimed, Migrated, Busy
<1>5. QueueInv'
  BY MintLandsTyping DEF CreditsInv
<1>6. ObjectInv' /\ SavedInv' /\ LadderInv'
  BY <1>1, <1>4 DEF CreditsInv, ObjectInv, SavedInv, LadderInv
<1>7. MintedInv'
  BY <1>1, <1>3, BackedKept DEF CreditsInv, MintedInv
<1>8. OnceInv'
  <2>1. ASSUME NEW x \in Buyers \ risky, NEW d \in Codes
        PROVE  /\ minted'[x][d] <= 1
               /\ minted'[x][d] = 1 => d \in Claimed(x) \/ (q.buyer = x /\ q.code = d)
    <3>1. /\ minted[x][d] \in Nat /\ minted[x][d] <= 1
          /\ minted[x][d] = 1 => d \in Claimed(x)
      BY <1>1 DEF CreditsInv, OnceInv, TypeOK
    <3>2. CASE x = q.buyer /\ d = q.code
      <4>1. d \notin Claimed(x)
        BY <1>2, <3>2 DEF CreditsInv, OnceInv, Busy
      <4>2. minted[x][d] = 0
        BY <3>1, <4>1
      <4> QED
        BY <1>3, <3>2, <4>2
    <3>3. CASE x # q.buyer \/ d # q.code
      BY <1>3, <3>1, <3>3
    <3> QED
      BY <3>2, <3>3
  <2>2. ASSUME NEW x \in Buyers \ risky
        PROVE  /\ \A t \in Busy(x)' :
                     /\ heap'[x][request'[t].object] = Claimed(x)'
                     /\ request'[t].code \notin Claimed(x)'
               /\ \A t, u \in Busy(x)' : t # u =>
                     /\ request'[t].code # request'[u].code
                     /\ request'[t].object = request'[u].object
               /\ \A j \in orphans' : j.buyer # x
    BY <1>1, <1>4 DEF CreditsInv, OnceInv
  <2> QED
    BY <1>1, <1>4, <2>1, <2>2 DEF OnceInv
<1> QED
  BY <1>5, <1>6, <1>7, <1>8 DEF CreditsInv

LEMMA OrphanClaims ==
    ASSUME TypeOK, CreditsInv, NEW j \in orphans, OrphanExits(j)
    PROVE  CreditsInv'
<1>1. /\ heap' = heap /\ codes' = codes /\ legacy' = legacy /\ disk' = disk
      /\ request' = request /\ queue' = queue /\ landed' = landed /\ risky' = risky
      /\ orphans' \subseteq orphans
      /\ minted' = [minted EXCEPT ![j.buyer][j.code] = @ + 1] \/ minted' = minted
  BY DEF OrphanExits, memory
<1>2. j.buyer \in Buyers /\ j.code \in Codes
  BY DEF TypeOK
<1>3. /\ \A x \in Buyers, d \in Codes : minted[x][d] >= 1 => minted'[x][d] >= 1
      /\ \A x \in Buyers, d \in Codes : x # j.buyer => minted'[x][d] = minted[x][d]
  BY <1>1, <1>2, GrantCounts
<1>4. \A x \in Buyers : Claimed(x)' = Claimed(x) /\ Busy(x)' = Busy(x)
  BY <1>1 DEF Claimed, Migrated, Busy
<1>5. QueueInv' /\ ObjectInv' /\ SavedInv' /\ LadderInv'
  BY <1>1, <1>4 DEF CreditsInv, QueueInv, ObjectInv, SavedInv, LadderInv
<1>6. MintedInv'
  <2>1. ASSUME landed
        PROVE  minted'[request[Head(queue)].buyer][request[Head(queue)].code] >= 1
    <3>1. request[Head(queue)].buyer \in Buyers /\ request[Head(queue)].code \in Codes
      BY <2>1, HeadType DEF CreditsInv, QueueInv
    <3>2. minted[request[Head(queue)].buyer][request[Head(queue)].code] >= 1
      BY <2>1 DEF CreditsInv, MintedInv
    <3> QED
      BY <1>3, <3>1, <3>2
  <2> QED
    BY <1>1, <1>3, <2>1, BackedKept DEF CreditsInv, MintedInv
<1>7. OnceInv'
  <2>1. \A x \in Buyers \ risky : x # j.buyer
    BY DEF CreditsInv, OnceInv
  <2>2. \A x \in Buyers \ risky, d \in Codes : minted'[x][d] = minted[x][d]
    BY <1>3, <2>1
  <2> QED
    BY <1>1, <1>4, <2>2 DEF CreditsInv, OnceInv
<1> QED
  BY <1>5, <1>6, <1>7 DEF CreditsInv

LEMMA UnlockedGrows ==
    ASSUME NEW c, NEW S, NEW T, S \subseteq T, Unlocked(c, S)
    PROVE  Unlocked(c, T)
BY DEF Unlocked

\* What a successful mint changes: one object, its wallet and one request.
LEMMA MintOkFrame ==
    ASSUME TypeOK, CreditsInv, MintOk
    PROVE  LET s == Head(queue)
               q == request[s]
           IN  /\ s \in Slots /\ q \in Redemption /\ s \in Busy(q.buyer)
               /\ \A x \in Buyers, p \in Slots :
                     heap'[x][p] = IF x = q.buyer /\ p = q.object THEN heap[x][p] \union {q.code}
                                   ELSE heap[x][p]
               /\ \A x \in Buyers : codes'[x] = IF x = q.buyer THEN q.object ELSE codes[x]
               /\ \A x \in Buyers : legacy'[x] = (legacy[x] /\ x # q.buyer)
               /\ \A x \in Buyers : Busy(x)' = Busy(x) \ {s}
               /\ \A t \in Slots : t # s => request'[t] = request[t]
               /\ request'[s].buyer = None
               /\ \A x \in Buyers : Claimed(x)' = IF x = q.buyer
                                                  THEN heap[x][q.object] \union {q.code}
                                                  ELSE Claimed(x)
<1> DEFINE s == Head(queue)
           q == request[s]
<1>1. s \in Slots /\ q \in Redemption /\ q.buyer \in Buyers /\ q.object \in Slots
  BY HeadType DEF CreditsInv, MintOk
<1>2. s \in Busy(q.buyer)
  BY <1>1 DEF Busy
<1>3. /\ heap' = [heap EXCEPT ![q.buyer][q.object] = @ \union {q.code}]
      /\ codes' = [codes EXCEPT ![q.buyer] = q.object]
      /\ legacy' = [legacy EXCEPT ![q.buyer] = FALSE]
      /\ request' = [request EXCEPT ![s] = NoRequest]
  BY DEF MintOk, Answered
<1>4. \A x \in Buyers, p \in Slots :
          heap'[x][p] = IF x = q.buyer /\ p = q.object THEN heap[x][p] \union {q.code} ELSE heap[x][p]
  BY <1>1, <1>3 DEF TypeOK
<1>5. /\ \A x \in Buyers : codes'[x] = IF x = q.buyer THEN q.object ELSE codes[x]
      /\ \A x \in Buyers : legacy'[x] = (legacy[x] /\ x # q.buyer)
  BY <1>1, <1>3 DEF TypeOK
<1>6. /\ \A t \in Slots : t # s => request'[t] = request[t]
      /\ request'[s].buyer = None
  BY <1>1, <1>3 DEF TypeOK, NoRequest
<1>7. \A x \in Buyers : Busy(x)' = Busy(x) \ {s}
  BY <1>1, <1>6, CreditsAssumption DEF Busy
<1>8. ASSUME NEW x \in Buyers
      PROVE  Claimed(x)' = IF x = q.buyer THEN heap[x][q.object] \union {q.code} ELSE Claimed(x)
  <2>1. CASE x = q.buyer
    <3>1. codes'[x] = q.object /\ q.object # None
      BY <1>1, <1>5, <2>1, CreditsAssumption
    <3> QED
      BY <1>1, <1>4, <2>1, <3>1 DEF Claimed
  <2>2. CASE x # q.buyer
    <3>1. codes'[x] = codes[x] /\ legacy'[x] = legacy[x]
      BY <1>5, <2>2 DEF TypeOK
    <3>2. codes[x] # None => codes[x] \in Slots
      BY DEF TypeOK
    <3>3. codes[x] # None => heap'[x][codes[x]] = heap[x][codes[x]]
      BY <1>4, <2>2, <3>2
    <3> QED
      BY <2>2, <3>1, <3>3 DEF Claimed, Migrated
  <2> QED
    BY <2>1, <2>2
<1> QED
  BY <1>1, <1>2, <1>4, <1>5, <1>6, <1>7, <1>8

\* The code of the mint is all that an object gains.
LEMMA MintOkGains ==
    ASSUME TypeOK, CreditsInv, MintOk, NEW x \in Buyers, NEW p \in Slots, NEW i \in heap'[x][p]
    PROVE  LET q == request[Head(queue)]
           IN  i \in heap[x][p] \/ (x = q.buyer /\ p = q.object /\ i = q.code)
<1> DEFINE q == request[Head(queue)]
<1>1. heap'[x][p] = IF x = q.buyer /\ p = q.object THEN heap[x][p] \union {q.code} ELSE heap[x][p]
  BY MintOkFrame
<1>2. CASE x = q.buyer /\ p = q.object
  BY <1>1, <1>2
<1>3. CASE ~(x = q.buyer /\ p = q.object)
  BY <1>1, <1>3
<1> QED
  BY <1>2, <1>3

LEMMA MintOkLadder ==
    ASSUME TypeOK, CreditsInv, MintOk
    PROVE  LadderInv'
<1> DEFINE s == Head(queue)
           q == request[s]
<1>1. q.buyer \in Buyers /\ q.object \in Slots /\ s \in Slots
  BY MintOkFrame DEF Redemption
<1>2. Unlocked(q.code, heap[q.buyer][q.object])
  BY <1>1 DEF CreditsInv, LadderInv
<1>3. \A x \in Buyers, p \in Slots : heap[x][p] \subseteq heap'[x][p]
  BY MintOkFrame
<1>4. ASSUME NEW x \in Buyers, NEW p \in Slots, NEW i \in heap'[x][p]
      PROVE  Unlocked(i, heap'[x][p])
  <2>1. i \in heap[x][p] \/ (x = q.buyer /\ p = q.object /\ i = q.code)
    BY <1>4, MintOkGains
  <2>2. i \in heap[x][p] => Unlocked(i, heap[x][p])
    BY DEF CreditsInv, LadderInv
  <2>3. Unlocked(i, heap[x][p])
    BY <1>2, <2>1, <2>2
  <2> QED
    BY <1>3, <2>3, UnlockedGrows
<1>5. ASSUME NEW t \in Slots, NEW x \in Buyers, request'[t].buyer = x
      PROVE  Unlocked(request'[t].code, heap'[x][request'[t].object])
  <2>1. t # s /\ request'[t] = request[t]
    BY <1>5, MintOkFrame, CreditsAssumption
  <2>2. request[t].object \in Slots
    BY <1>5, <2>1, RequestType DEF Redemption
  <2>3. Unlocked(request[t].code, heap[x][request[t].object])
    BY <1>5, <2>1 DEF CreditsInv, LadderInv
  <2> QED
    BY <1>3, <2>1, <2>2, <2>3, UnlockedGrows
<1> QED
  BY <1>4, <1>5 DEF LadderInv, Unlocked

LEMMA MintOkOnce ==
    ASSUME TypeOK, CreditsInv, MintOk
    PROVE  OnceInv'
<1> DEFINE s == Head(queue)
           q == request[s]
<1>1. minted' = minted /\ orphans' = orphans /\ risky' = risky /\ landed
  BY DEF MintOk
<1> SUFFICES ASSUME NEW x \in Buyers \ risky
             PROVE  /\ \A t \in Busy(x)' :
                          /\ heap'[x][request'[t].object] = Claimed(x)'
                          /\ request'[t].code \notin Claimed(x)'
                    /\ \A t, u \in Busy(x)' : t # u =>
                          /\ request'[t].code # request'[u].code
                          /\ request'[t].object = request'[u].object
                    /\ \A d \in Codes :
                          /\ minted'[x][d] <= 1
                          /\ minted'[x][d] = 1 => d \in Claimed(x)'
                    /\ \A j \in orphans' : j.buyer # x
  BY <1>1 DEF OnceInv
<1>2. /\ q.buyer \in Buyers /\ q.object \in Slots /\ s \in Busy(q.buyer)
      /\ Busy(x)' = Busy(x) \ {s}
      /\ \A t \in Busy(x)' : request'[t] = request[t] /\ t \in Slots
  BY MintOkFrame DEF Redemption, Busy
<1>3. \A t \in Busy(x)' : request[t].object \in Slots
  BY <1>2, RequestType DEF Busy, Redemption
<1>4. /\ \A t, u \in Busy(x)' : t # u =>
            /\ request'[t].code # request'[u].code
            /\ request'[t].object = request'[u].object
      /\ \A j \in orphans' : j.buyer # x
  BY <1>1, <1>2 DEF CreditsInv, OnceInv
<1>5. CASE x = q.buyer
  <2>1. Claimed(x)' = Claimed(x) \union {q.code}
    BY <1>2, <1>5, MintOkFrame DEF CreditsInv, OnceInv
  <2>2. ASSUME NEW t \in Busy(x)'
        PROVE  /\ heap'[x][request'[t].object] = Claimed(x)'
               /\ request'[t].code \notin Claimed(x)'
    <3>1. /\ t \in Busy(x) /\ t # s
          /\ request[t].object = q.object /\ request[t].code # q.code
          /\ request[t].code \notin Claimed(x)
      BY <1>2, <1>5 DEF CreditsInv, OnceInv
    <3>2. heap'[x][q.object] = Claimed(x)'
      BY <1>2, <1>5, MintOkFrame
    <3> QED
      BY <1>2, <2>1, <3>1, <3>2
  <2>3. \A d \in Codes : minted'[x][d] <= 1 /\ (minted'[x][d] = 1 => d \in Claimed(x)')
    BY <1>1, <2>1 DEF CreditsInv, OnceInv
  <2> QED
    BY <1>4, <2>2, <2>3
<1>6. CASE x # q.buyer
  <2>1. Claimed(x)' = Claimed(x)
    BY <1>6, MintOkFrame
  <2>2. \A t \in Busy(x)' : heap'[x][request[t].object] = heap[x][request[t].object]
    BY <1>3, <1>6, MintOkFrame
  <2>3. \A t \in Busy(x)' :
            /\ heap'[x][request'[t].object] = Claimed(x)'
            /\ request'[t].code \notin Claimed(x)'
    BY <1>2, <2>1, <2>2 DEF CreditsInv, OnceInv
  <2>4. \A d \in Codes : minted'[x][d] <= 1 /\ (minted'[x][d] = 1 => d \in Claimed(x)')
    BY <1>1, <1>6, <2>1 DEF CreditsInv, OnceInv
  <2> QED
    BY <1>4, <2>3, <2>4
<1> QED
  BY <1>5, <1>6

LEMMA MintOkClaims ==
    ASSUME TypeOK, CreditsInv, MintOk
    PROVE  CreditsInv'
<1> DEFINE s == Head(queue)
           q == request[s]
<1>1. minted' = minted /\ landed /\ ~landed' /\ SaveUsers
  BY DEF MintOk, Answered
<1>2. q.buyer \in Buyers /\ q.object \in Slots
  BY MintOkFrame DEF Redemption
<1>3. QueueInv'
  BY MintOkTyping DEF CreditsInv
<1>4. ObjectInv'
  <2> SUFFICES ASSUME NEW x \in Buyers, codes'[x] = None, NEW t \in Busy(x)'
               PROVE  request'[t].object = t
    BY DEF ObjectInv
  <2>1. codes[x] = None
    BY <1>2, MintOkFrame, CreditsAssumption
  <2>2. t \in Busy(x) /\ request'[t] = request[t]
    BY MintOkFrame DEF Busy
  <2> QED
    BY <2>1, <2>2 DEF CreditsInv, ObjectInv
<1>5. SavedInv'
  BY <1>1 DEF SaveUsers, SavedInv
<1>6. MintedInv'
  <2>1. minted[q.buyer][q.code] >= 1
    BY <1>1 DEF CreditsInv, MintedInv
  <2>2. ASSUME NEW x \in Buyers, NEW p \in Slots, NEW c \in heap'[x][p]
        PROVE  minted[x][c] >= 1
    <3>1. c \in heap[x][p] \/ (x = q.buyer /\ c = q.code)
      BY <2>2, MintOkGains
    <3>2. c \in heap[x][p] => minted[x][c] >= 1
      BY DEF CreditsInv, MintedInv
    <3> QED
      BY <2>1, <3>1, <3>2
  <2>3. \A x \in Buyers : legacy'[x] => minted[x][Plain] >= 1
    BY MintOkFrame DEF CreditsInv, MintedInv
  <2> QED
    BY <1>1, <2>2, <2>3 DEF MintedInv
<1> QED
  BY <1>3, <1>4, <1>5, <1>6, MintOkLadder, MintOkOnce DEF CreditsInv

LEMMA MintFailsClaims ==
    ASSUME TypeOK, CreditsInv, MintFails
    PROVE  CreditsInv'
<1> DEFINE s == Head(queue)
           q == request[s]
<1>1. /\ heap' = heap /\ codes' = codes /\ legacy' = legacy /\ disk' = disk
      /\ minted' = minted /\ orphans' = orphans /\ ~landed'
      /\ risky \subseteq risky' /\ (landed => q.buyer \in risky')
      /\ request' = [request EXCEPT ![s] = NoRequest]
  BY DEF MintFails, Answered, memory
<1>2. s \in Slots
  BY HeadType DEF CreditsInv, MintFails
<1>3. /\ \A t \in Slots : t # s => request'[t] = request[t]
      /\ request'[s].buyer = None
  BY <1>1, <1>2 DEF TypeOK, NoRequest
<1>4. \A x \in Buyers : /\ Claimed(x)' = Claimed(x)
                        /\ Busy(x)' = Busy(x) \ {s}
                        /\ \A t \in Busy(x)' : request'[t] = request[t]
  BY <1>1, <1>2, <1>3, CreditsAssumption DEF Claimed, Migrated, Busy
<1>5. QueueInv'
  BY MintFailsTyping DEF CreditsInv
<1>6. ObjectInv' /\ SavedInv'
  BY <1>1, <1>4 DEF CreditsInv, ObjectInv, SavedInv
<1>7. LadderInv'
  <2>1. ASSUME NEW t \in Slots, NEW x \in Buyers, request'[t].buyer = x
        PROVE  Unlocked(request'[t].code, heap'[x][request'[t].object])
    <3>1. request'[t] = request[t]
      BY <1>3, <2>1, CreditsAssumption
    <3> QED
      BY <1>1, <2>1, <3>1 DEF CreditsInv, LadderInv
  <2>2. \A x \in Buyers, p \in Slots : \A i \in heap'[x][p] : Unlocked(i, heap'[x][p])
    BY <1>1 DEF CreditsInv, LadderInv
  <2> QED
    BY <2>1, <2>2 DEF LadderInv, Unlocked
<1>8. MintedInv'
  BY <1>1 DEF CreditsInv, MintedInv
<1>9. OnceInv'
  <2>1. ASSUME NEW x \in Buyers \ risky', NEW d \in Codes
        PROVE  minted'[x][d] <= 1 /\ (minted'[x][d] = 1 => d \in Claimed(x)')
    BY <1>1, <1>4 DEF CreditsInv, OnceInv
  <2>2. ASSUME NEW x \in Buyers \ risky'
        PROVE  /\ \A t \in Busy(x)' :
                     /\ heap'[x][request'[t].object] = Claimed(x)'
                     /\ request'[t].code \notin Claimed(x)'
               /\ \A t, u \in Busy(x)' : t # u =>
                     /\ request'[t].code # request'[u].code
                     /\ request'[t].object = request'[u].object
               /\ \A j \in orphans' : j.buyer # x
    BY <1>1, <1>4 DEF CreditsInv, OnceInv
  <2> QED
    BY <2>1, <2>2 DEF OnceInv
<1> QED
  BY <1>5, <1>6, <1>7, <1>8, <1>9 DEF CreditsInv

\* The boot finds every claim where it was and forgets every request.
LEMMA CrashClaims ==
    ASSUME TypeOK, CreditsInv, CrashRestart
    PROVE  CreditsInv'
<1>1. /\ disk' = disk /\ minted' = minted /\ ~landed'
      /\ \A t \in Slots : request'[t].buyer = None
      /\ codes' = [b \in Buyers |-> IF disk[b].has THEN codes[b] ELSE None]
      /\ legacy' = [b \in Buyers |-> disk[b].legacy]
  BY DEF CrashRestart, NoRequest
<1>2. \A x \in Buyers : /\ codes'[x] = codes[x] /\ legacy'[x] = legacy[x]
                        /\ disk[x].has = (codes[x] # None)
                        /\ codes[x] # None => disk[x].codes = heap[x][codes[x]]
  BY <1>1 DEF CreditsInv, SavedInv
<1>3. ASSUME NEW x \in Buyers, NEW p \in Slots
      PROVE  /\ heap'[x][p] = {} \/ heap'[x][p] = heap[x][p]
             /\ codes[x] # None /\ p = codes[x] => heap'[x][p] = heap[x][p]
  <2>1. heap'[x][p] = IF disk[x].has /\ p = codes[x] THEN disk[x].codes ELSE {}
    BY DEF CrashRestart
  <2> QED
    BY <1>2, <2>1
<1>4. \A x \in Buyers : codes[x] # None => heap'[x][codes[x]] = heap[x][codes[x]]
  BY <1>3 DEF TypeOK
<1>5. \A x \in Buyers : Claimed(x)' = Claimed(x) /\ Busy(x)' = {}
  BY <1>1, <1>2, <1>4, CreditsAssumption DEF Claimed, Migrated, Busy
<1>6. QueueInv'
  BY CrashTyping DEF CreditsInv
<1>7. ObjectInv' /\ SavedInv'
  <2>1. ObjectInv'
    BY <1>5 DEF ObjectInv
  <2>2. SavedInv'
    BY <1>1, <1>2, <1>4 DEF CreditsInv, SavedInv
  <2> QED
    BY <2>1, <2>2
<1>8. LadderInv'
  <2>1. \A x \in Buyers, p \in Slots : \A i \in heap'[x][p] : Unlocked(i, heap'[x][p])
    BY <1>3 DEF CreditsInv, LadderInv
  <2> QED
    BY <1>1, <2>1, CreditsAssumption DEF LadderInv, Unlocked
<1>9. MintedInv'
  <2>1. \A x \in Buyers, p \in Slots : \A c \in heap'[x][p] : minted'[x][c] >= 1
    BY <1>1, <1>3 DEF CreditsInv, MintedInv
  <2> QED
    BY <1>1, <1>2, <2>1 DEF CreditsInv, MintedInv
<1>10. OnceInv'
  <2>1. ASSUME NEW x \in Buyers \ risky'
        PROVE  /\ x \notin risky
               /\ landed => request[Head(queue)].buyer # x
               /\ \A j \in orphans' : j.buyer # x
    <3>1. CASE queue = <<>>
      <4>1. ~landed /\ risky' = risky /\ orphans' = orphans
        BY <3>1 DEF CrashRestart, CreditsInv, QueueInv
      <4> QED
        BY <4>1 DEF CreditsInv, OnceInv
    <3>2. CASE queue # <<>>
      <4>1. /\ risky' = risky \union {request[Head(queue)].buyer}
            /\ \A j \in orphans' : j \in orphans \/ j.buyer = request[Head(queue)].buyer
        BY <3>2 DEF CrashRestart
      <4> QED
        BY <4>1 DEF CreditsInv, OnceInv
    <3> QED
      BY <3>1, <3>2
  <2>2. ASSUME NEW x \in Buyers \ risky', NEW d \in Codes
        PROVE  minted'[x][d] <= 1 /\ (minted'[x][d] = 1 => d \in Claimed(x)')
    BY <1>1, <1>5, <2>1 DEF CreditsInv, OnceInv
  <2> QED
    BY <1>5, <2>1, <2>2 DEF OnceInv
<1> QED
  BY <1>6, <1>7, <1>8, <1>9, <1>10 DEF CreditsInv

-----------------------------------------------------------------------------
(* The theorems *)

LEMMA StepClaims ==
    ASSUME TypeOK, CreditsInv, [Next]_vars
    PROVE  CreditsInv'
<1>1. CASE UNCHANGED vars
  <2>1. QueueInv' /\ ObjectInv' /\ SavedInv'
    BY <1>1 DEF vars, memory, CreditsInv, QueueInv, ObjectInv, SavedInv, Busy
  <2>2. LadderInv' /\ MintedInv'
    BY <1>1 DEF vars, memory, CreditsInv, LadderInv, MintedInv
  <2>3. OnceInv'
    <3>1. /\ heap' = heap /\ request' = request /\ queue' = queue /\ landed' = landed
          /\ orphans' = orphans /\ minted' = minted /\ risky' = risky
          /\ \A x \in Buyers : Claimed(x)' = Claimed(x) /\ Busy(x)' = Busy(x)
      BY <1>1 DEF vars, memory, Busy, Claimed, Migrated
    <3> QED
      BY <3>1 DEF CreditsInv, OnceInv
  <2> QED
    BY <2>1, <2>2, <2>3 DEF CreditsInv
<1>2. CASE Next
  BY <1>2, RedeemClaims, MintLandsClaims, MintOkClaims, MintFailsClaims, CrashClaims, OrphanClaims
     DEF Next
<1> QED
  BY <1>1, <1>2

\* The inductive invariant of the claims holds of every reachable state.
THEOREM Claims == Spec => []CreditsInv
<1>1. Init => TypeOK /\ CreditsInv
  BY InitTyping, InitClaims
<1>2. (TypeOK /\ CreditsInv) /\ [Next]_vars => (TypeOK /\ CreditsInv)'
  BY StepTyping, StepClaims DEF CreditsInv
<1> QED
  BY <1>1, <1>2, PTL DEF Spec

\* A wallet outside the risky cases is granted each code at most once, however
\* its requests for different codes overlap.
THEOREM Once == Spec => []OnceUnlessRisky
<1>1. CreditsInv => OnceUnlessRisky
  BY DEF CreditsInv, OnceInv, OnceUnlessRisky
<1> QED
  BY <1>1, Claims, PTL

\* No code is claimed that was not granted.
THEOREM Granted == Spec => []ClaimedWasMinted
<1>1. TypeOK /\ CreditsInv => ClaimedWasMinted
  <2> SUFFICES ASSUME TypeOK, CreditsInv, NEW b \in Buyers, NEW c \in Claimed(b)
               PROVE  minted[b][c] >= 1
    BY DEF ClaimedWasMinted
  <2>1. CASE codes[b] = None
    BY <2>1 DEF Claimed, Migrated, CreditsInv, MintedInv
  <2>2. CASE codes[b] # None
    <3>1. codes[b] \in Slots
      BY <2>2 DEF TypeOK
    <3> QED
      BY <2>2, <3>1 DEF Claimed, CreditsInv, MintedInv
  <2> QED
    BY <2>1, <2>2
<1> QED
  BY <1>1, Claims, CreditsTyping, PTL

\* The numbered codes of a wallet are claimed from the first one on, without a gap.
THEOREM Ladder == Spec => []LadderIsPrefix
<1>1. TypeOK /\ CreditsInv => LadderIsPrefix
  <2> SUFFICES ASSUME TypeOK, CreditsInv, NEW b \in Buyers,
                      NEW i \in 0..(Rungs - 1), NEW j \in 0..(Rungs - 1),
                      i \in Claimed(b), j < i
               PROVE  j \in Claimed(b)
    BY DEF LadderIsPrefix
  <2>1. i # Plain
    BY CreditsAssumption
  <2>2. codes[b] # None
    BY <2>1 DEF Claimed, Migrated
  <2>3. codes[b] \in Slots /\ i \in heap[b][codes[b]]
    BY <2>2 DEF TypeOK, Claimed
  <2>4. Unlocked(i, heap[b][codes[b]])
    BY <2>3 DEF CreditsInv, LadderInv
  <2> QED
    BY <2>1, <2>2, <2>4 DEF Unlocked, Claimed
<1> QED
  BY <1>1, Claims, CreditsTyping, PTL
=============================================================================
