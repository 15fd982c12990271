---------------------------- MODULE BartokBridge ----------------------------
(***************************************************************************)
(* The escrow-session lifecycle of the bridge (src/ux-prototype/server.js): *)
(* /api/session/start, /api/session/escrow, /api/chat, /api/session/end,    *)
(* /api/auth/register, the abandoned-session sweeper, the FIFO of Miden     *)
(* binaries, the JSON files that survive a restart, and the escrow note on  *)
(* the chain.                                                               *)
(*                                                                          *)
(* Node runs one handler at a time between two awaits.  Where one such turn *)
(* makes several durable writes the model cuts it after each ("charged",    *)
(* "counted", "recorded"), so that a crash can fall between them; InTurn    *)
(* keeps every other handler out.                                           *)
(***************************************************************************)
EXTENDS Integers, Sequences, FiniteSets

CONSTANTS
    Sids,         \* session ids (randomUUID: never reused)
    Buyers,       \* wallet ids
    Requests,     \* slots for concurrent POST /api/chat requests
    Tiers,        \* model tiers
    GatedTiers,   \* tiers with requiresAccount
    Hold,         \* tier -> CONFIG.holdBartok
    MinHold,      \* tier -> CONFIG.minHoldBartok
    ChargesOf,    \* tier -> the charges an oracle attestation may carry
    MaxCharge,    \* the largest of them
    None,         \* stands for a session, tier or buyer not yet chosen
    Balances,     \* self-reported balances in /api/session/start
    AnonCap,      \* CONFIG.anonSpendCapBartok
    MaxAttempts,  \* tries of one /api/session/end (6 in the code)
    RefundCap,    \* refund files kept per buyer (20 in the code)
    MaxVerifies,  \* bound: /api/session/escrow calls per session
    MaxCrashes    \* bound: bridge crashes

ASSUME SetsAssumption ==
    /\ GatedTiers \subseteq Tiers
    /\ Balances \subseteq Nat
    /\ None \notin Sids \union Tiers \union Buyers

ASSUME PriceAssumption ==
    /\ MaxCharge \in Nat
    /\ ChargesOf \in [Tiers -> SUBSET (0..MaxCharge)]

ASSUME HoldAssumption ==
    /\ Hold \in [Tiers -> Nat \ {0}]
    /\ MinHold \in [Tiers -> Nat \ {0}]

ASSUME LimitsAssumption ==
    /\ AnonCap \in Nat \ {0}
    /\ MaxAttempts \in Nat \ {0}
    /\ RefundCap \in Nat \ {0}
    /\ MaxVerifies \in Nat
    /\ MaxCrashes \in Nat

VARIABLES
    place,     \* sid -> "unused", "building", "live" (in the Map) or "gone"
    order,     \* sid -> [buyer, budget], fixed by /api/session/start
    sess,      \* sid -> the session object, which outlives its Map entry
    disk,      \* sessions.json: persisted sid -> session object
    users,     \* users.json: buyer -> [acct, spent]
    refunds,   \* refunds.json: buyer -> sids whose refund note file is kept
    busy,      \* the answer pipeline's lock
    chat,      \* request -> one POST /api/chat in progress
    settler,   \* sid -> the handler that is settling it
    verifies,  \* sid -> /api/session/escrow calls so far (bound)
    queue,     \* midenQueue: jobs in order, the head is the running binary
    landed,    \* the running binary's transaction is on the chain
    orphans,   \* binaries that outlived the bridge that spawned them
    note,      \* sid -> escrow note: "absent", "committed", "consumed"
    paid,      \* sid -> what the settlement transaction paid the seller
    swept,     \* sids whose seller note Joao has consumed
    served,    \* sid -> (history) charges of the replies emitted to the buyer
    crashes

sessVars  == <<place, order, sess, disk>>
chatVars  == <<busy, chat>>
fileVars  == <<users, refunds>>
binVars   == <<queue, landed>>
chainVars == <<orphans, note, paid, swept>>
history   == <<served, crashes>>
vars == <<sessVars, chatVars, fileVars, settler, verifies, binVars, chainVars, history>>

-----------------------------------------------------------------------------
(* Shapes of the state *)

Session == [armed : BOOLEAN, charged : Nat, settling : BOOLEAN, settled : BOOLEAN]
NewSession == [armed |-> FALSE, charged |-> 0, settling |-> FALSE, settled |-> FALSE]

Job == [kind : {"build", "verify", "settle", "joao"}, sid : Sids, charge : Nat]
RunBin(k, s, c) == [kind |-> k, sid |-> s, charge |-> c]

Chat == [phase : {"idle", "answering", "charged", "counted"}, sid : Sids \union {None},
         tier : Tiers \union {None}, spent : Nat, charge : Nat]
Settler == [phase : {"idle", "queued", "waiting", "recorded"},
            who : {"end", "sweep"}, attempt : 0..MaxAttempts, charge : Nat]

Lesser(m, n) == IF m <= n THEN m ELSE n
LastOf(q, n) == SubSeq(q, 1 + (IF Len(q) > n THEN Len(q) - n ELSE 0), Len(q))

AwaitsInTurn == FALSE
\* the turn in which the answer of r is charged for and sent has begun
MidTurn(r) == chat[r].phase \in {"charged", "counted"}
InTurn ==
    \/ \E r \in Requests : MidTurn(r)
    \/ \E s \in Sids : settler[s].phase = "recorded"

\* persistSessions: every session of the Map, as it is now, its settling flag included
PersistNewOnly ==
    disk' = [s \in {x \in Sids : place'[x] = "live"} |-> IF s \in DOMAIN disk THEN disk[s] ELSE sess'[s]]
PersistSessions == disk' = [s \in {x \in Sids : place'[x] = "live"} |-> sess'[s]]

\* the running binary is job k of session s
Running(k, s) == queue # <<>> /\ Head(queue).kind = k /\ Head(queue).sid = s

BinExits ==
    /\ queue' = Tail(queue)
    /\ landed' = FALSE

TypeOK ==
    /\ place \in [Sids -> {"unused", "building", "live", "gone"}]
    /\ order \in [Sids -> [buyer : Buyers \union {None}, budget : Nat]]
    /\ sess \in [Sids -> Session]
    /\ DOMAIN disk \in SUBSET Sids
    /\ disk \in [DOMAIN disk -> Session]
    /\ users \in [Buyers -> [acct : BOOLEAN, spent : Nat]]
    /\ refunds \in [Buyers -> Seq(Sids)]
    /\ busy \in BOOLEAN
    /\ chat \in [Requests -> Chat]
    /\ settler \in [Sids -> Settler]
    /\ verifies \in [Sids -> 0..MaxVerifies]
    /\ queue \in Seq(Job)
    /\ landed \in BOOLEAN
    /\ orphans \in SUBSET Job
    /\ note \in [Sids -> {"absent", "committed", "consumed"}]
    /\ paid \in [Sids -> Nat]
    /\ swept \in SUBSET Sids
    /\ served \in [Sids -> Nat]
    /\ crashes \in 0..MaxCrashes

NoChat == [phase |-> "idle", sid |-> None, tier |-> None, spent |-> 0, charge |-> 0]
NoSettler == [phase |-> "idle", who |-> "end", attempt |-> 0, charge |-> 0]

Init ==
    /\ place = [s \in Sids |-> "unused"]
    /\ order = [s \in Sids |-> [buyer |-> None, budget |-> 0]]
    /\ sess = [s \in Sids |-> NewSession]
    /\ disk = [s \in {} |-> NewSession]
    /\ users = [b \in Buyers |-> [acct |-> FALSE, spent |-> 0]]
    /\ refunds = [b \in Buyers |-> <<>>]
    /\ busy = FALSE
    /\ chat = [r \in Requests |-> NoChat]
    /\ settler = [s \in Sids |-> NoSettler]
    /\ verifies = [s \in Sids |-> 0]
    /\ queue = <<>>
    /\ landed = FALSE
    /\ orphans = {}
    /\ note = [s \in Sids |-> "absent"]
    /\ paid = [s \in Sids |-> 0]
    /\ swept = {}
    /\ served = [s \in Sids |-> 0]
    /\ crashes = 0

-----------------------------------------------------------------------------
(* POST /api/session/start *)

HasAccount(b) == users[b].acct
MayUseTier(b, t) == t \in GatedTiers => HasAccount(b)

StartSession(s, b, t, bal) ==
    /\ ~InTurn
    /\ place[s] = "unused"
    /\ MayUseTier(b, t)
    /\ bal >= MinHold[t]
    /\ place' = [place EXCEPT ![s] = "building"]
    /\ order' = [order EXCEPT ![s] = [buyer |-> b, budget |-> Lesser(Hold[t], bal)]]
    /\ queue' = Append(queue, RunBin("build", s, 0))
    /\ UNCHANGED <<sess, disk, chatVars, fileVars, settler,
                   verifies, landed, chainVars, history>>

\* build_escrow printed its parameters: the session exists and is on disk before
\* the buyer sees the escrow template
BuildOk(s) ==
    /\ ~InTurn
    /\ place[s] = "building" /\ Running("build", s)
    /\ BinExits
    /\ place' = [place EXCEPT ![s] = "live"]
    /\ sess' = [sess EXCEPT ![s] = NewSession]
    /\ UNCHANGED <<order, chatVars, fileVars, settler, verifies, chainVars, history>>
    /\ PersistSessions

BuildFail(s) ==
    /\ ~InTurn
    /\ place[s] = "building" /\ Running("build", s)
    /\ BinExits
    /\ place' = [place EXCEPT ![s] = "gone"]
    /\ UNCHANGED <<order, sess, disk, chatVars, fileVars,
                   settler, verifies, chainVars, history>>

-----------------------------------------------------------------------------
(* The buyer's wallet funds the hold; POST /api/session/escrow verifies it *)

\* external: the wallet consumes the template's request and the note commits
FundEscrow(s) ==
    /\ place[s] = "live"
    /\ note[s] = "absent"
    /\ note' = [note EXCEPT ![s] = "committed"]
    /\ UNCHANGED <<sessVars, chatVars, fileVars, settler, verifies, binVars,
                   orphans, paid, swept, history>>

EscrowReq(s) ==
    /\ ~InTurn
    /\ place[s] = "live"
    /\ verifies[s] < MaxVerifies
    /\ verifies' = [verifies EXCEPT ![s] = @ + 1]
    /\ queue' = Append(queue, RunBin("verify", s, 0))
    /\ UNCHANGED <<sessVars, chatVars, fileVars, settler, landed, chainVars, history>>

\* verify_escrow saw the note committed (its client may not have seen a
\* consumption that just happened)
TrustsTheClient(s) == TRUE
Confirmed(s) == note[s] # "absent"

VerifyOk(s) ==
    /\ ~InTurn
    /\ Running("verify", s)
    /\ Confirmed(s)
    /\ BinExits
    /\ sess' = [sess EXCEPT ![s].armed = TRUE]
    /\ UNCHANGED <<place, order, chatVars, fileVars, settler, verifies, chainVars, history>>
    /\ PersistSessions

\* poll window over, killed at 220 s, or no output: escrow_unconfirmed
VerifyFail(s) ==
    /\ ~InTurn
    /\ Running("verify", s)
    /\ BinExits
    /\ UNCHANGED <<sessVars, chatVars, fileVars, settler, verifies, chainVars, history>>

\* POST /api/auth/register
Register(b) ==
    /\ ~InTurn
    /\ ~HasAccount(b)
    /\ users' = [users EXCEPT ![b].acct = TRUE]
    /\ UNCHANGED <<sessVars, chatVars, refunds, settler, verifies,
                   binVars, chainVars, history>>

-----------------------------------------------------------------------------
(* POST /api/chat *)

UnderAnonCap(b) == HasAccount(b) \/ users[b].spent < AnonCap

NoLock == TRUE
PipelineFree == ~busy

\* the guards of /api/chat, then the answer pipeline starts; s.settling is not read
ChatStart(r, s, t) ==
    /\ ~InTurn
    /\ chat[r].phase = "idle"
    /\ place[s] = "live"
    /\ sess[s].armed
    /\ ~sess[s].settled
    /\ MayUseTier(order[s].buyer, t)
    /\ UnderAnonCap(order[s].buyer)
    /\ PipelineFree
    /\ busy' = TRUE
    /\ chat' = [chat EXCEPT ![r] = [phase |-> "answering", sid |-> s, tier |-> t,
                                    spent |-> sess[s].charged, charge |-> 0]]
    /\ UNCHANGED <<sessVars, fileVars, settler, verifies, binVars, chainVars, history>>

\* the finally block
KeepsTheLock(r) == chat' = [chat EXCEPT ![r] = NoChat] /\ busy' = busy
EndChat(r) ==
    /\ chat' = [chat EXCEPT ![r] = NoChat]
    /\ busy' = FALSE

\* rate-limited models, a rejected proof, a model mismatch, a missing key
ChatError(r) ==
    /\ ~InTurn
    /\ chat[r].phase = "answering"
    /\ EndChat(r)
    /\ UNCHANGED <<sessVars, fileVars, settler, verifies, binVars, chainVars, history>>

\* the two checks made when the answer is back, on the spend read before it
ForgetsTheHold(s, spent, c) == ~sess[s].settled
MayCharge(s, spent, c) ==
    /\ spent + c <= order[s].budget
    /\ ~sess[s].settled

\* 'hold_exhausted' or 'session already settled': no charge and no reply
ChatRefuse(r) ==
    /\ ~InTurn
    /\ chat[r].phase = "answering"
    /\ \E c \in ChargesOf[chat[r].tier] : ~MayCharge(chat[r].sid, chat[r].spent, c)
    /\ EndChat(r)
    /\ UNCHANGED <<sessVars, fileVars, settler, verifies, binVars, chainVars, history>>

\* the turn's first write: the charge is in sessions.json
ChatCharge(r, c) ==
    /\ ~InTurn
    /\ chat[r].phase = "answering"
    /\ c \in ChargesOf[chat[r].tier]
    /\ MayCharge(chat[r].sid, chat[r].spent, c)
    /\ sess' = [sess EXCEPT ![chat[r].sid].charged = @ + c]
    /\ chat' = [chat EXCEPT ![r].phase = "charged", ![r].charge = c]
    /\ UNCHANGED <<place, order, busy, fileVars, settler,
                   verifies, binVars, chainVars, history>>
    /\ PersistSessions

\* recordSpend, the second write: the charge counts in users.json
ChatCount(r) ==
    /\ chat[r].phase = "charged"
    /\ users' = [users EXCEPT ![order[chat[r].sid].buyer].spent = @ + chat[r].charge]
    /\ chat' = [chat EXCEPT ![r].phase = "counted"]
    /\ UNCHANGED <<sessVars, busy, refunds, settler, verifies, binVars, chainVars, history>>

\* the rest of the turn: the reply to the buyer, the lock released
ChatDeliver(r) ==
    /\ chat[r].phase = "counted"
    /\ served' = [served EXCEPT ![chat[r].sid] = @ + chat[r].charge]
    /\ EndChat(r)
    /\ UNCHANGED <<sessVars, fileVars, settler, verifies, binVars, chainVars, crashes>>

-----------------------------------------------------------------------------
(* Settlement: POST /api/session/end and the abandoned-session sweeper *)

AnyMaySettle(s) == place[s] = "live" /\ sess[s].armed /\ ~sess[s].settled
MaySettle(s) ==
    /\ place[s] = "live"
    /\ sess[s].armed
    /\ ~sess[s].settled
    /\ ~sess[s].settling

\* the settling flag goes up and the charge of the whole settlement is fixed
StartSettling(s, w) ==
    /\ sess' = [sess EXCEPT ![s].settling = TRUE]
    /\ settler' = [settler EXCEPT ![s] = [phase |-> "queued", who |-> w, attempt |-> 1,
                                          charge |-> sess[s].charged]]
    /\ queue' = Append(queue, RunBin("settle", s, sess[s].charged))

EndReq(s) ==
    /\ ~InTurn
    /\ MaySettle(s)
    /\ StartSettling(s, "end")
    /\ UNCHANGED <<place, order, disk, chatVars, fileVars,
                   verifies, landed, chainVars, history>>

\* the sweeper reaches a session whose lastActivity is two hours old; time is left
\* out, so any moment may be that late (a chat does not touch lastActivity at its start)
Sweep(s) ==
    /\ ~InTurn
    /\ MaySettle(s)
    /\ StartSettling(s, "sweep")
    /\ UNCHANGED <<place, order, disk, chatVars, fileVars,
                   verifies, landed, chainVars, history>>

\* the contract's script: the whole note is spent, c to the seller, the rest refunded
Consume(s, c) ==
    /\ note[s] = "committed"
    /\ c <= order[s].budget
    /\ note' = [note EXCEPT ![s] = "consumed"]
    /\ paid' = [paid EXCEPT ![s] = c]

\* settle_session's transaction is accepted by the chain
SettleLand(s) ==
    /\ Running("settle", s)
    /\ ~landed
    /\ Consume(s, Head(queue).charge)
    /\ landed' = TRUE
    /\ UNCHANGED <<sessVars, chatVars, fileVars, settler, verifies,
                   queue, orphans, swept, history>>

\* recordRefund: only when there is a refund note file
RecordAnyRefund(s, c) ==
    refunds' = [refunds EXCEPT ![order[s].buyer] = LastOf(Append(@, s), RefundCap)]
RecordRefund(s, c) ==
    refunds' = IF order[s].budget > c
               THEN [refunds EXCEPT ![order[s].buyer] = LastOf(Append(@, s), RefundCap)]
               ELSE refunds

\* settle_session reported success: the turn's first write is the refund file
SettleOk(s) ==
    /\ ~InTurn
    /\ Running("settle", s)
    /\ landed
    /\ BinExits
    /\ RecordRefund(s, Head(queue).charge)
    /\ settler' = [settler EXCEPT ![s].phase = "recorded"]
    /\ UNCHANGED <<sessVars, chatVars, users, verifies, chainVars, history>>

\* s.settled is set and s leaves the Map and the snapshot
EvictUnflagged(s) ==
    /\ place' = [place EXCEPT ![s] = "gone"]
    /\ sess' = [sess EXCEPT ![s].settling = FALSE]
    /\ PersistSessions
Evict(s) ==
    /\ place' = [place EXCEPT ![s] = "gone"]
    /\ sess' = [sess EXCEPT ![s].settled = TRUE, ![s].settling = FALSE]
    /\ PersistSessions

\* the rest of the turn: evict, then joao_sweep in the background
SettleEvict(s) ==
    /\ settler[s].phase = "recorded"
    /\ Evict(s)
    /\ settler' = [settler EXCEPT ![s] = NoSettler]
    /\ queue' = IF settler[s].charge > 0
                THEN Append(queue, RunBin("joao", s, settler[s].charge))
                ELSE queue
    /\ UNCHANGED <<order, chatVars, fileVars, verifies, landed, chainVars, history>>

\* ESCROW_SPENT_RE matches what the node says of a consumed note, and nothing else
AnyRefusal(s) == TRUE
EscrowSpent(s) == note[s] = "consumed"

\* "nullifiers already exist": an earlier attempt landed; evicted, no refund file
SettleSpent(s) ==
    /\ ~InTurn
    /\ Running("settle", s)
    /\ ~landed
    /\ EscrowSpent(s)
    /\ BinExits
    /\ Evict(s)
    /\ settler' = [settler EXCEPT ![s] = NoSettler]
    /\ UNCHANGED <<order, chatVars, fileVars, verifies, chainVars, history>>

OneTryTooMany(s) == settler[s].who = "end" /\ settler[s].attempt <= MaxAttempts
TriesAgain(s) == settler[s].who = "end" /\ settler[s].attempt < MaxAttempts

\* "non-canonical delta pending": /api/session/end waits and tries again
SettleWedged(s) ==
    /\ ~InTurn
    /\ Running("settle", s)
    /\ ~landed
    /\ TriesAgain(s)
    /\ BinExits
    /\ settler' = [settler EXCEPT ![s].phase = "waiting"]
    /\ UNCHANGED <<sessVars, chatVars, fileVars, verifies, chainVars, history>>

\* the backoff is over: the same charge again
SettleRetry(s) ==
    /\ ~InTurn
    /\ settler[s].phase = "waiting"
    /\ settler' = [settler EXCEPT ![s].phase = "queued", ![s].attempt = @ + 1]
    /\ queue' = Append(queue, RunBin("settle", s, settler[s].charge))
    /\ UNCHANGED <<sessVars, chatVars, fileVars, verifies, landed, chainVars, history>>

\* the finally blocks: the flag comes down, in memory only
KeepSettling(s) == sess' = sess
ReleaseSettling(s) == sess' = [sess EXCEPT ![s].settling = FALSE]

\* any other failure, the last wedge included, or the binary killed at 480 s, maybe
\* after its transaction went out: the flag comes down and nothing else changes
SettleFail(s) ==
    /\ ~InTurn
    /\ Running("settle", s)
    /\ BinExits
    /\ ReleaseSettling(s)
    /\ settler' = [settler EXCEPT ![s] = NoSettler]
    /\ UNCHANGED <<place, order, disk, chatVars, fileVars, verifies, chainVars, history>>

\* joao_sweep: its failure is not retried
JoaoExit(s, ok) ==
    /\ ~InTurn
    /\ Running("joao", s)
    /\ BinExits
    /\ swept' = IF ok THEN swept \union {s} ELSE swept
    /\ UNCHANGED <<sessVars, chatVars, fileVars, settler, verifies,
                   orphans, note, paid, history>>

-----------------------------------------------------------------------------
(* The bridge process dies and starts again; a running binary is orphaned *)

\* sessions.json is read back as it was written
Reload(s) == disk[s]

CrashRestart ==
    /\ crashes < MaxCrashes
    /\ crashes' = crashes + 1
    /\ sess' = [s \in Sids |-> IF s \in DOMAIN disk THEN Reload(s) ELSE sess[s]]
    /\ place' = [s \in Sids |-> IF s \in DOMAIN disk THEN "live"
                                ELSE IF place[s] = "unused" THEN "unused" ELSE "gone"]
    /\ busy' = FALSE
    /\ chat' = [r \in Requests |-> NoChat]
    /\ settler' = [s \in Sids |-> NoSettler]
    /\ queue' = <<>>
    /\ landed' = FALSE
    /\ orphans' = IF queue = <<>> THEN orphans ELSE orphans \union {Head(queue)}
    /\ UNCHANGED <<order, disk, fileVars, verifies, note, paid, swept, served>>

OrphanSettles(j) ==
    /\ j.kind = "settle"
    /\ Consume(j.sid, j.charge)
    /\ UNCHANGED <<sessVars, chatVars, fileVars, settler, verifies,
                   binVars, orphans, swept, history>>

OrphanExits(j) ==
    /\ orphans' = orphans \ {j}
    /\ swept' \in {swept, IF j.kind = "joao" THEN swept \union {j.sid} ELSE swept}
    /\ UNCHANGED <<sessVars, chatVars, fileVars, settler, verifies,
                   binVars, note, paid, history>>

-----------------------------------------------------------------------------
SessionStep(s) ==
    \/ \E b \in Buyers, t \in Tiers, bal \in Balances : StartSession(s, b, t, bal)
    \/ BuildOk(s) \/ BuildFail(s)
    \/ FundEscrow(s)
    \/ EscrowReq(s) \/ VerifyOk(s) \/ VerifyFail(s)
    \/ EndReq(s) \/ Sweep(s)
    \/ SettleLand(s) \/ SettleOk(s) \/ SettleEvict(s) \/ SettleSpent(s)
    \/ SettleWedged(s) \/ SettleRetry(s) \/ SettleFail(s)
    \/ \E ok \in BOOLEAN : JoaoExit(s, ok)

ChatStep(r) ==
    \/ \E s \in Sids, t \in Tiers : ChatStart(r, s, t)
    \/ ChatError(r) \/ ChatRefuse(r) \/ ChatCount(r) \/ ChatDeliver(r)
    \/ \E c \in 0..MaxCharge : ChatCharge(r, c)

Next ==
    \/ \E s \in Sids : SessionStep(s)
    \/ \E r \in Requests : ChatStep(r)
    \/ \E b \in Buyers : Register(b)
    \/ CrashRestart
    \/ \E j \in orphans : OrphanSettles(j) \/ OrphanExits(j)

Spec == Init /\ [][Next]_vars

(* Every binary ends (run() kills it at its time limit), every answer pipeline
   ends, a turn that has begun is finished, the backoff and the sweeper's timer
   fire, and a settlement submitted again and again is not refused for ever.
   Nothing is assumed of the buyers. *)
BinEnds(s) ==
    \/ BuildOk(s) \/ BuildFail(s) \/ VerifyOk(s) \/ VerifyFail(s)
    \/ SettleOk(s) \/ SettleSpent(s) \/ SettleWedged(s) \/ SettleFail(s)
    \/ \E ok \in BOOLEAN : JoaoExit(s, ok)
AnswerEnds(r) == ChatError(r) \/ ChatRefuse(r) \/ \E c \in 0..MaxCharge : ChatCharge(r, c)

Fairness ==
    /\ WF_vars(\E s \in Sids : BinEnds(s))
    /\ \A r \in Requests : WF_vars(AnswerEnds(r)) /\ WF_vars(ChatCount(r)) /\ WF_vars(ChatDeliver(r))
    /\ \A s \in Sids : /\ WF_vars(SettleEvict(s))
                      /\ WF_vars(SettleRetry(s))
                      /\ WF_vars(Sweep(s))
                      /\ SF_vars(SettleLand(s))

FairSpec == Spec /\ Fairness

-----------------------------------------------------------------------------
(* Safety *)

\* What a session has been charged, on disk and in every settlement under way as
\* well as in memory, never exceeds its hold: the spend read before the answer is
\* still the spend when the answer is back (chat, lines 507-515).
HoldCoversCharges ==
    /\ \A s \in Sids : sess[s].charged <= order[s].budget
    /\ \A s \in DOMAIN disk : disk[s].charged <= order[s].budget
    /\ \A i \in DOMAIN queue : queue[i].charge <= order[queue[i].sid].budget
    /\ \A j \in orphans : j.charge <= order[j.sid].budget

\* A reply reaches the buyer only after its charge is in sessions.json, so a crash
\* never turns delivered replies into free ones.
ChargeIsDurableFirst ==
    \A s \in Sids : place[s] = "live" =>
        /\ s \in DOMAIN disk
        /\ served[s] <= disk[s].charged

\* Paid chat runs, is charged for and is settled only against a note the chain has:
\* "Serving inference against a note the client merely claims exists".
EscrowBacked ==
    /\ \A s \in Sids : sess[s].armed \/ sess[s].charged > 0 => note[s] # "absent"
    /\ \A r \in Requests : chat[r].phase # "idle" => note[chat[r].sid] # "absent"

\* "One settle per session at a time": whatever the retries and the sweeper do, the
\* queue of this bridge never holds two settlements of a session, nor one of an
\* evicted session.  A binary that outlived a crash is in no queue and may still run
\* beside the new one; that it pays nothing twice is ImplementsLedger.
OneSettlePerSession ==
    \A i, j \in DOMAIN queue :
        queue[i].kind = "settle" =>
            /\ place[queue[i].sid] = "live" /\ sess[queue[i].sid].settling
            /\ queue[j].kind = "settle" /\ queue[j].sid = queue[i].sid => i = j

\* The bridge drops a session that was armed only when its hold has been released:
\* until then the session stays in the Map, crash or no crash.  Being in the Map is
\* not being settled: a crash can bring back a session with its settling flag up,
\* which nothing settles any more (ArmedHoldReleased is for runs without a crash).
EvictionStrandsNothing ==
    \A s \in Sids : sess[s].armed /\ place[s] = "gone" => note[s] = "consumed"

\* The seller is paid only for replies that were sent, but for the one reply a
\* crash between its charge and its delivery can take away.
PaysForRepliesSent ==
    \A s \in Sids : paid[s] <= served[s] + crashes * MaxCharge

\* A refund file stands for a refund the chain made to that buyer, once.
RefundFilesAreReal ==
    \A b \in Buyers : \A i, j \in DOMAIN refunds[b] :
        LET s == refunds[b][i] IN
        /\ order[s].buyer = b /\ note[s] = "consumed" /\ paid[s] < order[s].budget
        /\ refunds[b][j] = s => i = j

\* Anonymous spend stays below the cap plus one reply, however many chats and
\* sessions compete: the cap is read before the answer and not after it.
AnonOverrunIsOneReply ==
    \A b \in Buyers : ~HasAccount(b) => users[b].spent < AnonCap + MaxCharge

\* A reply that finishes after its session settled is refused, not given away.
NoReplyAfterSettling ==
    [][\A s \in Sids : served'[s] # served[s] => place[s] = "live" /\ ~sess[s].settled]_vars

-----------------------------------------------------------------------------
(* The bridge implements the ledger of holds: what a session is billed is what its
   object, or its record on disk after a crash, says; the note is the hold. *)
HoldOf(n) == CASE n = "absent" -> "none" [] n = "committed" -> "held" [] n = "consumed" -> "released"

Ledger == INSTANCE HoldLedger WITH
    cap    <- [s \in Sids |-> order[s].budget],
    hold   <- [s \in Sids |-> HoldOf(note[s])],
    billed <- [s \in Sids |-> sess[s].charged],
    paid   <- paid

\* No sequence of requests, retries, sweeps and crashes breaks the promise.
ImplementsLedger == Ledger!Spec

-----------------------------------------------------------------------------
(* The inductive invariant behind these properties *)

\* A session nobody has a template of yet is new, and nobody can have funded it.
FreshIsNew ==
    \A s \in Sids :
        /\ place[s] \in {"unused", "building"} =>
               ~sess[s].armed /\ sess[s].charged = 0 /\ note[s] = "absent"
        /\ place[s] = "unused" => order[s].budget = 0

\* The snapshot holds exactly the sessions of the Map; only their flags may be behind.
SnapshotIsCurrent ==
    /\ DOMAIN disk = {s \in Sids : place[s] = "live"}
    /\ \A s \in DOMAIN disk :
           disk[s].charged = sess[s].charged /\ disk[s].armed = sess[s].armed

\* At most one chat holds the pipeline, and the spend it read is still the spend.
OneChatAtATime ==
    /\ \A r \in Requests : chat[r].phase # "idle" =>
           busy /\ chat[r].sid \in Sids /\ note[chat[r].sid] # "absent"
    /\ \A q, r \in Requests : chat[q].phase # "idle" /\ chat[r].phase # "idle" => q = r
    /\ \A r \in Requests : chat[r].phase = "answering" =>
           chat[r].spent = sess[chat[r].sid].charged
    /\ \A r \in Requests : MidTurn(r) =>
           served[chat[r].sid] + chat[r].charge <= sess[chat[r].sid].charged

BillsAreBacked ==
    \A s \in Sids :
        /\ served[s] <= sess[s].charged
        /\ sess[s].charged <= order[s].budget
        /\ sess[s].armed \/ sess[s].charged > 0 => note[s] # "absent"

\* No settlement under way asks for more than the session was charged.
SettlesWhatWasCharged ==
    /\ \A i \in 1..Len(queue) : queue[i].charge <= sess[queue[i].sid].charged
    /\ \A j \in orphans : j.charge <= sess[j.sid].charged
    /\ \A s \in Sids : settler[s].charge <= sess[s].charged

BillingInv ==
    /\ FreshIsNew
    /\ SnapshotIsCurrent
    /\ OneChatAtATime
    /\ BillsAreBacked
    /\ SettlesWhatWasCharged

\* A turn is never entered twice, and the session of a chat in flight is in the Map
\* or was settled: what NoReplyAfterSettling rests on.
TurnInv ==
    /\ \A r \in Requests : chat[r].phase = "answering" =>
           \/ place[chat[r].sid] = "live"
           \/ place[chat[r].sid] = "gone" /\ sess[chat[r].sid].settled
    /\ \A r \in Requests : MidTurn(r) =>
           /\ place[chat[r].sid] = "live" /\ ~sess[chat[r].sid].settled
           /\ \A s \in Sids : settler[s].phase # "recorded"

-----------------------------------------------------------------------------
(* Liveness, under FairSpec *)

\* An armed session's hold is always released, by the buyer's settle or by the
\* sweeper, whatever the buyer does.
ArmedHoldReleased == \A s \in Sids : sess[s].armed ~> note[s] = "consumed"

\* The answer pipeline's lock is always given back.
PipelineFreed == busy ~> ~busy

-----------------------------------------------------------------------------
(* What comments and tests of the repository say and the code does not do *)

\* test/server.test.mjs: a reply in flight when the session settles is refused, not
\* free.  Without crashes, a released hold has paid for every reply sent.
NoFreeReply == \A s \in Sids : note[s] = "consumed" => served[s] <= paid[s]

\* server.js: no crash or closed tab strands an escrowed hold.
FundedHoldReleased == \A s \in Sids : note[s] = "committed" ~> note[s] = "consumed"

\* server.js: a buyer whose browser dies mid-settle still finds the refund file.
RefundFileKept ==
    \A s \in Sids : sess[s].settled /\ paid[s] < order[s].budget =>
        \E i \in DOMAIN refunds[order[s].buyer] : refunds[order[s].buyer][i] = s

=============================================================================
