------------------------ MODULE AnswerPipeline_proofs ------------------------
(***************************************************************************)
(* Theorems about AnswerPipeline, for every set of chats, tiers and models, *)
(* every number of calls and crashes.                                       *)
(***************************************************************************)
EXTENDS AnswerPipeline, TLAPS

-----------------------------------------------------------------------------
(* The inductive invariant *)

\* Whatever a file, a program or an answer names is a call that was made.
Known ==
    /\ \A p \in 0..MaxCrashes :
           /\ procs[p].call \in Calls
           /\ procs[p].proof.attestation \in Calls /\ procs[p].proof.secrets \in Calls
           /\ procs[p].at = "request" => procs[p].chat \in Chats
    /\ files.response \in Calls /\ files.attestation \in Calls /\ files.secrets \in Calls
    /\ files.presentation.attestation \in Calls /\ files.presentation.secrets \in Calls
    /\ \A a \in answers : a.proof \in Calls \ {0} /\ a.text \in Calls

\* The run and its program fit: the stage, the model that was asked for, and the
\* proof an oracle that exited 0 has verified.
StageOf(at) ==
    CASE at \in {"load", "store"} -> "present"
      [] at = "verify" -> "oracle"
      [] OTHER -> "prove"

RunInv ==
    /\ run.stage = "idle" => procs[0] = NoProcess
    /\ run.stage # "idle" =>
           /\ run.tier \in Tiers
           /\ run.try \in 1..Len(Models[run.tier])
           /\ procs[0].model = Models[run.tier][run.try]
    /\ procs[0].at \notin Ended => run.stage = StageOf(procs[0].at)
    /\ run.stage = "oracle" /\ ExitOk =>
           procs[0].proof.attestation # 0 /\ calls[procs[0].proof.attestation].ok

PipeInv == TypeOK /\ Known /\ RunInv

\* What a clean run finds in the files as it goes (prove.rs:154-215,
\* present.rs:16-82).
Whole(c) == [attestation |-> c, secrets |-> c]

CleanInv ==
    run.stage # "idle" /\ run.clean =>
        /\ \A p \in 1..MaxCrashes : procs[p].at \in Ended
        /\ procs[0].call # 0 => calls[procs[0].call].chat = run.chat
        /\ run.stage = "prove" => procs[0].chat = run.chat
        /\ procs[0].at \in {"saved", "attested"} => files.response = procs[0].call
        /\ procs[0].at = "attested" => files.attestation = procs[0].call
        /\ procs[0].at \in {"answered", "saved", "attested"} => procs[0].call # 0
        /\ (run.stage = "prove" /\ ExitOk) \/ run.stage \in {"present", "oracle"} =>
               /\ procs[0].call # 0
               /\ files.response = procs[0].call
               /\ files.attestation = procs[0].call
               /\ files.secrets = procs[0].call
        /\ procs[0].at = "store" \/ (run.stage = "oracle" /\ ExitOk) => procs[0].proof = Whole(procs[0].call)
        /\ (run.stage = "present" /\ ExitOk) \/ run.stage = "oracle" => files.presentation = Whole(procs[0].call)

-----------------------------------------------------------------------------
(* Types *)

Places == {"request", "answered", "saved", "attested", "load", "store", "verify"} \union Ended
CallRecord == [chat : Chats, ok : BOOLEAN, served : Served \union {None}, tokens : Nat]

\* The program of process p is one of the three, wherever it is.
LEMMA ProcessType ==
    ASSUME TypeOK, NEW p \in 0..MaxCrashes
    PROVE  /\ procs[p] \in Process
           /\ procs[p].at \in Places
           /\ procs[p].chat \in Chats \union {None}
           /\ procs[p].model \in Served \union {None}
           /\ procs[p].call \in Nat
           /\ procs[p].proof \in Proof
BY DEF TypeOK, Process, Places

\* The bridge's own child is process 0.
LEMMA Child == 0 \in 0..MaxCrashes
BY PipelineAssumption

\* The models of a tier are served models, at least one.
LEMMA ModelType ==
    ASSUME NEW t \in Tiers
    PROVE  /\ Len(Models[t]) \in Nat \ {0}
           /\ 1 \in 1..Len(Models[t])
           /\ \A i \in 1..Len(Models[t]) : Models[t][i] \in Served
<1>1. Models[t] \in Seq(Served) /\ Models[t] # <<>>
  BY PipelineAssumption
<1>2. Len(Models[t]) \in Nat \ {0}
  BY <1>1
<1> QED
  BY <1>1, <1>2

\* A program that goes on keeps its record.
LEMMA GoesType ==
    ASSUME TypeOK, NEW p \in 0..MaxCrashes, NEW at \in Places, Goes(p, at)
    PROVE  procs' \in [0..MaxCrashes -> Process]
BY ProcessType DEF TypeOK, Goes, Process, Places

\* What a step writes into the record of a program leaves it well typed.
LEMMA ProcessUpdate ==
    ASSUME NEW r \in Process, NEW at \in Places, NEW c \in Nat, NEW pi \in Proof
    PROVE  /\ [r EXCEPT !.at = at, !.call = c] \in Process
           /\ [r EXCEPT !.at = at, !.proof = pi] \in Process
BY DEF Process, Places

LEMMA IdleType == NoProcess \in Process /\ NoProof \in Proof /\ Idle \in Run
BY DEF NoProcess, Process, Ended, NoProof, Proof, Idle, Run

\* The calls only grow, so what a call was is what it stays.
LEMMA CallsGrow ==
    ASSUME TypeOK, [Next]_vars
    PROVE  /\ Calls \subseteq Calls'
           /\ \A c \in Calls \ {0} : calls'[c] = calls[c] /\ calls[c] \in CallRecord
           /\ Len(calls) \in Nat
<1>1. calls \in Seq(CallRecord) /\ Len(calls) \in Nat
  BY DEF TypeOK, CallRecord
<1>2. CASE UNCHANGED calls
  BY <1>1, <1>2 DEF Calls
<1>3. CASE \E r : calls' = Append(calls, r)
  <2>1. PICK r : calls' = Append(calls, r)
    BY <1>3
  <2>2. Len(calls') = Len(calls) + 1 /\ \A c \in 1..Len(calls) : calls'[c] = calls[c]
    BY <1>1, <2>1
  <2> QED
    BY <1>1, <2>2 DEF Calls
<1>4. UNCHANGED calls \/ \E r : calls' = Append(calls, r)
  BY DEF Next, vars, ProgramStep, BridgeStep, Respond, SaveResponse, SaveAttestation, SaveSecrets,
         LoadProof, StorePresentation, Verify, Fails, Ask, Proved, TryNext, AllBusy, Presented,
         Answer, Rejected, CrashRestart
<1> QED
  BY <1>2, <1>3, <1>4
-----------------------------------------------------------------------------
(* Type correctness, and what every program and file names *)

\* The response that came in: one more call, of the chat of its program.
LEMMA Answered ==
    ASSUME PipeInv, NEW p \in 0..MaxCrashes, Respond(p)
    PROVE  /\ calls' \in Seq(CallRecord)
           /\ Len(calls') = Len(calls) + 1
           /\ Len(calls) + 1 \in Calls' \ {0}
           /\ calls'[Len(calls) + 1].chat = procs[p].chat
<1>1. calls \in Seq(CallRecord) /\ Len(calls) \in Nat
  BY DEF PipeInv, TypeOK, CallRecord
<1>2. procs[p].chat \in Chats
  BY DEF PipeInv, Known, Respond
<1>3. PICK r \in CallRecord : calls' = Append(calls, r) /\ r.chat = procs[p].chat
  <2>1. CASE calls' = Append(calls, [chat |-> procs[p].chat, ok |-> FALSE, served |-> None, tokens |-> 0])
    <3> DEFINE r == [chat |-> procs[p].chat, ok |-> FALSE, served |-> None, tokens |-> 0]
    <3>1. r \in CallRecord /\ r.chat = procs[p].chat
      BY <1>2 DEF CallRecord
    <3> QED
      BY <2>1, <3>1
  <2>2. ASSUME NEW m \in Served, NEW t \in Tokens,
               calls' = Append(calls, [chat |-> procs[p].chat, ok |-> TRUE, served |-> m, tokens |-> t])
        PROVE  \E r \in CallRecord : calls' = Append(calls, r) /\ r.chat = procs[p].chat
    <3> DEFINE r == [chat |-> procs[p].chat, ok |-> TRUE, served |-> m, tokens |-> t]
    <3>1. r \in CallRecord /\ r.chat = procs[p].chat
      BY <1>2, PipelineAssumption DEF CallRecord
    <3> QED
      BY <2>2, <3>1
  <2> QED
    BY <2>1, <2>2 DEF Respond
<1> QED
  BY <1>1, <1>3 DEF Calls

LEMMA TypingRespond ==
    ASSUME PipeInv, NEW p \in 0..MaxCrashes, Respond(p)
    PROVE  PipeInv'
<1> USE DEF PipeInv
<1>1. /\ procs' = [procs EXCEPT ![p] = [@ EXCEPT !.at = "answered", !.call = Len(calls) + 1]]
      /\ UNCHANGED <<run, files, answers, asked, crashes>>
      /\ Len(calls) \in Nat /\ Len(calls) < MaxCalls /\ procs[p].at = "request"
  BY DEF Respond, TypeOK
<1>2. procs' \in [0..MaxCrashes -> Process]
  <2> DEFINE x == [procs[p] EXCEPT !.at = "answered", !.call = Len(calls) + 1]
  <2>0. "answered" \in Places /\ Len(calls) + 1 \in Nat /\ NoProof \in Proof
    BY <1>1, IdleType DEF Places
  <2>1. x \in Process
    BY <2>0, ProcessType, ProcessUpdate
  <2>2. procs' = [procs EXCEPT ![p] = x]
    BY <1>1 DEF TypeOK
  <2> HIDE DEF x
  <2> QED
    BY <2>1, <2>2 DEF TypeOK
<1>3. TypeOK'
  <2>1. calls' \in Seq(CallRecord) /\ Len(calls') <= MaxCalls
    BY <1>1, Answered, PipelineAssumption
  <2> QED
    BY <1>1, <1>2, <2>1 DEF TypeOK, CallRecord
<1>4. Calls \subseteq Calls' /\ \A c \in Calls \ {0} : calls'[c] = calls[c]
  BY CallsGrow DEF Next, ProgramStep
<1>5. \A q \in 0..MaxCrashes :
          /\ procs'[q].call \in {procs[q].call, Len(calls) + 1}
          /\ procs'[q].proof = procs[q].proof
          /\ procs'[q].model = procs[q].model
          /\ procs'[q].at \in {procs[q].at, "answered"}
          /\ procs'[q].chat = procs[q].chat
  BY <1>1, ProcessType DEF TypeOK, Process
<1>6. Known'
  BY <1>1, <1>4, <1>5, Answered DEF Known
<1>7. RunInv'
  <2>1. 0 \in 0..MaxCrashes /\ procs'[0].model = procs[0].model
    BY <1>5, Child
  <2>2. run.stage = "idle" => procs'[0] = NoProcess
    BY <1>1, Child DEF RunInv, NoProcess, TypeOK
  <2>3. procs'[0].at \notin Ended => run.stage = StageOf(procs'[0].at)
    BY <1>1, Child DEF RunInv, StageOf, TypeOK, Ended
  <2>4. run.stage = "oracle" /\ procs'[0].at = "exit0" =>
            procs'[0].proof.attestation # 0 /\ calls'[procs'[0].proof.attestation].ok
    BY <1>1, <1>4, <1>5, Child DEF RunInv, ExitOk, Known, TypeOK
  <2> QED
    BY <1>1, <2>1, <2>2, <2>3, <2>4 DEF RunInv, ExitOk
<1> QED
  BY <1>3, <1>6, <1>7
Files == [response : Nat, attestation : Nat, secrets : Nat, presentation : Proof]

FilesKnown ==
    /\ files \in Files
    /\ files.response \in Calls /\ files.attestation \in Calls /\ files.secrets \in Calls
    /\ files.presentation.attestation \in Calls /\ files.presentation.secrets \in Calls

\* A program that goes on in its own stage, with a proof of known calls.
LEMMA TypingGoesOn ==
    ASSUME PipeInv, NEW p \in 0..MaxCrashes, NEW x \in Process,
           procs[p].at \notin Ended,
           procs' = [procs EXCEPT ![p] = x],
           x.chat = procs[p].chat, x.model = procs[p].model, x.call = procs[p].call,
           x.at # "request",
           x.at \in {"exit0", "failed"} \/ StageOf(x.at) = StageOf(procs[p].at),
           x.proof.attestation \in Calls, x.proof.secrets \in Calls,
           procs[p].at = "verify" /\ x.at = "exit0" =>
               x.proof.attestation # 0 /\ calls[x.proof.attestation].ok,
           FilesKnown',
           UNCHANGED <<run, calls, answers, asked, crashes>>
    PROVE  PipeInv'
<1>1. procs' \in [0..MaxCrashes -> Process]
  BY DEF PipeInv, TypeOK
<1>2. TypeOK'
  BY <1>1 DEF PipeInv, TypeOK, FilesKnown, Files
<1>3. \A q \in 0..MaxCrashes : procs'[q] = IF q = p THEN x ELSE procs[q]
  BY DEF PipeInv, TypeOK
<1>4. Calls' = Calls
  BY DEF Calls
<1>5. Known'
  BY <1>3, <1>4 DEF PipeInv, Known, FilesKnown
<1>6. RunInv'
  <2>1. CASE p # 0
    BY <2>1, <1>3, Child DEF PipeInv, RunInv, ExitOk
  <2>2. CASE p = 0
    <3>1. procs'[0] = x /\ run' = run /\ calls' = calls
      BY <2>2, <1>3, Child
    <3>2. run.stage = StageOf(procs[0].at) /\ run.stage # "idle"
      BY <2>2 DEF PipeInv, RunInv, NoProcess, Ended
    <3>3. x.at \notin Ended => run.stage = StageOf(x.at)
      BY <2>2, <3>2 DEF Ended
    <3>4. run.stage = "oracle" /\ x.at = "exit0" => procs[0].at = "verify"
      BY <3>2 DEF StageOf
    <3> QED
      BY <2>2, <3>1, <3>2, <3>3, <3>4 DEF PipeInv, RunInv, ExitOk
  <2> QED
    BY <2>1, <2>2
<1> QED
  BY <1>2, <1>5, <1>6 DEF PipeInv

\* Going on changes the place and nothing else of the record.
LEMMA GoesRecord ==
    ASSUME PipeInv, NEW p \in 0..MaxCrashes, NEW at \in Places, Goes(p, at)
    PROVE  \E x \in Process :
               /\ procs' = [procs EXCEPT ![p] = x]
               /\ x.at = at
               /\ x.chat = procs[p].chat /\ x.model = procs[p].model
               /\ x.call = procs[p].call /\ x.proof = procs[p].proof
<1> DEFINE x == [procs[p] EXCEPT !.at = at]
<1>1. procs[p] \in Process
  BY ProcessType DEF PipeInv
<1>2. x \in Process
  BY <1>1 DEF Process, Places
<1>3. /\ x.at = at
      /\ x.chat = procs[p].chat /\ x.model = procs[p].model
      /\ x.call = procs[p].call /\ x.proof = procs[p].proof
  BY <1>1 DEF Process
<1>4. procs' = [procs EXCEPT ![p] = x]
  BY DEF Goes
<1> QED
  BY <1>2, <1>3, <1>4

LEMMA TypingPrograms ==
    ASSUME PipeInv, NEW p \in 0..MaxCrashes, ProgramStep(p)
    PROVE  PipeInv'
<1>1. /\ files \in Files /\ FilesKnown
      /\ procs[p] \in Process /\ procs[p].call \in Calls
      /\ procs[p].proof \in Proof
      /\ procs[p].proof.attestation \in Calls /\ procs[p].proof.secrets \in Calls
  BY ProcessType DEF PipeInv, TypeOK, Files, Known, FilesKnown
<1>2. Calls \subseteq Nat
  BY DEF Calls
<1>3. ASSUME NEW at \in Places, Goes(p, at), procs[p].at \notin Ended, at # "request",
             at \in {"exit0", "failed"} \/ StageOf(at) = StageOf(procs[p].at),
             ~(procs[p].at = "verify" /\ at = "exit0"),
             FilesKnown', UNCHANGED <<run, calls, answers, asked, crashes>>
      PROVE  PipeInv'
  <2>1. PICK x \in Process :
               /\ procs' = [procs EXCEPT ![p] = x]
               /\ x.at = at
               /\ x.chat = procs[p].chat /\ x.model = procs[p].model
               /\ x.call = procs[p].call /\ x.proof = procs[p].proof
    BY <1>3, GoesRecord
  <2> QED
    BY <1>1, <1>3, <2>1, TypingGoesOn
<1>4. CASE Respond(p)
  BY <1>4, TypingRespond
<1>5. CASE SaveResponse(p)
  <2>1. FilesKnown'
    BY <1>1, <1>2, <1>5 DEF SaveResponse, FilesKnown, Files, Calls
  <2>2. procs[p].at \notin Ended /\ StageOf("saved") = StageOf(procs[p].at) /\ "saved" \in Places
    BY <1>5 DEF SaveResponse, Ended, StageOf, Places
  <2> QED
    BY <1>3, <1>5, <2>1, <2>2 DEF SaveResponse
<1>6. CASE SaveAttestation(p)
  <2>1. FilesKnown'
    BY <1>1, <1>2, <1>6 DEF SaveAttestation, Attested, FilesKnown, Files, Calls
  <2>2. procs[p].at \notin Ended /\ StageOf("attested") = StageOf(procs[p].at) /\ "attested" \in Places
    BY <1>6 DEF SaveAttestation, Ended, StageOf, Places
  <2> QED
    BY <1>3, <1>6, <2>1, <2>2 DEF SaveAttestation
<1>7. CASE SaveSecrets(p)
  <2>1. FilesKnown'
    BY <1>1, <1>2, <1>7 DEF SaveSecrets, FilesKnown, Files, Calls
  <2>2. procs[p].at \notin Ended /\ procs[p].at # "verify" /\ "exit0" \in Places
    BY <1>7 DEF SaveSecrets, Ended, Places
  <2> QED
    BY <1>3, <1>7, <2>1, <2>2 DEF SaveSecrets
<1>8. CASE StorePresentation(p)
  <2>1. FilesKnown'
    BY <1>1, <1>2, <1>8 DEF StorePresentation, Overwrites, FilesKnown, Files, Calls
  <2>2. procs[p].at \notin Ended /\ procs[p].at # "verify" /\ "exit0" \in Places
    BY <1>8 DEF StorePresentation, Ended, Places
  <2> QED
    BY <1>3, <1>8, <2>1, <2>2 DEF StorePresentation
<1>9. CASE Fails(p)
  <2>1. FilesKnown' /\ "failed" \in Places
    BY <1>1, <1>9 DEF Fails, FilesKnown, Calls, Places, Ended
  <2> QED
    BY <1>3, <1>9, <2>1 DEF Fails
<1>10. CASE LoadProof(p)
  <2> DEFINE pi == [attestation |-> files.attestation, secrets |-> files.secrets]
             x == [procs[p] EXCEPT !.at = "store", !.proof = pi]
  <2>1. pi \in Proof /\ pi.attestation \in Calls /\ pi.secrets \in Calls /\ "store" \in Places
    BY <1>1, <1>2 DEF Proof, FilesKnown, Places
  <2> HIDE DEF pi
  <2>2. x \in Process /\ 0 \in Nat
    BY <1>1, <2>1, ProcessUpdate
  <2>3. x.at = "store" /\ x.proof = pi /\ x.chat = procs[p].chat /\ x.model = procs[p].model /\ x.call = procs[p].call
    BY <1>1 DEF Process
  <2>4. procs' = [procs EXCEPT ![p] = x]
    BY <1>10 DEF LoadProof, pi
  <2>5. procs[p].at \notin Ended /\ StageOf("store") = StageOf(procs[p].at)
    BY <1>10 DEF LoadProof, Ended, StageOf
  <2>6. FilesKnown' /\ UNCHANGED <<run, calls, answers, asked, crashes>>
    BY <1>1, <1>10 DEF LoadProof, FilesKnown, Calls
  <2> HIDE DEF x
  <2> QED
    BY <2>1, <2>2, <2>3, <2>4, <2>5, <2>6, TypingGoesOn
<1>11. CASE Verify(p)
  <2> DEFINE x == [procs[p] EXCEPT !.at = "exit0", !.proof = files.presentation]
  <2>1. files.presentation \in Proof /\ "exit0" \in Places /\ 0 \in Nat
    BY <1>1 DEF Files, Places, Ended
  <2>2. x \in Process
    BY <1>1, <2>1, ProcessUpdate
  <2>3. x.at = "exit0" /\ x.proof = files.presentation /\ x.chat = procs[p].chat /\ x.model = procs[p].model /\ x.call = procs[p].call
    BY <1>1 DEF Process
  <2>4. procs' = [procs EXCEPT ![p] = x]
    BY <1>11 DEF Verify
  <2>5. procs[p].at \notin Ended
    BY <1>11 DEF Verify, Ended
  <2>6. FilesKnown' /\ UNCHANGED <<run, calls, answers, asked, crashes>>
    BY <1>1, <1>11 DEF Verify, FilesKnown, Calls
  <2>7. x.proof.attestation # 0 /\ calls[x.proof.attestation].ok
    BY <1>11, <2>3 DEF Verify, Genuine, Discloses
  <2>8. x.proof.attestation \in Calls /\ x.proof.secrets \in Calls
    BY <1>1, <2>3 DEF FilesKnown
  <2> HIDE DEF x
  <2> QED
    BY <2>1, <2>2, <2>3, <2>4, <2>5, <2>6, <2>7, <2>8, TypingGoesOn
<1> QED
  BY <1>4, <1>5, <1>6, <1>7, <1>8, <1>9, <1>10, <1>11 DEF ProgramStep
\* The oracle's charge is the nearest whole number of units, and a unit for
\* whatever would round to nothing (oracle.rs:128-132).
LEMMA Nearest ==
    ASSUME NEW x \in Nat, NEW d \in Nat \ {0}
    PROVE  LET c == (x + d \div 2) \div d
           IN  /\ c \in Nat
               /\ -d <= 2 * (c * d - x)
               /\ 2 * (c * d - x) <= d
<1> DEFINE h == d \div 2
           c == (x + h) \div d
<1>1. h \in Nat /\ 2 * h <= d /\ d <= 2 * h + 1
  OBVIOUS
<1> HIDE DEF h
<1>2. x + h \in Nat /\ c \in Nat
  BY <1>1
<1>3. c * d <= x + h /\ x + h < c * d + d
  BY <1>1
<1>4. c * d \in Nat
  BY <1>2
<1>5. -d <= 2 * (c * d - x) /\ 2 * (c * d - x) <= d
  <2> DEFINE y == c * d
  <2>1. y \in Nat /\ y <= x + h /\ x + h < y + d
    BY <1>3, <1>4
  <2> HIDE DEF y
  <2>2. -d <= 2 * (y - x) /\ 2 * (y - x) <= d
    BY <1>1, <2>1
  <2> QED
    BY <2>2 DEF y
<1> QED
  BY <1>2, <1>5 DEF h

LEMMA ChargeType ==
    ASSUME NEW tokens \in Nat, NEW price \in Nat
    PROVE  /\ OracleCharge(tokens, price) \in Nat
           /\ LET error == 2 * (OracleCharge(tokens, price) * Denom - tokens * price)
              IN  (-Denom <= error /\ error <= Denom) \/ OracleCharge(tokens, price) = 1
           /\ tokens * price > 0 => OracleCharge(tokens, price) > 0
<1> DEFINE x == tokens * price
           c == (x + Denom \div 2) \div Denom
<1>1. x \in Nat /\ (x > 0 => tokens > 0)
  OBVIOUS
<1>2. OracleCharge(tokens, price) = IF tokens > 0 /\ c = 0 THEN 1 ELSE c
  BY DEF OracleCharge
<1>3. c \in Nat /\ -Denom <= 2 * (c * Denom - x) /\ 2 * (c * Denom - x) <= Denom
  BY <1>1, Nearest, PipelineAssumption
<1> HIDE DEF c, x
<1>4. c # 0 => c > 0
  BY <1>3
<1>5. CASE tokens > 0 /\ c = 0
  BY <1>2, <1>5
<1>6. CASE ~(tokens > 0 /\ c = 0)
  BY <1>1, <1>2, <1>3, <1>4, <1>6 DEF x
<1> QED
  BY <1>5, <1>6

\* The bridge starts a program, ends a run, or dies.
LEMMA TypingBridge ==
    ASSUME PipeInv, BridgeStep \/ CrashRestart \/ \E c \in Chats, t \in Tiers : Ask(c, t)
    PROVE  PipeInv'
<1>1. /\ procs[0] \in Process /\ procs \in [0..MaxCrashes -> Process] /\ run \in Run
      /\ 0 \in 0..MaxCrashes
      /\ 0 \in Calls /\ 0 \in Nat
      /\ NoProcess \in Process /\ NoProof \in Proof /\ Idle \in Run
  BY Child, ProcessType, IdleType DEF PipeInv, TypeOK, Calls
<1>2. ASSUME NEW x \in Process, procs' = [procs EXCEPT ![0] = x],
             x.call \in Calls, x.proof.attestation \in Calls, x.proof.secrets \in Calls,
             x.at = "request" => x.chat \in Chats,
             run' \in Run, run'.stage = "idle" <=> run'.chat = None,
             UNCHANGED <<files, calls, answers>>, asked' \subseteq Chats, crashes' = crashes
      PROVE  TypeOK' /\ Known'
  <2>1. procs' \in [0..MaxCrashes -> Process] /\ \A q \in 0..MaxCrashes : procs'[q] = IF q = 0 THEN x ELSE procs[q]
    BY <1>1, <1>2
  <2>2. Calls' = Calls
    BY <1>2 DEF Calls
  <2> QED
    BY <1>2, <2>1, <2>2 DEF PipeInv, TypeOK, Known
<1>3. ASSUME Finished, UNCHANGED <<files, calls, answers, asked, crashes>> PROVE PipeInv'
  <2>1. run' = Idle /\ procs' = [procs EXCEPT ![0] = NoProcess] /\ procs'[0] = NoProcess
    BY <1>1, <1>3 DEF Finished
  <2>2. /\ NoProcess.call = 0 /\ NoProcess.proof.attestation = 0 /\ NoProcess.proof.secrets = 0
        /\ NoProcess.at = "none" /\ Idle.stage = "idle" /\ Idle.chat = None
    BY DEF NoProcess, NoProof, Idle
  <2>3. TypeOK' /\ Known'
    BY <1>1, <1>2, <1>3, <2>1, <2>2 DEF PipeInv, TypeOK
  <2> QED
    BY <2>1, <2>2, <2>3 DEF PipeInv, RunInv, Ended, ExitOk
<1>4. ASSUME NEW c \in Chats, NEW t \in Tiers, NEW i \in 1..Len(Models[t]), StartsProve(c, Models[t][i]),
             run' \in Run, run'.stage = "prove", run'.chat # None, run'.tier = t, run'.try = i,
             UNCHANGED <<files, calls, answers, crashes>>, asked' \subseteq Chats
      PROVE  PipeInv'
  <2> DEFINE x == [NoProcess EXCEPT !.at = "request", !.chat = c, !.model = Models[t][i]]
  <2>1. /\ x \in Process /\ x.at = "request" /\ x.chat = c /\ x.model = Models[t][i]
        /\ x.call = 0 /\ x.proof.attestation = 0 /\ x.proof.secrets = 0
    BY <1>1, ModelType DEF NoProcess, NoProof, Process, Proof, Ended
  <2>2. procs' = [procs EXCEPT ![0] = x]
    BY <1>4 DEF StartsProve
  <2> HIDE DEF x
  <2>3. procs'[0] = x
    BY <1>1, <2>2
  <2>4. TypeOK' /\ Known'
    BY <1>1, <1>2, <1>4, <2>1, <2>2
  <2>5. StageOf("request") = "prove"
    BY DEF StageOf
  <2> QED
    BY <1>4, <2>1, <2>3, <2>4, <2>5 DEF PipeInv, RunInv, Ended, ExitOk
<1>5. ASSUME NEW place \in {"load", "verify"}, Starts(place), run.stage # "idle",
             run' \in Run, run'.stage = StageOf(place), run'.chat = run.chat,
             run'.tier = run.tier, run'.try = run.try,
             UNCHANGED <<files, calls, answers, asked, crashes>>
      PROVE  PipeInv'
  <2> DEFINE x == [procs[0] EXCEPT !.at = place, !.proof = NoProof]
  <2>1. x \in Process
    BY <1>1, ProcessUpdate DEF Places
  <2>2. /\ x.at = place /\ x.model = procs[0].model /\ x.call = procs[0].call
        /\ x.proof.attestation = 0 /\ x.proof.secrets = 0
    BY <1>1 DEF Process, NoProof
  <2>3. procs' = [procs EXCEPT ![0] = x] /\ procs'[0] = x
    BY <1>1, <1>5 DEF Starts
  <2> HIDE DEF x
  <2>4. x.call \in Calls /\ x.at # "request" /\ place \notin Ended /\ run'.stage # "idle"
    BY <1>1, <1>5, <2>2 DEF PipeInv, Known, Ended, StageOf
  <2>5. TypeOK' /\ Known'
    BY <1>1, <1>2, <1>5, <2>1, <2>2, <2>3, <2>4 DEF PipeInv, TypeOK
  <2>6. RunInv'
    BY <1>1, <1>5, <2>2, <2>3, <2>4 DEF PipeInv, RunInv, ExitOk, Ended
  <2> QED
    BY <2>5, <2>6 DEF PipeInv
<1>6. ASSUME NEW c \in Chats, NEW t \in Tiers, Ask(c, t) PROVE PipeInv'
  <2>1. run' \in Run /\ run'.stage = "prove" /\ run'.chat = c /\ run'.tier = t /\ run'.try = 1
    BY <1>6 DEF Ask, Run
  <2>2. 1 \in 1..Len(Models[t]) /\ c # None
    BY ModelType, PipelineAssumption
  <2> QED
    BY <1>4, <1>6, <2>1, <2>2 DEF Ask, PipeInv, TypeOK
<1>7. CASE TryNext
  <2>1. /\ run.tier \in Tiers /\ run.try \in 1..Len(Models[run.tier]) /\ run.chat \in Chats
        /\ run.stage = "prove" /\ run.chat # None
    BY <1>1, <1>7 DEF TryNext, ChildIn, PipeInv, RunInv, TypeOK, Run
  <2>2. run.try + 1 \in 1..Len(Models[run.tier])
    BY <1>7, <2>1, ModelType DEF TryNext
  <2>3. /\ run' \in Run /\ run'.stage = "prove" /\ run'.chat = run.chat /\ run'.tier = run.tier
        /\ run'.try = run.try + 1
    BY <1>1, <1>7, <2>1, <2>2 DEF TryNext, NextTry, Run
  <2> QED
    BY <1>4, <1>7, <2>1, <2>2, <2>3 DEF TryNext, NextTry, PipeInv, TypeOK
<1>8. CASE Proved
  <2>1. /\ run' \in Run /\ run'.stage = "present" /\ run'.chat = run.chat /\ run'.tier = run.tier
        /\ run'.try = run.try /\ run.stage # "idle"
    BY <1>1, <1>8 DEF Proved, PresentNext, ChildIn, ExitOk, Run
  <2> QED
    BY <1>5, <1>8, <2>1 DEF Proved, PresentNext, StageOf
<1>9. CASE Presented
  <2>1. /\ run' \in Run /\ run'.stage = "oracle" /\ run'.chat = run.chat /\ run'.tier = run.tier
        /\ run'.try = run.try /\ run.stage # "idle"
    BY <1>1, <1>9 DEF Presented, ChildIn, ExitOk, Run
  <2> QED
    BY <1>5, <1>9, <2>1 DEF Presented, StageOf
<1>10. CASE AllBusy \/ Rejected
  BY <1>3, <1>10 DEF AllBusy, Rejected
<1>11. CASE Answer
  <2> DEFINE c == procs[0].proof.attestation
             a == [chat |-> run.chat, tier |-> run.tier, model |-> calls[c].served,
                   charge |-> OracleCharge(calls[c].tokens, Price[run.tier]),
                   proof |-> c, text |-> files.response, clean |-> run.clean]
  <2>1. answers' = answers \union {a} /\ UNCHANGED <<files, calls, asked, crashes>> /\ Finished
    BY <1>11 DEF Answer
  <2>2. c \in Calls \ {0} /\ calls[c] \in CallRecord
    <3>1. c # 0
      BY <1>11 DEF Answer, ChildIn, PipeInv, RunInv
    <3> QED
      BY <1>1, <1>11, <3>1, CallsGrow DEF PipeInv, Known, Next, BridgeStep
  <2>3. /\ run.tier \in Tiers /\ run.chat \in Chats /\ run.clean \in BOOLEAN
        /\ procs[0].model \in Served
    <3>1. run.stage = "oracle"
      BY <1>11 DEF Answer, ChildIn
    <3>2. /\ run.tier \in Tiers /\ run.try \in 1..Len(Models[run.tier])
          /\ procs[0].model = Models[run.tier][run.try]
      BY <3>1 DEF PipeInv, RunInv
    <3>3. run.chat \in Chats /\ run.clean \in BOOLEAN
      BY <1>1, <3>1 DEF PipeInv, TypeOK, Run
    <3> QED
      BY <3>2, <3>3, ModelType
  <2>4. calls[c].served \in Served
    BY <1>11, <2>3 DEF Answer, PromisedModel
  <2>5. OracleCharge(calls[c].tokens, Price[run.tier]) \in Nat
    BY <2>2, <2>3, ChargeType, PipelineAssumption DEF CallRecord
  <2>6. files.response \in Calls /\ Calls \subseteq Nat
    BY DEF PipeInv, Known, Calls
  <2>7. /\ a \in [chat : Chats, tier : Tiers, model : Served, charge : Nat,
                  proof : Nat, text : Nat, clean : BOOLEAN]
        /\ a.proof \in Calls \ {0} /\ a.text \in Calls
    BY <2>2, <2>3, <2>4, <2>5, <2>6
  <2> HIDE DEF a
  <2>8. run' = Idle /\ procs' = [procs EXCEPT ![0] = NoProcess] /\ procs'[0] = NoProcess
    BY <1>1, <2>1 DEF Finished
  <2>9. /\ NoProcess.call = 0 /\ NoProcess.proof.attestation = 0 /\ NoProcess.proof.secrets = 0
        /\ NoProcess.at = "none" /\ Idle.stage = "idle" /\ Idle.chat = None
    BY DEF NoProcess, NoProof, Idle
  <2>10. /\ procs' \in [0..MaxCrashes -> Process]
         /\ \A q \in 0..MaxCrashes : procs'[q] = IF q = 0 THEN NoProcess ELSE procs[q]
         /\ Calls' = Calls
    BY <1>1, <2>1, <2>8 DEF Calls
  <2>11. TypeOK'
    BY <1>1, <2>1, <2>7, <2>8, <2>9, <2>10 DEF PipeInv, TypeOK
  <2>12. Known'
    BY <1>1, <2>1, <2>7, <2>9, <2>10 DEF PipeInv, Known
  <2> QED
    BY <2>8, <2>9, <2>11, <2>12 DEF PipeInv, RunInv, Ended, ExitOk
<1>12. CASE CrashRestart
  <2>1. /\ crashes + 1 \in 0..MaxCrashes /\ crashes + 1 # 0
        /\ procs' = [procs EXCEPT ![crashes + 1] = procs[0], ![0] = NoProcess]
        /\ run' = Idle /\ crashes' = crashes + 1
        /\ UNCHANGED <<files, calls, answers, asked>>
    BY <1>12, PipelineAssumption DEF CrashRestart, PipeInv, TypeOK
  <2>2. /\ procs' \in [0..MaxCrashes -> Process]
        /\ \A q \in 0..MaxCrashes : procs'[q] \in {procs[0], procs[q], NoProcess}
        /\ procs'[0] = NoProcess
    BY <1>1, <2>1
  <2>3. /\ NoProcess.call = 0 /\ NoProcess.proof.attestation = 0 /\ NoProcess.proof.secrets = 0
        /\ NoProcess.at = "none" /\ Idle.stage = "idle" /\ Idle.chat = None
    BY DEF NoProcess, NoProof, Idle
  <2>4. TypeOK'
    BY <1>1, <2>1, <2>2, <2>3 DEF PipeInv, TypeOK
  <2>5. Calls' = Calls
    BY <2>1 DEF Calls
  <2>6. \A q \in 0..MaxCrashes :
           /\ procs'[q].call \in Calls
           /\ procs'[q].proof.attestation \in Calls /\ procs'[q].proof.secrets \in Calls
           /\ procs'[q].at = "request" => procs'[q].chat \in Chats
    BY <1>1, <2>2, <2>3 DEF PipeInv, Known
  <2>7. Known'
    BY <2>1, <2>5, <2>6 DEF PipeInv, Known
  <2> QED
    BY <2>1, <2>2, <2>3, <2>4, <2>7 DEF PipeInv, RunInv, Ended, ExitOk
<1> QED
  BY <1>6, <1>7, <1>8, <1>9, <1>10, <1>11, <1>12 DEF BridgeStep
LEMMA InitPipe == Init => PipeInv
<1> SUFFICES ASSUME Init PROVE PipeInv
  OBVIOUS
<1>1. \A p \in 0..MaxCrashes : procs[p] = NoProcess
  BY DEF Init
<1>2. /\ NoProcess.call = 0 /\ NoProcess.proof.attestation = 0 /\ NoProcess.proof.secrets = 0
      /\ NoProcess.at = "none" /\ Idle.stage = "idle" /\ Idle.chat = None
      /\ NoProof.attestation = 0 /\ NoProof.secrets = 0
  BY DEF NoProcess, NoProof, Idle
<1>3. Len(calls) = 0 /\ 0 \in Calls
  BY DEF Init, Calls
<1>4. TypeOK
  BY <1>2, <1>3, IdleType, PipelineAssumption DEF Init, TypeOK, Proof
<1>5. Known
  BY <1>1, <1>2, <1>3 DEF Init, Known
<1>6. RunInv
  BY <1>1, <1>2, Child DEF Init, RunInv, Ended, ExitOk
<1> QED
  BY <1>4, <1>5, <1>6 DEF PipeInv

LEMMA StepPipe == PipeInv /\ [Next]_vars => PipeInv'
<1> SUFFICES ASSUME PipeInv, [Next]_vars PROVE PipeInv'
  OBVIOUS
<1>1. CASE UNCHANGED vars
  BY <1>1 DEF vars, PipeInv, TypeOK, Known, RunInv, Calls, ExitOk
<1>2. CASE Next
  BY <1>2, TypingPrograms, TypingBridge DEF Next
<1> QED
  BY <1>1, <1>2

\* Every reachable state is well typed, whatever programs outlive the bridge
\* (server.js:209-286).
THEOREM Typing == Spec => []TypeOK
<1>1. PipeInv => TypeOK
  BY DEF PipeInv
<1> QED
  BY InitPipe, StepPipe, <1>1, PTL DEF Spec

-----------------------------------------------------------------------------
(* What a charge is proved from *)

AnswersInv == ModelOfTheTier /\ ChargeIsProved

LEMMA StepAnswers == PipeInv /\ AnswersInv /\ [Next]_vars => AnswersInv'
<1> SUFFICES ASSUME PipeInv, AnswersInv, [Next]_vars PROVE AnswersInv'
  OBVIOUS
<1>1. \A a \in answers : calls'[a.proof] = calls[a.proof]
  BY CallsGrow DEF PipeInv, Known
<1>2. ASSUME NEW a \in answers
      PROVE  /\ \E i \in 1..Len(Models[a.tier]) : a.model = Models[a.tier][i]
             /\ LET exact == calls'[a.proof].tokens * Price[a.tier]
                    error == 2 * (a.charge * Denom - exact)
                IN  /\ calls'[a.proof].ok
                    /\ a.model = calls'[a.proof].served
                    /\ exact > 0 => a.charge > 0
                    /\ (-Denom <= error /\ error <= Denom) \/ a.charge = 1
  BY <1>1 DEF AnswersInv, ModelOfTheTier, ChargeIsProved
<1>3. CASE UNCHANGED answers
  BY <1>2, <1>3 DEF AnswersInv, ModelOfTheTier, ChargeIsProved
<1>4. CASE Answer
  <2> DEFINE c == procs[0].proof.attestation
             a == [chat |-> run.chat, tier |-> run.tier, model |-> calls[c].served,
                   charge |-> OracleCharge(calls[c].tokens, Price[run.tier]),
                   proof |-> c, text |-> files.response, clean |-> run.clean]
  <2>1. answers' = answers \union {a} /\ calls' = calls
    BY <1>4 DEF Answer
  <2>2. c # 0 /\ calls[c].ok /\ c \in Calls /\ calls[c] \in CallRecord
    <3>1. c # 0 /\ calls[c].ok /\ 0 \in 0..MaxCrashes
      BY <1>4, Child DEF Answer, ChildIn, PipeInv, RunInv
    <3> QED
      BY <3>1, CallsGrow DEF PipeInv, Known
  <2>3. /\ run.tier \in Tiers /\ run.try \in 1..Len(Models[run.tier])
        /\ procs[0].model = Models[run.tier][run.try]
    BY <1>4 DEF Answer, ChildIn, PipeInv, RunInv
  <2>4. a.model = Models[a.tier][run.try]
    BY <1>4, <2>3 DEF Answer, PromisedModel
  <2>5. LET exact == calls[a.proof].tokens * Price[a.tier]
            error == 2 * (a.charge * Denom - exact)
        IN  /\ calls[a.proof].ok
            /\ a.model = calls[a.proof].served
            /\ exact > 0 => a.charge > 0
            /\ (-Denom <= error /\ error <= Denom) \/ a.charge = 1
    BY <2>2, <2>3, ChargeType, PipelineAssumption DEF CallRecord
  <2>6. a.tier = run.tier
    OBVIOUS
  <2> HIDE DEF a
  <2>9. \E i \in 1..Len(Models[a.tier]) : a.model = Models[a.tier][i]
    BY <2>3, <2>4, <2>6
  <2>7. ModelOfTheTier'
    BY <1>2, <2>1, <2>9 DEF ModelOfTheTier
  <2>8. ChargeIsProved'
    BY <1>2, <2>1, <2>5 DEF ChargeIsProved
  <2> QED
    BY <2>7, <2>8 DEF AnswersInv
<1>5. UNCHANGED answers \/ Answer
  BY DEF Next, vars, ProgramStep, BridgeStep, Respond, SaveResponse, SaveAttestation, SaveSecrets,
         LoadProof, StorePresentation, Verify, Fails, Ask, Proved, TryNext, AllBusy, Presented,
         Rejected, CrashRestart
<1> QED
  BY <1>3, <1>4, <1>5

LEMMA Answering == Spec => []AnswersInv
<1>1. Init => AnswersInv
  BY DEF Init, AnswersInv, ModelOfTheTier, ChargeIsProved
<1> QED
  BY <1>1, InitPipe, StepPipe, StepAnswers, PTL DEF Spec

\* The reply is proved to come from a model of the buyer's tier, also when the
\* proof is of another run (server.js:259-266).
THEOREM ModelIsPromised == Spec => []ModelOfTheTier
<1>1. AnswersInv => ModelOfTheTier
  BY DEF AnswersInv
<1> QED
  BY Answering, <1>1, PTL

\* A charge is the nearest whole number of units to the tokens of one successful
\* call at the tier's price, for every price, denominator and token count
\* (oracle.rs:85-132, server.js:253-266).
THEOREM ChargeFromProof == Spec => []ChargeIsProved
<1>1. AnswersInv => ChargeIsProved
  BY DEF AnswersInv
<1> QED
  BY Answering, <1>1, PTL
-----------------------------------------------------------------------------
(* A clean run finds its own files *)

\* An answer that is clean in the next state was so before, or was just given.
LEMMA CleanAnswers ==
    ASSUME PipeInv, CleanInv, CleanRunIsItsOwn, [Next]_vars
    PROVE  CleanRunIsItsOwn'
<1>1. \A a \in answers : calls'[a.proof] = calls[a.proof]
  BY CallsGrow DEF PipeInv, Known
<1>2. CASE UNCHANGED answers
  BY <1>1, <1>2 DEF CleanRunIsItsOwn
<1>3. CASE Answer
  <2> DEFINE c == procs[0].proof.attestation
             a == [chat |-> run.chat, tier |-> run.tier, model |-> calls[c].served,
                   charge |-> OracleCharge(calls[c].tokens, Price[run.tier]),
                   proof |-> c, text |-> files.response, clean |-> run.clean]
  <2>1. answers' = answers \union {a} /\ calls' = calls /\ run.stage = "oracle" /\ ExitOk
    BY <1>3 DEF Answer, ChildIn
  <2>2. run.clean => files.response = procs[0].call /\ c = procs[0].call /\ calls[procs[0].call].chat = run.chat
    BY <2>1 DEF CleanInv, Whole
  <2>3. a.clean => a.text = a.proof /\ calls[a.proof].chat = a.chat
    BY <2>2
  <2> HIDE DEF a
  <2> QED
    BY <1>1, <2>1, <2>3 DEF CleanRunIsItsOwn
<1>4. UNCHANGED answers \/ Answer
  BY DEF Next, vars, ProgramStep, BridgeStep, Respond, SaveResponse, SaveAttestation, SaveSecrets,
         LoadProof, StorePresentation, Verify, Fails, Ask, Proved, TryNext, AllBusy, Presented,
         Rejected, CrashRestart
<1> QED
  BY <1>2, <1>3, <1>4

\* While a run is clean only its own program takes steps.
LEMMA CleanPrograms ==
    ASSUME PipeInv, CleanInv, NEW p \in 0..MaxCrashes, ProgramStep(p),
           run.stage # "idle", run.clean
    PROVE  CleanInv'
<1>1. p = 0
  <2>1. procs[p].at \notin Ended
    BY DEF ProgramStep, Respond, SaveResponse, SaveAttestation, SaveSecrets, LoadProof,
           StorePresentation, Verify, Fails, Ended
  <2> QED
    BY <2>1 DEF CleanInv
<1>2. /\ run' = run /\ procs[0] \in Process /\ procs \in [0..MaxCrashes -> Process]
      /\ files \in Files /\ 0 \in 0..MaxCrashes
      /\ run.stage \in {"prove", "present", "oracle"}
      /\ procs[0].at \notin Ended => run.stage = StageOf(procs[0].at)
  BY <1>1, ProcessType DEF ProgramStep, Respond, SaveResponse, SaveAttestation, SaveSecrets, LoadProof,
         StorePresentation, Verify, Fails, PipeInv, TypeOK, Files, Run, RunInv
<1>3. \A q \in 1..MaxCrashes : procs'[q] = procs[q]
  <2>1. PICK x : procs' = [procs EXCEPT ![0] = x]
    BY <1>1 DEF ProgramStep, Respond, SaveResponse, SaveAttestation, SaveSecrets, LoadProof,
           StorePresentation, Verify, Fails, Goes
  <2> QED
    BY <1>2, <2>1, PipelineAssumption
<1>4. procs[0].call \in Calls /\ (procs[0].call # 0 => calls'[procs[0].call] = calls[procs[0].call])
  BY <1>1, CallsGrow, Child DEF PipeInv, Known, Next
<1>5. CASE Respond(0)
  <2>1. /\ procs'[0].at = "answered" /\ procs'[0].call = Len(calls) + 1
        /\ procs'[0].chat = procs[0].chat /\ procs[0].at = "request" /\ files' = files
    BY <1>2, <1>5 DEF Respond, Process
  <2>2. Len(calls) + 1 # 0 /\ calls'[Len(calls) + 1].chat = procs[0].chat
    BY <1>2, <1>5, Answered
  <2> QED
    BY <1>2, <1>3, <2>1, <2>2 DEF CleanInv, StageOf, Ended, ExitOk
<1>6. CASE SaveResponse(0)
  <2>1. /\ procs'[0].at = "saved" /\ procs'[0].call = procs[0].call
        /\ procs'[0].chat = procs[0].chat /\ procs[0].at = "answered"
        /\ files'.response = procs[0].call
    BY <1>2, <1>6 DEF SaveResponse, Goes, Process, Files
  <2> QED
    BY <1>2, <1>3, <1>4, <2>1 DEF CleanInv, StageOf, Ended, ExitOk
<1>7. CASE SaveAttestation(0)
  <2>1. /\ procs'[0].at = "attested" /\ procs'[0].call = procs[0].call
        /\ procs'[0].chat = procs[0].chat /\ procs[0].at = "saved"
        /\ files'.response = files.response /\ files'.attestation = procs[0].call
    BY <1>2, <1>7 DEF SaveAttestation, Attested, Goes, Process, Files
  <2> QED
    BY <1>2, <1>3, <1>4, <2>1 DEF CleanInv, StageOf, Ended, ExitOk
<1>8. CASE SaveSecrets(0)
  <2>1. /\ procs'[0].at = "exit0" /\ procs'[0].call = procs[0].call
        /\ procs'[0].chat = procs[0].chat /\ procs[0].at = "attested"
        /\ files'.response = files.response /\ files'.attestation = files.attestation
        /\ files'.secrets = procs[0].call
    BY <1>2, <1>8 DEF SaveSecrets, Goes, Process, Files
  <2> QED
    BY <1>2, <1>3, <1>4, <2>1 DEF CleanInv, StageOf, Ended, ExitOk
<1>9. CASE LoadProof(0)
  <2>1. /\ procs'[0].at = "store" /\ procs'[0].call = procs[0].call
        /\ procs[0].at = "load" /\ files' = files
        /\ procs'[0].proof = [attestation |-> files.attestation, secrets |-> files.secrets]
    BY <1>2, <1>9 DEF LoadProof, Process
  <2> QED
    BY <1>2, <1>3, <1>4, <2>1 DEF CleanInv, StageOf, Ended, ExitOk, Whole
<1>10. CASE StorePresentation(0)
  <2>1. /\ procs'[0].at = "exit0" /\ procs'[0].call = procs[0].call
        /\ procs[0].at = "store"
        /\ files'.response = files.response /\ files'.attestation = files.attestation
        /\ files'.secrets = files.secrets /\ files'.presentation = procs[0].proof
    BY <1>2, <1>10 DEF StorePresentation, Overwrites, Goes, Process, Files
  <2> QED
    BY <1>2, <1>3, <1>4, <2>1 DEF CleanInv, StageOf, Ended, ExitOk
<1>11. CASE Verify(0)
  <2>1. /\ procs'[0].at = "exit0" /\ procs'[0].call = procs[0].call
        /\ procs[0].at = "verify" /\ files' = files
        /\ procs'[0].proof = files.presentation
    BY <1>2, <1>11 DEF Verify, Process
  <2> QED
    BY <1>2, <1>3, <1>4, <2>1 DEF CleanInv, StageOf, Ended, ExitOk
<1>12. CASE Fails(0)
  <2>1. /\ procs'[0].at = "failed" /\ procs'[0].call = procs[0].call
        /\ procs'[0].chat = procs[0].chat /\ files' = files
        /\ procs[0].at \notin Ended
    BY <1>2, <1>12 DEF Fails, Goes, Process
  <2> QED
    BY <1>2, <1>3, <1>4, <2>1 DEF CleanInv, ExitOk
<1> QED
  BY <1>1, <1>5, <1>6, <1>7, <1>8, <1>9, <1>10, <1>11, <1>12 DEF ProgramStep

LEMMA StepClean == PipeInv /\ CleanInv /\ [Next]_vars => CleanInv'
<1> SUFFICES ASSUME PipeInv, CleanInv, [Next]_vars, run'.stage # "idle", run'.clean
             PROVE  CleanInv'
  BY DEF CleanInv
<1>1. /\ procs[0] \in Process /\ procs \in [0..MaxCrashes -> Process] /\ run \in Run
      /\ 0 \in 0..MaxCrashes
  BY Child, ProcessType DEF PipeInv, TypeOK
<1>2. CASE UNCHANGED vars
  BY <1>2 DEF vars, CleanInv, ExitOk
<1>3. ASSUME NEW p \in 0..MaxCrashes, ProgramStep(p) PROVE CleanInv'
  <2>1. run' = run
    BY <1>3 DEF ProgramStep, Respond, SaveResponse, SaveAttestation, SaveSecrets, LoadProof,
           StorePresentation, Verify, Fails
  <2> QED
    BY <1>3, <2>1, CleanPrograms
<1>4. ASSUME NEW c \in Chats, NEW t \in Tiers, Ask(c, t) PROVE CleanInv'
  <2>1. /\ procs'[0].at = "request" /\ procs'[0].call = 0 /\ procs'[0].chat = c
        /\ \A q \in 1..MaxCrashes : procs'[q] = procs[q]
        /\ run'.stage = "prove" /\ run'.chat = c
        /\ run'.clean => \A q \in 1..MaxCrashes : procs[q].at \in Ended
    BY <1>1, <1>4 DEF Ask, StartsProve, NoProcess
  <2> QED
    BY <2>1 DEF CleanInv, ExitOk
<1>5. CASE TryNext
  <2> DEFINE x == [NoProcess EXCEPT !.at = "request", !.chat = run.chat, !.model = Models[run.tier][NextTry]]
  <2>1. x.at = "request" /\ x.call = 0 /\ x.chat = run.chat
    BY DEF NoProcess
  <2>2. procs' = [procs EXCEPT ![0] = x]
    BY <1>5 DEF TryNext, StartsProve
  <2> HIDE DEF x
  <2>3. procs'[0] = x /\ \A q \in 1..MaxCrashes : procs'[q] = procs[q]
    BY <1>1, <2>2, PipelineAssumption
  <2>4. /\ run'.stage = "prove" /\ run'.chat = run.chat /\ run'.clean = run.clean
        /\ run.stage = "prove"
    BY <1>1, <1>5 DEF TryNext, ChildIn, Run
  <2> QED
    BY <2>1, <2>3, <2>4 DEF CleanInv, ExitOk
<1>6. CASE Proved
  <2> DEFINE x == [procs[0] EXCEPT !.at = "load", !.proof = NoProof]
  <2>1. x.at = "load" /\ x.call = procs[0].call
    BY <1>1 DEF Process
  <2>2. procs' = [procs EXCEPT ![0] = x]
    BY <1>6 DEF Proved, PresentNext, Starts
  <2> HIDE DEF x
  <2>3. procs'[0] = x /\ \A q \in 1..MaxCrashes : procs'[q] = procs[q]
    BY <1>1, <2>2, PipelineAssumption
  <2>4. run'.stage = "present" /\ run'.chat = run.chat /\ run.stage = "prove" /\ files' = files /\ calls' = calls
    BY <1>1, <1>6 DEF Proved, PresentNext, ChildIn, Run
  <2>5. run.clean /\ ExitOk
    BY <1>1, <1>6 DEF Proved, PresentNext, ChildIn, Run
  <2> QED
    BY <2>1, <2>3, <2>4, <2>5 DEF CleanInv, ExitOk
<1>7. CASE Presented
  <2> DEFINE x == [procs[0] EXCEPT !.at = "verify", !.proof = NoProof]
  <2>1. x.at = "verify" /\ x.call = procs[0].call
    BY <1>1 DEF Process
  <2>2. procs' = [procs EXCEPT ![0] = x]
    BY <1>7 DEF Presented, Starts
  <2> HIDE DEF x
  <2>3. procs'[0] = x /\ \A q \in 1..MaxCrashes : procs'[q] = procs[q]
    BY <1>1, <2>2, PipelineAssumption
  <2>4. run'.stage = "oracle" /\ run'.chat = run.chat /\ run.stage = "present" /\ files' = files /\ calls' = calls
    BY <1>1, <1>7 DEF Presented, ChildIn, Run
  <2>5. run.clean /\ ExitOk
    BY <1>1, <1>7 DEF Presented, ChildIn, Run
  <2> QED
    BY <2>1, <2>3, <2>4, <2>5 DEF CleanInv, ExitOk
<1>8. CASE AllBusy \/ Answer \/ Rejected \/ CrashRestart
  BY <1>8 DEF AllBusy, Answer, Rejected, CrashRestart, Finished, Idle
<1> QED
  BY <1>2, <1>3, <1>4, <1>5, <1>6, <1>7, <1>8 DEF Next, BridgeStep

\* When nothing outlived a crash and every program of a run exited 0, its charge
\* and its text are those of a call made for this very chat, though every file
\* has a fixed name and earlier runs left theirs (server.js:209-286).
THEOREM CleanOwnership == Spec => []CleanRunIsItsOwn
<1>1. Init => CleanInv /\ CleanRunIsItsOwn
  BY DEF Init, CleanInv, CleanRunIsItsOwn, Idle
<1>2. PipeInv /\ CleanInv /\ CleanRunIsItsOwn /\ [Next]_vars => CleanRunIsItsOwn'
  BY CleanAnswers
<1> QED
  BY <1>1, <1>2, InitPipe, StepPipe, StepClean, PTL DEF Spec
=============================================================================
