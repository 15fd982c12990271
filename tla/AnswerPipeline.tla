---------------------------- MODULE AnswerPipeline ----------------------------
(***************************************************************************)
(* One answer of João: runAnswer (src/ux-prototype/server.js) runs          *)
(* openrouter_prove for the models of the tier until one answers 200, then  *)
(* openrouter_present, then openrouter_oracle, and reads the reply's text.  *)
(*                                                                          *)
(* The programs hand their results on in four files with fixed names, so a  *)
(* file says which call of the model it was made from: 0 for none, else an  *)
(* index into calls.  Whoever reads a file reads whatever was written last, *)
(* by this run, by an earlier one, or by a program that outlived a crashed  *)
(* bridge.                                                                  *)
(*                                                                          *)
(* The cryptography is external: a presentation verifies if and only if it  *)
(* was built from the attestation and the secrets of one call.              *)
(***************************************************************************)
EXTENDS Integers, Sequences, FiniteSets

CONSTANTS
    Chats,       \* chat requests
    Tiers,
    Models,      \* tier -> the sequence of its models, tried in this order
    Price,       \* tier -> price per token
    Denom,       \* PRICE_DENOM
    Served,      \* models OpenRouter may answer with (snapshots of a model are that model)
    Tokens,      \* total_tokens a response may report
    None,
    MaxCalls,    \* bound: calls of a model
    MaxCrashes   \* bound: bridge crashes

ASSUME PipelineAssumption ==
    /\ Models \in [Tiers -> Seq(Served) \ {<<>>}]
    /\ Price \in [Tiers -> Nat]
    /\ Denom \in Nat \ {0}
    /\ Tokens \subseteq Nat
    /\ MaxCalls \in Nat /\ MaxCrashes \in Nat
    /\ None \notin Chats \union Tiers \union Served

VARIABLES
    run,      \* the runAnswer in progress, see Run
    procs,    \* process 0 is the bridge's child, process k outlived crash k
    files,    \* the files in the pipeline's directory
    calls,    \* the requests OpenRouter answered
    answers,  \* what runAnswer returned
    asked,    \* chats that were asked
    crashes

vars == <<run, procs, files, calls, answers, asked, crashes>>

Calls == 0..Len(calls)
Proof == [attestation : Nat, secrets : Nat]
NoProof == [attestation |-> 0, secrets |-> 0]

\* clean is a history bit: nothing outlived a crash when the run began, and
\* every program of it exited 0 so far
Run == [stage : {"idle", "prove", "present", "oracle"}, chat : Chats \union {None},
        tier : Tiers \union {None}, try : Nat, clean : BOOLEAN]
Idle == [stage |-> "idle", chat |-> None, tier |-> None, try |-> 0, clean |-> TRUE]

\* at is where a program is: openrouter_prove goes request, answered, saved,
\* attested; openrouter_present load, store; openrouter_oracle verify
Ended == {"none", "exit0", "failed"}
Process == [at : {"request", "answered", "saved", "attested", "load", "store", "verify"} \union Ended,
            chat : Chats \union {None}, model : Served \union {None}, call : Nat, proof : Proof]
NoProcess == [at |-> "none", chat |-> None, model |-> None, call |-> 0, proof |-> NoProof]

TypeOK ==
    /\ run \in Run /\ (run.stage = "idle" <=> run.chat = None)
    /\ procs \in [0..MaxCrashes -> Process]
    /\ files \in [response : Nat, attestation : Nat, secrets : Nat, presentation : Proof]
    /\ calls \in Seq([chat : Chats, ok : BOOLEAN, served : Served \union {None}, tokens : Nat])
    /\ Len(calls) <= MaxCalls
    /\ answers \subseteq [chat : Chats, tier : Tiers, model : Served, charge : Nat,
                          proof : Nat, text : Nat, clean : BOOLEAN]
    /\ asked \subseteq Chats
    /\ crashes \in 0..MaxCrashes

Init ==
    /\ run = Idle
    /\ procs = [p \in 0..MaxCrashes |-> NoProcess]
    /\ files = [response |-> 0, attestation |-> 0, secrets |-> 0, presentation |-> NoProof]
    /\ calls = <<>>
    /\ answers = {}
    /\ asked = {}
    /\ crashes = 0

-----------------------------------------------------------------------------
(* The programs *)

Goes(p, place) == procs' = [procs EXCEPT ![p].at = place]

\* openrouter_prove: the response is in and its status line is printed
Respond(p) ==
    /\ procs[p].at = "request"
    /\ Len(calls) < MaxCalls
    /\ \/ \E m \in Served, t \in Tokens :
              calls' = Append(calls, [chat |-> procs[p].chat, ok |-> TRUE, served |-> m, tokens |-> t])
       \/ calls' = Append(calls, [chat |-> procs[p].chat, ok |-> FALSE, served |-> None, tokens |-> 0])
    /\ procs' = [procs EXCEPT ![p] = [@ EXCEPT !.at = "answered", !.call = Len(calls) + 1]]
    /\ UNCHANGED <<run, files, answers, asked, crashes>>

\* whatever the status, the body is kept for the bridge before anything is proved
SaveResponse(p) ==
    /\ procs[p].at = "answered"
    /\ files' = [files EXCEPT !.response = procs[p].call]
    /\ Goes(p, "saved")
    /\ UNCHANGED <<run, calls, answers, asked, crashes>>

\* the notary signs what it verified in this very session, and the prover
\* validates it against its request and secrets
Attested(p) == procs[p].call

SaveAttestation(p) ==
    /\ procs[p].at = "saved"
    /\ files' = [files EXCEPT !.attestation = Attested(p)]
    /\ Goes(p, "attested")
    /\ UNCHANGED <<run, calls, answers, asked, crashes>>

SaveSecrets(p) ==
    /\ procs[p].at = "attested"
    /\ files' = [files EXCEPT !.secrets = procs[p].call]
    /\ Goes(p, "exit0")
    /\ UNCHANGED <<run, calls, answers, asked, crashes>>

\* openrouter_present: two reads with nothing between them
LoadProof(p) ==
    /\ procs[p].at = "load"
    /\ files.attestation # 0 /\ files.secrets # 0
    /\ procs' = [procs EXCEPT ![p] = [@ EXCEPT !.at = "store",
                    !.proof = [attestation |-> files.attestation, secrets |-> files.secrets]]]
    /\ UNCHANGED <<run, files, calls, answers, asked, crashes>>

WritesIfMissing(p) ==
    [files EXCEPT !.presentation = IF @ = NoProof THEN procs[p].proof ELSE @]
Overwrites(p) == [files EXCEPT !.presentation = procs[p].proof]

StorePresentation(p) ==
    /\ procs[p].at = "store"
    /\ files' = Overwrites(p)
    /\ Goes(p, "exit0")
    /\ UNCHANGED <<run, calls, answers, asked, crashes>>

\* only the response of a call that succeeded has a usage object to disclose
Discloses(c) == calls[c].ok

Genuine(pi) == pi.attestation # 0 /\ pi.attestation = pi.secrets

\* openrouter_oracle: the notary's key, the proof, the disclosed usage and model
Verify(p) ==
    /\ procs[p].at = "verify"
    /\ Genuine(files.presentation)
    /\ Discloses(files.presentation.attestation)
    /\ procs' = [procs EXCEPT ![p] = [@ EXCEPT !.at = "exit0", !.proof = files.presentation]]
    /\ UNCHANGED <<run, files, calls, answers, asked, crashes>>

\* any program may stop at any place with another code: an error, a panic, or
\* SIGKILL at 240 s
Fails(p) ==
    /\ procs[p].at \notin Ended
    /\ Goes(p, "failed")
    /\ UNCHANGED <<run, files, calls, answers, asked, crashes>>

-----------------------------------------------------------------------------
(* runAnswer *)

\* every program starts with what its stage knows; the chat and the call of a
\* later stage are only remembered, not passed on
StartsProve(c, m) ==
    procs' = [procs EXCEPT ![0] = [NoProcess EXCEPT !.at = "request", !.chat = c, !.model = m]]
Starts(place) == procs' = [procs EXCEPT ![0] = [@ EXCEPT !.at = place, !.proof = NoProof]]
KeepsTheChat == run' = [run EXCEPT !.stage = "idle"] /\ procs' = [procs EXCEPT ![0] = NoProcess]
Finished == run' = Idle /\ procs' = [procs EXCEPT ![0] = NoProcess]

ChildIn(stage) == run.stage = stage /\ procs[0].at \in Ended
ExitOk == procs[0].at = "exit0"

Ask(c, t) ==
    /\ run.stage = "idle"
    /\ c \notin asked
    /\ asked' = asked \union {c}
    /\ run' = [stage |-> "prove", chat |-> c, tier |-> t, try |-> 1,
               clean |-> \A p \in 1..MaxCrashes : procs[p].at \in Ended]
    /\ StartsProve(c, Models[t][1])
    /\ UNCHANGED <<files, calls, answers, crashes>>

\* the log says 200, whatever the exit code
Got200 == procs[0].call # 0 /\ calls[procs[0].call].ok

PresentNext == run' = [run EXCEPT !.stage = "present", !.clean = @ /\ ExitOk] /\ Starts("load")

Proved ==
    /\ ChildIn("prove")
    /\ Got200
    /\ PresentNext
    /\ UNCHANGED <<files, calls, answers, asked, crashes>>

NextTry == run.try + 1

\* the fallback stays within the tier
TryNext ==
    /\ ChildIn("prove")
    /\ ~Got200
    /\ run.try < Len(Models[run.tier])
    /\ run' = [run EXCEPT !.try = NextTry]
    /\ StartsProve(run.chat, Models[run.tier][NextTry])
    /\ UNCHANGED <<files, calls, answers, asked, crashes>>

AllBusy ==
    /\ ChildIn("prove")
    /\ ~Got200
    /\ run.try = Len(Models[run.tier])
    /\ Finished
    /\ UNCHANGED <<files, calls, answers, asked, crashes>>

\* the exit code of openrouter_present is not looked at
Presented ==
    /\ ChildIn("present")
    /\ run' = [run EXCEPT !.stage = "oracle", !.clean = @ /\ ExitOk]
    /\ Starts("verify")
    /\ UNCHANGED <<files, calls, answers, asked, crashes>>

\* the oracle's charge: rounded to the nearest whole unit, at least 1
RoundsDown(tokens, price) == (tokens * price) \div Denom
OracleCharge(tokens, price) ==
    LET c == (tokens * price + Denom \div 2) \div Denom
    IN  IF tokens > 0 /\ c = 0 THEN 1 ELSE c

AnyModel(requested, verified) == TRUE
PromisedModel(requested, verified) == requested = verified

\* exit 0 and the promised model: the charge is the proof's, the text is what
\* openrouter.response.json holds now
Answer ==
    /\ ChildIn("oracle")
    /\ ExitOk
    /\ LET c == procs[0].proof.attestation
       IN  /\ PromisedModel(procs[0].model, calls[c].served)
           /\ answers' = answers \union
                  {[chat |-> run.chat, tier |-> run.tier, model |-> calls[c].served,
                    charge |-> OracleCharge(calls[c].tokens, Price[run.tier]),
                    proof |-> c, text |-> files.response, clean |-> run.clean]}
    /\ Finished
    /\ UNCHANGED <<files, calls, asked, crashes>>

Rejected ==
    /\ ChildIn("oracle")
    /\ ExitOk => ~PromisedModel(procs[0].model, calls[procs[0].proof.attestation].served)
    /\ Finished
    /\ UNCHANGED <<files, calls, answers, asked, crashes>>

\* The bridge dies and boots with busy = false; its child lives on.
CrashRestart ==
    /\ crashes < MaxCrashes
    /\ crashes' = crashes + 1
    /\ run' = Idle
    /\ procs' = [procs EXCEPT ![crashes + 1] = procs[0], ![0] = NoProcess]
    /\ UNCHANGED <<files, calls, answers, asked>>

ProgramStep(p) ==
    \/ Respond(p) \/ SaveResponse(p) \/ SaveAttestation(p) \/ SaveSecrets(p)
    \/ LoadProof(p) \/ StorePresentation(p) \/ Verify(p) \/ Fails(p)

BridgeStep == Proved \/ TryNext \/ AllBusy \/ Presented \/ Answer \/ Rejected

Next ==
    \/ \E p \in 0..MaxCrashes : ProgramStep(p)
    \/ \E c \in Chats, t \in Tiers : Ask(c, t)
    \/ BridgeStep
    \/ CrashRestart

Spec == Init /\ [][Next]_vars

-----------------------------------------------------------------------------
(* Properties *)

\* A reply comes with the proof of a model of the tier the buyer chose, even
\* when the files hold the proof of another run: the model is checked last
\* (server.js:262, and the comment at server.js:77).
ModelOfTheTier ==
    \A a \in answers : \E i \in 1..Len(Models[a.tier]) : a.model = Models[a.tier][i]

\* No charge is made up: it is the tokens of one call that succeeded, at the
\* price of the buyer's tier, rounded to the nearest unit and never free
\* (oracle.rs:4), whatever mixture of files the programs left.
ChargeIsProved ==
    \A a \in answers :
        LET exact == calls[a.proof].tokens * Price[a.tier]
            error == 2 * (a.charge * Denom - exact)
        IN  /\ calls[a.proof].ok
            /\ a.model = calls[a.proof].served
            /\ exact > 0 => a.charge > 0
            /\ (-Denom <= error /\ error <= Denom) \/ a.charge = 1

\* When nothing outlived a crash and every program of the run exited 0, the
\* charge and the text are those of a call made for this very chat
\* (server.js:250-257, 274).
CleanRunIsItsOwn ==
    \A a \in answers : a.clean =>
        a.text = a.proof /\ calls[a.proof].chat = a.chat

\* The chat is charged for its own call (index.html:695: the tokens and the
\* price come from the proof of this answer).  The code breaks it: a prover that
\* printed 200 and then failed leaves the proof of the run before.
ChargeIsItsOwn == \A a \in answers : calls[a.proof].chat = a.chat

\* The buyer is shown the reply to his own prompt (index.html:698: message and
\* answer stay private).  The code breaks it when the prover fails between its
\* log line and the write of the response.
TextIsItsOwn == \A a \in answers : calls[a.text].chat = a.chat
=============================================================================
