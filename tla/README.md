# Bartok in TLA+

Bartok sells LLM answers by the token.  A buyer's wallet locks a *hold* in a private
escrow note on Miden; the *bridge* (`src/ux-prototype/server.js`, one Node process)
serves zkTLS-proved answers and adds up their charges; at the end one transaction pays
the seller ("João") what was used and returns the rest.  What can go wrong is in the
order of things: answers and settlements take minutes, run at the same time, are retried,
time out, and the process that coordinates them can die at any moment.

These modules model that coordination, check it with TLC, and prove with TLAPS, for every
value of the constants, each safety invariant that the passing runs check.

    tlc -workers 2 -config MCBridgeSession.cfg MCBartokBridge   # also MCBridgeSessions, MCBridgeLive
    tlc -workers 2 -config MCCredits.cfg MCBartokCredits
    tlc -workers 2 -config MCEscrow.cfg  MCEscrowNote
    tlc -workers 2 -config MCBrowser.cfg MCBrowser
    tlc -workers 2 -config MCChat.cfg    MCChat
    tlapm BartokBridge_proofs.tla       # also BartokSettling_, BartokCredits_, AnswerPipeline_,
                                        # EscrowNote_, WalletIdentity_, MCBrowser_, MCChat_proofs

## The system

| component | state it keeps | operations | talks to |
|---|---|---|---|
| session lifecycle, `server.js` 428-630 | the `sessions` Map, `busy` | `/api/session/start`, `/api/session/escrow`, `/api/chat`, `/api/session/end` | binary queue, files |
| sweeper, `server.js` 724-769 | the flags of each session | settle whatever is armed and idle for two hours; at boot and hourly | binary queue, files |
| files, `server.js` 93-110, 345-370 | `sessions.json`, `users.json`, `refunds.json` | whole-file synchronous writes; read at boot | |
| binary queue, `server.js` 126-179 | a promise chain: FIFO of `build_escrow`, `verify_escrow`, `settle_session`, `joao_sweep`, `fund_buyer` | spawn, SIGKILL at a time limit | chain, Guardian |
| escrow note, `miden/contracts/settlement-note`, `helpers.rs`, `build_escrow.rs` | the note and its storage: operator, seller, buyer, faucet | pay the charge, refund the rest, in one transaction | |
| settlement, `settle_session.rs` | the operator's proposals and its one pending delta, at the Guardian | propose, prepare, push, submit, report the note files | chain, Guardian, `accounts.json` |
| set-up binaries, `miden/integration/src/bin` | `accounts.json`, a signer key per role, accounts on the Guardian | `setup_accounts`, `new_faucet`, `setup_multisigs`, by hand and again after a failure | Guardian, all other binaries |
| accounts, `server.js` 364-370, 672-693 | account and spend per wallet | register, login, `recordSpend` | |
| credits, `server.js` 634-670 | codes claimed per wallet | redeem = mint | binary queue |
| answer pipeline, `server.js` 209-286, `zktls-spike` | files of the proof run | prove, present, oracle: the charge | `/api/chat` |
| history, `server.js` 196-206 | last turns of a session | keep what fits 2400 bytes | answer pipeline |
| rate limiter, `server.js` 304-326 | hits per address and bucket | allow or refuse, forget the oldest keys | every handler |
| wallet identity, `ux-prototype/src/wallet.js` 66-97 | signer and account id in `localStorage` | `init`: load, recover or create and register | Guardian |
| buyer wallet, `ux-prototype/src/wallet.js` | Guardian proposals, one pending delta | fund, absorb notes, import a refund file | Guardian, chain |
| buyer app, `ux-prototype/index.html` | session id, modal state | start, chat, settle, retry, New chat | bridge, wallet |
| dashboard, static files, proxies | output only | | |

**What is hard.**  A handler of Node runs alone between two `await`s, so the interesting
interleavings are between awaits: a chat awaits the answer for tens of seconds, a
settlement awaits a binary for up to eight minutes and may be retried six times, a
verification polls the chain for two.  Chat and settle are not mutually exclusive.  The
three files are written at different points of a turn, and a crash can fall between any
two writes while a binary that was spawned goes on.  The programs of an answer hand their
results on in files with fixed names, so a program that fails, or that outlived a crash,
leaves another run's data where the next one reads.  The Guardian admits one pending delta
per account and keeps a bounded number of proposals that nothing deletes, so every retry
costs something, and two loops of one browser get in each other's way.  `PROJECT.json` lists each hazard at
its line.

**What makes each part correct.**  Lifecycle: no charge without a hold, none above it,
no free reply, one settlement per hold, an armed hold is always released.  Files: the
reply is out only after its charge is durable; a restart forgets nothing that holds
money.  Queue: one binary at a time.  Contract: charge + refund = hold, once.  Accounts:
the anonymous cap.  Credits: one mint per code and wallet.  Pipeline: the charge is the
proved token count times the price of the tier that was asked for, the lock is given
back.  History: the newest turns, within the budget.  Limiter: at most *limit* hits in
any window.  Wallet: never consumes its own escrow, at most one pending delta.  App: a
session it started is settled or left to the sweeper.

## Modules

| module | models | how it is used |
|---|---|---|
| `BartokBridge` | the session lifecycle with everything it shares state with: the binary queue, the three files, accounts and the anonymous cap, the note on the chain, crashes | `MCBartokBridge`, `BartokBridge_proofs`, `BartokSettling_proofs` |
| `HoldLedger` | the abstract promise about a hold: quoted, locked, billed (upwards, up to the hold), released once, paying no more than was billed | `INSTANCE`d by `BartokBridge` and by `EscrowNote`, which both implement it |
| `BartokCredits` | `/api/credits/redeem`: the check of a code, the mint in the queue, the claim after it, `users.json`, crashes | `MCBartokCredits`, `BartokCredits_proofs` |
| `Provisioning` | the set-up binaries, `accounts.json`, the keys of the roles | extended by `EscrowNote` |
| `EscrowNote` | the note from `build_escrow` to what its script pays out, and `settle_session` against the operator's Guardian | `MCEscrowNote`, `EscrowNote_proofs` |
| `AnswerPipeline` | `runAnswer`, `openrouter_prove`, `openrouter_present`, `openrouter_oracle` and the files between them | `MCChat`, `AnswerPipeline_proofs` |
| `RateLimiter` | `rateOk` | `MCChat`, `MCChat_proofs` |
| `ConversationHistory` | `buildMessages` and a session's history | `MCChat`, `MCChat_proofs` |
| `BuyerWallet` | `absorbNotes` in several loops and `fundEscrow`, against the buyer's Guardian | `MCBrowser`, `MCBrowser_proofs` |
| `WalletIdentity` | `BartokWallet.init` in several tabs | `MCBrowser`, `WalletIdentity_proofs`, `MCBrowser_proofs` |

`PROJECT.json` maps every definition to its lines.

`MCChat` and `MCBrowser` each hold models that share no state.  A variable `part`, chosen
in the initial state, says which of them runs; the others keep their initial values.  So
one run checks every part on its own, the properties of the parts that stand still hold
in their initial states, and no interleaving of independent steps is explored.

The bridge and the credits share the binary queue and `users.json` but no field of it: in
`BartokCredits` the other binaries would only delay a mint, and a `saveUsers` of another
handler would write codes that are on the disk already (`SavedInv`), so each is modelled
without the other.  `BartokBridge` sees a settlement as one step that pays and refunds;
what that step is made of, and that it splits the hold, is `EscrowNote`, and the two keep
one promise, `HoldLedger`: what the bridge calls billed is what `EscrowNote` sees asked for.  It sees an answer
as a charge between two turns; where the charge comes from is `AnswerPipeline`.

### State of the bridge

| variable | code |
|---|---|
| `place[s]` | is `s` not yet asked for, waiting for `build_escrow`, in the `sessions` Map, or deleted |
| `order[s]` | `buyerId` and `budget` |
| `sess[s]` | the session object: `escrowNoteB64` set (`armed`), the sum of `charges`, `settling`, `settled`; an object that was evicted is still referenced by a chat in flight, so it is kept |
| `disk`, `users`, `refunds` | the three files (`users` is written through at every change) |
| `busy`, `chat[r]` | the pipeline's lock, and one `/api/chat` request: waiting for the answer, or charged and not yet replied to, with `spent` as read before the answer |
| `settler[s]` | the `end` call or the sweep that settles `s`: waiting for its binary, in backoff, or with the refund file written and the session not yet evicted |
| `queue`, `landed` | `midenQueue` (its head is running) and whether the running settlement's transaction is on the chain |
| `orphans` | binaries that were running when the bridge died |
| `note`, `paid`, `swept` | the chain: the note, what its settlement paid, whether João collected it |
| `served[s]` | history: the charges of the replies that were sent |

### Steps of the bridge

A handler is cut at its `await`s.  The turn after the answer of a chat writes
`sessions.json` (`ChatCharge`), then `users.json` (`ChatCount`), then sends the reply
(`ChatDeliver`); the turn after a settlement writes `refunds.json`, then `sessions.json`.
Those two turns are cut after each write, because a crash can fall there; `InTurn` keeps every other handler out meanwhile,
as Node does, but not the chain, the orphans or the crash.

`SettleLand` is the chain's acceptance of a running settlement and is separate from the
binary's exit: a binary may land and be killed, land and report, or be refused.
`SettleSpent` is the "nullifiers already exist" refusal, which the node gives only for a
consumed note.  `Sweep` leaves time out: any moment may be two hours after the last
activity, which is a wider set of behaviours than the code's (the start of a chat does
not touch `lastActivity`, so a sweep in the middle of an answer is possible anyway, though a
session that is touched again and again is never idle).

Abstracted: request parsing and its 400/404/429 answers (they change nothing modelled
here), prompts, replies, model names, the content of notes and serials, SSE and logs,
the money unit (a charge is a small number), idle time.  A write that returns is taken as
durable and complete; the code only logs a failing one.

### Credits

`claimed` in the handler is a JavaScript object.  A wallet that has `users[id].codes`
shares it between its requests; one that has none gets a fresh object per request, and
each request stores *its* object after the mint.  So `heap[b]` holds objects, `codes[b]`
the one the wallet refers to, `request[s].object` the one a request checked.  `legacy[b]`
is the old `redeemed` flag, `disk` is `users.json`, `queue`/`landed`/`orphans` are the
binaries as above, `minted` counts grants on the chain.

`Redeem` is the handler up to its `await`; `MintLands` the acceptance of the transaction,
separate from `MintOk` (claim and save, one turn) and `MintFails` (exit code, lost output
or timeout, landed or not).  `CrashRestart` reads `users.json` back.  The history variable
`risky` names the wallets for which the check is not enough: two requests that ask for
the same code or hold different objects, a landed mint reported as failed, a crash in a
mint.

### The escrow note and its settlement

`Provisioning` gives out keys, accounts and faucets as numbers.  `accounts` is
`accounts.json` (whole-file writes), `signer[r]` the role's `signer.hex`, `registry` what the
Guardian has registered, `setup` one `setup_multisigs` on its way: a client for the role
(`OpenClient`, which saves a new key before it is used), `Recover` or
`CreateAccount`/`Register`, then the other role, then both ids in one write (`MergeIds`).
`SetupDies` ends it anywhere, and a registration that was sent may have been made.

`EscrowNote` adds the note (`escrow[n]`: state, budget, and the accounts its storage
commits to at `BuildEscrow`), what its script created (`outputs`), and one `settle_session`
(`settle`): it reads `accounts.json`, proposes with a fresh salt, pushes the delta, and
lands, is refused because a delta is pending (`Wedged`), finds the cap full (`AtTheCap`)
or fails (`SettleFails`; what was pushed may land all the same).  `Accepts` is the script's
two asserts, `PaysOut` its two P2ID notes with the field's subtraction (`% Modulus`).
`Attempt` is anybody else who holds the note's details and consumes it with an argument of
his choice.  `Report` computes the note files from the arguments, as the code does; that
they are the chain's is a property, not an assumption.

### Answers

`AnswerPipeline`: `run` is the one `runAnswer` (the lock `busy`), `procs[0]` the program it
waits for, `procs[k]` a program that outlived crash `k`; `files` are the four files, each
with the number of the call it was made from, and a process advances one write at a time.
`Proved`, `TryNext`, `AllBusy`, `Presented`, `Answer`, `Rejected` are the bridge's turns at
the exit of a program, with exactly the code's conditions: it goes on after prove when the
log said 200, whatever the exit code, and ignores the exit code of present.  A presentation
is two call numbers; the oracle accepts it when they are equal and the call succeeded, and
rounds the charge as it does in `oracle.rs`.

`RateLimiter`: `order` and `hits` are the Map (keys in the order of their first insertion),
`granted` and `forgotten` are history.  `After` is the filter of `rateOk`, `Oldest` and
`Youngest` are what its eviction drops and keeps.  The clock does not go back; test mode is
left out.

`ConversationHistory`: `history` of one session, `snapshot` what `sessions.json` has of it,
`asking` the turns in the notarized request.  A turn is its length in UTF-16 units (what
the code adds up) and in bytes (what the limit is about).  `BuildMessages` is the loop, as
the function `kept[i]` of the `i` newest turns, checked against a definition by the longest
end that fits.  A turn without content is `Shortest` units long (28, the JSON around it),
and `HistoryAssumption` says what the source's numbers must leave for the rest of the
request: a comma after each turn counts too, and 2400 <= 28 * (4096 - `Overhead` - 2400)
holds for an `Overhead` of at most 1610 bytes.

### The browser

`BuyerWallet`: `note` is what chain and client know, `proposals` and `delta` the Guardian's,
`loop[l]` one `absorbNotes` that is run again and again (a redeem, a refund, the sweep of a
visit), `fund` one `fundEscrow`.  A loop lists its notes, resumes a proposal that names one
of them or makes one, executes (pushes the delta before it proves), and is done or refused.
`fundEscrow` retries on a pending delta only.  Ids of proposals that are gone are given out
again once nobody holds them, which keeps the instance finite.

`WalletIdentity`: `stored` is `localStorage`, `tab[t]` the `init` of a tab between two awaits,
`registry` the Guardian, `used` the accounts a page showed to its user.  `Fail` closes a tab
or throws anywhere, `RecoverFails` is the swallowed error of the recovery.

## Runs

| run | question | bounds |
|---|---|---|
| `session` | Does one session survive two competing chats in both tiers, repeated verification, retries, sweeps and a crash anywhere?  Also checks the inductive invariant `BillingInv` and that `HoldLedger` is implemented. | 1 session, 2 requests, 2 tiers, 1 crash, 2 verifications, 2 settlement tries |
| `sessions` | Do two sessions of one wallet disturb each other through the queue, the lock, the refund file and the anonymous cap?  Without the lock two answers would pass the cap together. | 2 sessions, 2 requests that compete for the answer lock, 1 crash, 1 refund file kept |
| `live` | Is every armed hold released, and the lock given back, when two sessions share the queue and the lock? | 2 sessions, one charge, 2 tries, no crash |
| `credits` | When is a code granted once, what do the claims say, with overlapping requests, failed mints, old records and a crash, and is every request answered?  Also checks the inductive invariant `CreditsInv`. | 2 wallets, 3 slots, 3 rungs, 3 requests, 1 crash |
| `escrow` | From the first set-up on: is a note split between the parties it names and nobody else, are the files those of the chain, do the roles keep their accounts, is every funded note settled, and do note and settlement keep the promise of `HoldLedger`? | 1 note of budget 2 in a field of 4 elements, 3 proposals, 1 wedge, 2 failed settlements, 1 set-up that dies, 7 ids |
| `browser` | Does the wallet open after any failure with the account it showed, does it leave its escrows alone, lock each once, and absorb every note? | 1 tab and 5 failures; 2 notes, 1 escrow, 2 loops, 3 proposals, 1 retry, 1 failed sync, 1 failure |
| `chat` | Is an answer the promised model's, its charge a proved one and, undisturbed, its own; is the limit exact; is the history the longest end that fits? | 2 chats, 2 tiers (one with a fallback), 3 calls, 1 crash; 3 keys, a Map of 2, two windows; 6 turns of up to 3 units |
| `free_reply`, `stranded_after_crash`, `stranded_unverified`, `once_per_wallet`, `stale_proof` | Do the comments, texts and tests quoted below hold?  They do not. | smallest instances |

*Are the bounds enough?*  A session's interleavings are between at most one answer
(there is one lock), one settlement (one flag) and one running binary, all present with
one session and two requests; a second request is what tries the lock, in `sessions` as
well: there `AnonOverrunIsOneReply` breaks without the lock, and would not with one slot.
Sessions interact only through the queue, the lock, a wallet's spend and a wallet's refund
files, each of which needs two sessions and no third.  Holds of 3 or 4 with charges of 1 to 3 admit a
reply that fits, one that fills the hold, and one that is refused; balance 2 gives a hold
below the tier's cap.  Two tries stand for six: a retry and a last try.  One crash covers
every pair of writes; a second crash could only meet an orphan of the first, which the
theorems cover.  Verifications are bounded (`MaxVerifies`) because nothing in the code
bounds them, crashes by `MaxCrashes`.  Deadlock is not checked: all holds released and
every session gone is a proper end.

Credits: a race needs two requests and a third to see its outcome; three rungs and three
requests climb the whole ladder; wallets meet only in the queue.

Escrow: a script sees only its own note and settlements are one at a time, so one note
does.  A budget of 2 has the charges 0, 1, 2 and one above the budget, and a field of 4
elements wraps on it.  Three proposals let two failed settlements come before a good one;
seven ids are two set-ups of the accounts, the two keys and the two multisigs, or fewer
set-ups and a new faucet; the theorems cover any number.

Wallet: overlapping proposals need two loops and two notes; two loops and a funding are
three submitters of one delta, and three proposals reach the cap.  Identity: every step of
`init` fails at least once, and five failures in a row are five visits.

Answers: two chats are enough for one to leave files to the other, three calls let one of
them fall back, one crash leaves one program behind.  Limiter: a Map of two keys evicts at
the third, and six ticks are two windows of three.  History: six turns with a budget of
four units are cut at every place.

*Symmetry.*  Request slots and session ids are interchangeable in the safety runs that use
`SYMMETRY`; the runs with liveness use none.

*Fairness.*  Bridge (`FairSpec`): every binary ends, for `run` kills it at its time limit; an
answer ends, for its three processes are started by `run` too; a turn that began is finished;
the backoff timer and the sweeper's interval fire (weak fairness).  `SF(SettleLand)`
says that a settlement submitted again and again is accepted once: without it the chain
could refuse for ever and no bridge could help.  It is strong because each try ends,
so landing is not continuously possible.  `WF(Sweep)` supposes the buyer's activity
ends: one who keeps touching a session keeps its own hold locked.  Buyers are owed
nothing: no fairness on starting, funding, chatting or ending.  In `BartokCredits` only
the running `fund_buyer` must end, by the same time limit.

`EscrowNote`: the bridge retries a settlement, hour after hour, whenever none is running
(`SF(Retries)`, strong because other settlements and the wedge come between), a settlement
that does not fail goes on (`WF(SettleStep)`), the Guardian's worker resolves a delta that
landed or was abandoned (`WF(DeltaGone)`).  Failures are bounded, so they cannot be the
answer for ever.  `BuyerWallet`: the loops poll on and a funding goes on (weak), and the
same worker.  Between two steps of the loop that holds the delta the others are refused,
which is progress of their own, so weak fairness suffices.  `WalletIdentity`: an open page
runs `init` to its end (weak), reload after reload.  `AnswerPipeline`, `RateLimiter` and
`ConversationHistory` are checked for safety only.

### What the checks show

Bridge, under all interleavings and one crash: charges never exceed the hold although the
check uses a spend read minutes earlier (`HoldCoversCharges`, which the lock alone makes
true); a reply is out only with its charge on disk (`ChargeIsDurableFirst`); nothing is
served against an unconfirmed note (`EscrowBacked`); one settlement per session over the
whole retry loop, sweeper included, in the queue of a bridge, though a binary that outlived
a crash may run beside it (`OneSettlePerSession`); an evicted session's hold is
released (`EvictionStrandsNothing`); the seller is never paid for a reply that was not
sent, but for one reply per crash (`PaysForRepliesSent`); refund files are real and
recorded once (`RefundFilesAreReal`); the anonymous cap is overrun by less than one reply
(`AnonOverrunIsOneReply`, where the comment at line 501 says "block once cumulative spend
would cross it"); a reply that finishes after the settlement was recorded is refused
(`NoReplyAfterSettling`).  Without crashes an armed hold is always released
(`ArmedHoldReleased`) and the lock given back (`PipelineFreed`).

Credits: a code is granted once per wallet outside the named risky cases, so overlapping
requests for different codes are safe once the wallet has a codes map, and so is the
migration of old records (`OnceUnlessRisky`); every claim was granted
(`ClaimedWasMinted`) and the ladder has no gap (`LadderIsPrefix`), even in the risky
cases; a failed mint does not stop the requests behind it (`RedeemAnswered`).

Escrow: a spent note's budget went whole and once to the two parties its storage names, at
a charge the bridge asked for, whoever tried what before (`BudgetIsSplit`); step by step
that is the ledger the bridge implements too (`ImplementsLedger`);
the printed files are the chain's notes, also when `accounts.json` changed during the
settlement (`FilesAreOnChain`); reruns of the set-up find the same multisigs
(`MultisigsStay`); a funded note is settled in the end unless the cap is full or its
faucet was replaced (`FundedIsSettled`).

Browser: absorption never touches an escrow, though the client lists it as available
(`EscrowLeftAlone`); a funding that threw and landed is not funded again (`LockedOnce`);
notes are absorbed in the end outside two named cases (`NotesAbsorbed`); the account a page
showed is the one that opens, and it always opens in the end (`FundsReachable`,
`WalletOpens`), with one tab at a time.

Chat: the model is one of the buyer's tier and the charge that of one successful call,
correctly rounded, whatever files were mixed (`ModelOfTheTier`, `ChargeIsProved`), and the
chat's own when its programs exited well (`CleanRunIsItsOwn`); the sliding window is exact
for a client that was not evicted (`LimitIsExact`); the history sent is the longest end that
fits (`LongestEndThatFits`), stays in whole exchanges over failures and crashes
(`WholeExchanges`), and fits the request when it is ASCII (`AsciiFits`).

### What the code does not keep

Five runs find a behaviour that a text of the repository excludes:

* **`free_reply`** - the guard after the answer reads `settled`, not `settling`: a reply
  that finishes while its session's settlement runs is sent, charged and never collected.
  The test that asserts the contrary settles instantly.
* **`stranded_after_crash`** - `settling: true` is persisted by any snapshot taken during
  a settlement and restored at boot; no handler clears it, `end` answers `settle_retry`
  and the sweeper skips the session for ever.
* **`stranded_unverified`** - a hold that was funded and never confirmed is skipped by
  the sweeper.
* **`once_per_wallet`** - a code is checked before its mint and claimed after it: two
  requests for one code (a double click, two tabs) both mint.  The same window, with two
  first redeems of different codes, erases the earlier claim.
* **`stale_proof`** - a prover that printed 200 and then failed leaves the proof of the
  chat before, which present and oracle accept: the reply is charged by it.

Eight more configurations, run by hand, each end in a counterexample; their properties are
stated in the modules:

| configuration | property | what happens, and what the repository says |
|---|---|---|
| `MCRefundLost.cfg`, `MCBartokBridge` | `RefundFileKept` | A settlement that landed and was reported as failed is evicted at the next try without a refund file, and the refund note is private.  "private refund NoteFiles persisted per buyer so a browser that dies mid-settle can still collect on its next visit" (server.js:354-355). |
| `MCStaleText.cfg`, `MCChat` | `TextIsItsOwn` | The text is read from a file that the prover may not have written: the buyer is shown the reply of the chat before.  "Your message and the answer stay private" (index.html:698). |
| `MCRateEvicted.cfg`, `MCChat` | `WithinLimit` | A Map keeps the order of first insertion, so the keys evicted are those seen first, active ones included.  "evict the oldest keys instead of wiping everyone's counters" (server.js:323). |
| `MCHistoryBytes.cfg`, `MCChat` | `BytesFit` | The budget counts UTF-16 units and the newest turn passes whatever its length.  "must stay under the notarized request's MAX_SENT_DATA of 4 KiB" (server.js:193-194). |
| `MCTwoTabs.cfg`, `MCBrowser` | `FundsReachable` | Two tabs of a first visit each make an account; the last write decides which one is ever opened again.  "never regenerate — that would orphan the account" (wallet.js:66). |
| `MCWalletStuck.cfg`, `BuyerWallet` | `AllNotesAbsorbed` | Proposals {a} and {a, b} of two loops: once {a} is executed, {a, b} is resumed for b for ever and never executes.  "Consume every available P2ID note" (wallet.js:116). |
| `MCProposalCap.cfg`, `MCEscrowNote` | `StillSettles` | Every try makes a new proposal and failed ones stay, until the Guardian's cap is full.  "never blind-retry proposal creation" (tasks/todo.md:95-101). |
| `MCFaucetReplaced.cfg`, `MCEscrowNote` | `HoldIsSettleable` | `settle_session` takes the faucet of `accounts.json` as it is now, so after `new_faucet` no earlier hold settles.  "Everything else ... untouched" (new_faucet.rs:3-5). |

## Proofs

`BartokBridge_proofs` proves, for all sets of sessions, buyers, requests and tiers, all
prices, holds and bounds satisfying the named `ASSUME`s (charges and holds are naturals,
a list is cut at a positive length, at least one try, a positive anonymous cap):

* `Typing` : `Spec => []TypeOK`.  `TypeOK` is not inductive (`attempt + 1` could leave its range), so
  it is proved with `BackoffHasAttempt`: a settlement in backoff has tries left.
* `Billing` : `Spec => [](TypeInv /\ BillingInv)`, the inductive invariant.  The hold check
  in `/api/chat` is sound only if the spend read before the answer is still the spend
  after it; that needs the lock (`OneChatAtATime`), and after a crash that memory is
  rebuilt to the same charges (`SnapshotIsCurrent`).  That a note is present when money
  is charged needs `FreshIsNew` (a rebuilt or new session was never armed) and
  `BillsAreBacked`.  `SettlesWhatWasCharged` bounds what queued, retried and orphaned
  settlements can pay.
* `HoldIsEnough`, `DurableFirst`, `Backed` : the safety properties `HoldCoversCharges`,
  `ChargeIsDurableFirst` and `EscrowBacked`, from `BillingInv`.
* `RepliesBeforeSettling` : `Spec => NoReplyAfterSettling`.  It rests on `TurnInv`: the
  session of a chat in flight is in the Map, or was evicted with its settled flag up, and
  the turn that charges and replies is not interleaved with the turn that evicts.
* `Refinement` : `Spec => ImplementsLedger`.  `StartSession` is the ledger's `Quote`,
  `FundEscrow` its `Lock`, `ChatCharge` its `Bill`, `SettleLand` and `OrphanSettles` its
  `Release`; every other step, the crash included, leaves the ledger's view alone.

Each step lemma (`StepFresh`, `StepSnapshot`, `StepChats`, `StepBills`, `StepJobs`) is one
conjunct of `BillingInv`; frame lemmas (`NoteFrame`, `ChargedFrame`, `LedgerFrame`) say
once which steps leave a piece of state alone.

`BartokSettling_proofs` goes on from there to what a settlement is and does:

* `OneSettlement` : `Spec => []OneSettlePerSession`.  The flag `settling` guards the door,
  but the property is about the queue: `OneSettler` ties the two together (the handler
  waits on the queue exactly while its job is there, and its flag is up), and `QueueMoves`
  says how each step changes the queue.
* `NothingStranded` and `RefundsAreReal` : `EvictionStrandsNothing` and
  `RefundFilesAreReal`, from `ReleaseInv`.  That a settlement which reports success did
  release the hold needs `LandedSettles` (what landed is the running settlement's, not yet
  in a refund file); that the handler, which evicts in a later turn than it records, evicts
  a spent session needs `RecordedIsSpent`; that a verification answering late does not arm
  a session evicted with its hold still locked needs `VerifiesKnown`.
* `SellerPaidForReplies` : `Spec => []PaysForRepliesSent`, from `PaidInv`.  A
  settlement is asked for between two turns, so it asks for at most `Sent`: the replies
  delivered, and one more for every crash, which can fall between a charge and its reply.
* `AnonOverrun` : `Spec => []AnonOverrunIsOneReply`, from `CapInv`: a chat that passed the
  cap holds the answer lock, so nobody else's reply comes between the check and the spend.

`BartokCredits_proofs` does the same for the credits, for all sets of wallets and slots,
any length of the ladder and all bounds: `CreditsTyping` (with `QueueInv`, without which
the head of the queue has no typed request), `Claims` : `Spec => []CreditsInv`, and from it
`Once`, `Granted` and `Ladder`.  `OnceUnlessRisky` is not inductive: that a mint about to
land has not been granted before needs `OnceInv` (a request's code is not claimed *now*,
in the object it holds, and no two requests of the wallet share a code), which needs
`ObjectInv` (before the first claim no request shares an object) and, across a crash,
`SavedInv`.  There is one lemma per action and conjunct; `RedeemFrame` and `MintOkFrame`
say once what an action does to objects, requests and claims.

`AnswerPipeline_proofs`, for all tiers, models, prices, token counts and bounds
(`PipelineAssumption`: prices and tokens are naturals, the denominator is positive, every
tier has a model): `Typing`, `ModelIsPromised`, `ChargeFromProof`, `CleanOwnership`.  The
invariants are `Known` (every number in a file or a process is a call that was made),
`RunInv` (the child of the bridge is the program of the run's stage, for its chat and the
model of its try), `PipeInv` (the two with the types), and `CleanInv`: in a clean run the
files are those of its own call from the stage on that wrote them, which no orphan
disturbs because there is none.  `Nearest` and `ChargeType` are the arithmetic of the rounding.

`EscrowNote_proofs`, for all sets of notes and buyers, any modulus and all bounds
(`EscrowAssumption`: a budget is positive and below the modulus, a buyer's account is not one of the
numbered ones): `Typing`, `MultisigsKept`, `BudgetSplit`, `FilesOnChain`, `Refinement`.
`MultisigsStay` is not inductive: that a rerun does not register a second account needs
`RolesInv` (a key belongs to one role, is saved before it is used, and a role that is about
to register has no account).  The note's invariant `NotesInv` says that only a spent note
has outputs and that they split its budget at an asked charge, `SettleInv` that the
settlement in progress is of a funded note with the faucet that note has, and that its
proposal is still at the Guardian.  `SmallMod` and `SplitOf` show that the subtraction does not
wrap below the budget; `AttemptRefused` that nobody else's attempt runs the script.
`Refinement` : `Spec => ImplementsLedger`.  `BuildEscrow` is the ledger's `Quote`, `Fund` its
`Lock`, `StartSettle` its `Bill` and a settlement that lands, seen or not, its `Release`; the
set-up, the Guardian's steps and the attempts of others leave the ledger alone.  It needs
`AskedInv` (what was asked for is within the hold), and `HighestIs` that a bounded set of
charges has a highest one.

`WalletIdentity_proofs`, for all bounds on ids and failures (`IdentityAssumption`):
`AccountsAreNamed`, that is `Spec => []TypeOK` for any number of tabs.  The types alone are not
inductive: the Guardian is to hold no account without an id or a key, so a tab whose init
runs has a key, and one that registers or saves has an account (`NamedInv`, `TypedInv`).
For a browser with one tab (`OneTab`), `OneTabKeepsFunds`: `Spec => []FundsReachable`.
`StoredInv` says that the saved account is registered under the saved key, `TabInv` that a
tab between creating and saving finds no account saved, so that saving replaces none that
was used (`NothingUsedYet`).  `OneTab` is needed: `MCTwoTabs.cfg` breaks the property with two.

`MCBrowser_proofs` proves the wallet and carries both parts to the browser that TLC runs.
For all notes, escrows, loops and bounds: `Typing`, `EscrowUntouched`, `FundedOnce`.
`EscrowLeftAlone` needs `UniqueIds` (an id names one proposal) and `LoopInv` (what a loop
is about to execute is a proposal to consume notes); `LockedOnce` needs `FundInv` (an
escrow that is being funded was not funded before, and never returns to the state from
which funding starts).  `BrowserKeepsFunds` and `BrowserTyping` are of `BrowserSpec`: a step
of the browser is a step of one part, which leaves the variables of the other alone.

`MCChat_proofs` is about what loops compute.  The library's induction theorems take an
operator as a parameter, which no prover here can instantiate; a set can stand for it.
`Induction` says that a set of numbers with 0 and with the successor of each of its members
is all of `Nat` (the least number outside it, `Least`, would have its predecessor in it), and
`InductionTo`, `SequenceInduction` are its forms for an interval and for sequences, which
grow by `Append`.  `LoopExists` gives, by the same induction, the function that a recursive
definition names.  From there:

* `LimitExact` : `ChatSpec => []LimitIsExact`, from `LimiterInv`.  Its part `Remembered` says
  that what was granted to a key in the window is what was lost of it followed by what `hits`
  still remembers inside the window, and that nothing is lost of a key that was never
  evicted.  The filter runs at different times on the two, so it must commute with
  appending (`FilterAppend`, `FilterConcat`), and a later filter must absorb an earlier one
  (`FilterTwice`): that is why a refused request may filter without changing any window.
* `LongestEnd` : `ChatSpec => []LongestEndThatFits`.  `Selected` is the invariant of the loop:
  after `i` turns it holds the end that starts where it stopped, with its size, and it
  stopped only before a turn that no longer fits.  `LaterIsShorter` (a later end has no
  more units) makes the first start that the loop refuses a bound for all earlier ones
  (`SelectsLongest`).
* `Exchanges` : `ChatSpec => []WholeExchanges`, with the snapshot alternating as well, for a
  crash brings it back, and the last turn asked being a prompt (`HistoryInv`).
* `AsciiRequestFits` : `ChatSpec => []AsciiFits`.  `HistoryInv` bounds the units of a request;
  `CommasFit` is the arithmetic of the rest: so many turns of at least `Shortest` units
  within the budget are few enough for their commas.
* `ChatTyping` : `ChatSpec => []ChatTypeOK`, the types of the three parts.

Only model-checked: liveness (`ArmedHoldReleased`, `PipelineFreed`, `RedeemAnswered`,
`FundedIsSettled`, `NotesAbsorbed`, `WalletOpens`), which rests on fairness and `ENABLED` and
is outside this prover's reach.  The configurations that end in a counterexample are TLC's
as well.

## Not modelled

* The buyer app's screen state (`index.html`): its requests come in any order in
  `BartokBridge` and its loops side by side in `BuyerWallet`, a wider set of behaviours.
* Torn or failing writes of the JSON files: a write is one step that succeeds.  The code
  logs a failing one and reads a file that does not parse as empty; a model would only
  restate that.
* `joao_sweep` beyond one run that succeeds or fails; `login` and password hashing.
* `openrouter_verify` and the key generator, run by hand; `smoke_escrow`, a manual test.
* The seller dashboard, static files, the Guardian proxy and the client log: output only.
* The Guardian, the Miden chain, OpenRouter and TLSNotary's cryptography are external: they
  are modelled by what the code in `src/` relies on, one delta per account, a cap on
  proposals, registration under a key, a note consumed once, a proof that verifies when its
  two halves belong together.
* Deployment scripts, vendored clients and documents.
