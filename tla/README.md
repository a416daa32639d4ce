# Ferry in TLA+

Ferry swaps Bitcoin for Zenon in a browser tab: a Go engine compiled to
WebAssembly (`src/wasm`) decides and signs, a Vue page (`src/ui`) shows and asks,
and two people's tabs meet over public relays. This directory holds models of the
engine and of what the page does around it, checked with TLC on small instances
and proved with TLAPS for every instance.

## 1. Inventory

State, operations and what makes each part correct. "M" is modelled here,
"p" in part, "-" is left out (section 9).

| Part | State it keeps | Operations | What makes it correct | |
|---|---|---|---|---|
| Swap record store (`store.go`, `storage_js.go`) | one JSON record per swap in `localStorage`, with a version | Save, SaveIfAbsent, DeleteIf, Load, Export, Import | no decision lost, nothing deleted comes back, whoever writes | M |
| Call bridge and lock (`main_js.go`) | the Web Lock, one promise per call | call, underStoreLock | one call at a time over all tabs; one answer, and a true one | M |
| Bitcoin leg (`manager.go`, `swap.go`, `txbuild.go`, `chain/`) | contract, funding, pre-signed refund, state, secret | SetCounterpartyPKH, AuditContract, Refresh, RecordFundingBroadcast, SetSecret, Redeem, Refund | recovery works unattended; the secret is not sold short; the record says what the chain did | p |
| Leg ordering (`manager.go`, `swap.go`) | locktime, plan, verdict on the HTLC | Create, AuditContract, VerifyZenon, SetZenonTerms | the initiator's leg expires last, by two hours | p |
| Zenon leg and wallet path (`walletblock.go`, `walletsync.go`, `ZenonWallet.vue`) | prepared block, wallet epoch, HTLC id, verdict | walletBlock, walletSync, walletSent, fundingCheck, sign, FindZenonHtlc | ZNN is locked once; the preimage is spent only on what was agreed; a verdict is a verdict | p |
| Zenon client (`znn/`) | none | GetHtlcByID, Verify, FindPreimage, WhatHappenedTo | an unanswered check is not a verdict | p |
| Sessions (`session*.go`, `nostr.ts`, `useSession.ts`, `handoffs.ts`) | room, seen events, owed hand-offs, per-relay queues | publishOwed, resync, deliver, hello, ping, bye | every value owed arrives, none is applied twice or said twice | p |
| Board (`board*.go`, `useBoard.ts`) | identity, own posts, takes | publish, edit, accept, withdraw, forget, presence | the newest post wins; a withdrawn one is not shown; no offer is left without a record | p |
| Auto Mode, timers (`useAutoMode.ts`, `useAutoRefresh.ts`, `SwapCard.vue`) | armed, halted, attempted; a running flag | claim, halt, tick, burst, autoStep | a step is taken once; a live swap is refreshed | - |
| Contract script, keys (`htlc.go`, `keys.go`) | none | BuildContract, ParseContract, ExtractSecret | the template is strict | - |
| Chain identity, recovery, estimates, offers, pages | none, or wording | pure functions of a request | | - |

How they meet. The page calls the engine through one promise-returning entry
point; each call runs under a Web Lock named for the records, loads a record,
asks the nodes, decides and saves. The engine therefore runs one call at a time
over all tabs, while the chains move under it. The page reads the list of swaps
again when a call changed something, so what a component shows lags the record. Relay
messages arrive in the page and become engine calls. Wallet extensions sign what
the page hands over, whenever a person gets round to it.

Hard behaviours: two tabs on one record; a tab closed between a broadcast and its
save; a node that fails, or answers wrong; outputs at a public address from
anybody; reorganisations, replacements and evictions; two clocks, plus the
median time of Bitcoin's blocks; contracts that arrive again; blocks that wait in a
wallet's window; relays that drop, repeat and replay. `PROJECT.json` lists each at
the line where it bites, with the properties that cover it.

## 2. Modules

| Module | What it models |
|---|---|
| `AtomicRecord` | the promise of the store: one record, changed in one step per call |
| `Store` | tabs, Web Lock, mutex, versions and `saveOutcome`; implements `AtomicRecord` |
| `Escrow` | the promise to who locks ZNN: once, then taken for a preimage or taken back, never both |
| `Exchange` | the promise of a session: the receiver's hash, and only the contract built for it |
| `Slot` | the promise of a post: numbered versions that are never followed by an earlier one |
| `BtcLeg` | one side's record against the outputs, spends and blocks of its contract |
| `LegPlan` | the two expiries: locktime, plan, audit, verdict, create block |
| `ZenonLeg` | the HTLC on Zenon, the record of it, the card and the wallet that signs; implements `Escrow` |
| `Session` | two tabs in one room, what each owes the other, relays that copy, lose and replay; implements `Exchange` |
| `Board` | one post: its versions, the tabs that sign them, relays and readers; implements `Slot` |
| `MCStore`, `MCBtcLeg`, `MCLegPlan`, `MCZenonLeg`, `MCSession`, `MCBoard` | instances for TLC |
| `Store_proofs`, `BtcLeg_proofs`, `LegPlan_proofs`, `ZenonLeg_proofs`, `Session_proofs`, `Board_proofs` | theorems and their proofs |

They compose by their promises. `Store` shows that a call is atomic while the lock
holds, so in the other modules an engine call is one step (or, in `BtcLeg`, the steps
between which the chain moves) and only the awaits of the page interleave. `BtcLeg` asks
about one contract, `LegPlan` about the two expiries, `ZenonLeg` about
everything else of the HTLC; what a create has to know of the Bitcoin is a yes or no in
`ZenonLeg` (`FundingChecked`) and has its meaning in the other two.

### Store

A call is a process (`pc`) that waits for the lock (`Request`, `Grant`), loads
(`Load`), works, compares and writes in two steps under the tab's mutex
(`SaveCheck`, `SaveWrite`, as `Store.Save`), and answers (`Return`, `Finish`).
`kind` says which handler it is: a creation, a load-decide-save handler, a refresh
that adopts another funding, a redeem or refund that broadcasts before it saves,
a delete, an export, an import. The record is its version and the set of calls
whose decisions it holds, so that a lost update is a missing element. What
goes wrong: the lock request is rejected (`RequestRejected`), the lock is
stolen (`Steal`), there is no lock API (`locks`, then one module only, as
`underStoreLock` allows it), the quota refuses a write (`SaveWriteFails`), a tab
is closed anywhere (`CloseTab`). `SaveOutcomeAgain` and `SaveOutcomeFails` are the
retry of `saveOutcome`; `Reattaches` is its check that the record still names the
output and contract the transaction spent.

The refinement mapping takes the stored marks as the abstract record. The
promise lapses, and says so, when another context steals the lock, or when there
is no lock and a backup is imported: an import restores an old version,
which an old copy may then match.

### BtcLeg

`rec` is the stored record, `job` the call that is running with its copy, and the
rest is the world: which contract each output pays, what it holds, where it is
(there, replaced), what spends it. A call holds the store's lock from load
to save, so one runs at a time; a refresh is split between its reads
(`RefreshReads`: listing, binding, signature; `RefreshSaves`: spend, ledger,
clock, save) and a redeem or refund between broadcast and save, so the chain may
move, or the page vanish (`CallLost`), in between. Nodes answer right, wrong, with something made
up, or not at all: a wrong listing names any transaction and any amount, a wrong
spender any transaction on the network, and a forged one a spend that nobody made. `Adopted` is the
switch to a larger output, `bindFunding` the check against the funding transaction, `Absorbed` is
`absorbSpend`, which asks only that an input names the funding (`SpendsOurs`): `forged` remembers the invented spends that
settled a record, so that the properties can say what is left of them then. To show a redeem a node must have the
secret from somewhere (`SecretIsOut`), so an invented redeem still teaches it.
Two amounts stand for short and agreed, and three clock positions for before the
locktime, past it, and past it in the blocks' median time.

A refund is signed only where the record has an address to pay (`dest`) and it can be built (`buildable`: its fee is within what
is ever signed, and leaves more than dust). What is said of a missing one is in the record (`noted`, `unsigned`), since
`MissingRefundIsSaid` is about it: "recovery must not depend on ferry still being around later", and where it does,
the user is told. `RecordOnlyAdvances` is about what a call
that began with an older sight may save: a known secret, a contract with something staked on it, a funding
for anything but a larger one and an outcome stay.

A funding transaction is content-addressed, and `bindFunding` compares its hash, so reading it gives the truth
or nothing. The amounts of fees, confirmations and archiving are left out.

### LegPlan

Times are integers in seconds, the constants are the code's (2 h gap, 2 h
remaining, 48 h and 24 h legs). `planZenonLeg` and `wholeHours` are the code's
arithmetic, early return and rounding included. `AuditContract` is the whole
handler: the commitment check, `auditLegOrdering`, the new locktime, the new plan and the
advice its log line gives. `PlanCreate`, `Sign`, `HandOver` and `WalletSent`
follow a create block from the card to the chain, with the time that passes in
`sign()`'s awaits and in the wallet's window. `shown` is what the page last read,
and `Reload` the watch that discards a block on the card. The other terms of an HTLC
(hash, parties, token, amount) are one choice, whether they match.
That a funding is on the record is `funded`; what it takes to get there is
`BtcLeg`'s.

### ZenonLeg

`entry` is the Zenon chain's side: who made an entry, for whom, whether it holds less
than agreed (`short`), and where it is: published and not in a momentum, readable,
unlocked, reclaimed, or on another chain because the wallet's node was. `rec` holds the
fields of `Swap.Zenon` a verdict depends on: `id` is the entry it names, `read` the one last read.
Every load withdraws a verdict that was reached with
terms missing (`Loaded`, `withdrawStaleVerdict`), and a first state has such a record.
`Verify` is `Client.Verify`, with its third answer: a check that could not be run
is "incomplete" and is recorded as pending (`Judged`), never as a verdict.

The app may be open in several tabs, each with a `card` and its own reading of the one extension
(`wallet`). A card's block is prepared for an account (`Prepare`, `WalletBlock`), signed in the awaits
of `sign()` (`Sign`, `Checked`, `FundingChecked`), in the wallet's window, published,
reported (`WalletSent`, `MismatchSent`), or its answer lost (`AnswerLost`). That no id is recorded is asked
when a create is prepared and never again. Between any two steps
the user may switch the account or the node in the extension (`WalletMoves`); a
page learns of it when it reads the wallet (`PageReadsWallet`), which is the epoch of
`useZenonWallet`. `SyncOk` is the gate of `runWalletSync` with its exception for an unlock
by proxy. What the wallet answers of its block (`Answers`) is the account and the number of the chain, which another
network may share, or the hash alone; `Mismatch` (`diffSignedBlock`) compares what there is.

`VerifyResults` is what one verification may leave, by what the node answers: an entry
that is gone may have published the preimage, which is looked for in the ledger and not in
the entry (`PreimageFound`). The search reads ten pages of fifty blocks; `Bury` is what puts an unlock beyond them, and a
record with no contract is not refreshed at all (`AuditContract` brings one).

`slips` is history, for the properties: a create was "lost" (published, and its id not recorded) or "paired" (prepared
while another tab had one), or a departure went "unseen" (the wallet did something else than the block says, its answer did not show it,
and an unlock was recorded as done).

`Escrow` is what all of this is for, to the side that locks ZNN. The refinement mapping reads the lot
off the entries of this user's accounts (`Lot`, `Lots`) and what was learned off the record (`Learned`). It has
no wallet, no card and no node: that the chain allows an unlock only in time and a reclaim only after, that
a second create is refused, and that the preimage comes from an unlock of this lot, all have to come from the
model. The promise lapses where the code gives none, and `Orderly` says where: a create was lost or paired.

### Session

Per side: whether its tab is in the room with the swap attached, what its record
holds of the other's, what its list shows of that (`shown`), what `publishOwed` remembers to have
sent (`published`), by key, and the messages in the await of `sealSession` (`sealing`). A side owes its terms (a hash, or the contract
built for one) and then its stake (the Zenon HTLC's id, or the funding). A round of `publishOwed` sends one, awaits it and
goes on to the next with the list it began with: `rest` is what the next will be, and `Ends` claims and seals it in
whatever stay the tab is in by then. `Claim` marks a value
before the await, `GivenBack` takes the mark back when the send fails, `Forgotten` is
`forgetPublished`. A value is sealed as the record has it then, not as it was
claimed, and empty where no swap is attached. One set of served events stands for all relays: each may be delivered at any time,
again to a tab that joined again, or never (`RelaysLose`, a full queue, a pool that
closed). `Accepts` is the second look at the seen set after the await of the verification,
without which copies from two relays would both be applied. `Retried` is the
one retry of a value that met a stale write. `Press` and `ResyncArrives` are Re-sync; an answer
never asks back, so the requests on the relays are never more than the presses (`TypeOK`).

`Taken` is the engine's word on a value that arrives: the funder's `SetCounterpartyPKH` takes any hash until something is
staked on the contract, the receiver's `AuditContract` a contract that pays its key and leaves time enough (`late` once it
does not). `MistypeHash` is the form of the funder's card, which is there while the list shows no contract; the list may be
older than the record, so a typed hash may replace a right one. `Stake` is what makes the record refuse.

`Exchange` leaves out the room, the relays and the messages. It has what the two records hold: a hash, which
may be mistyped by hand and replaced by the right one until the contract is paid, and a contract, which comes only once the
funder has the right hash, and after which no other replaces it. A contract built for a mistyped hash is said, delivered,
replayed and refused.

### Board

`record` is the author's `MyPost`, `signed` the versions made of it, each with its time, an
id that decides a tie, its status and its expiry. A call of the engine saves first (`Seal`) and the page
publishes when it has answered, if the board is still open in that tab
(`PublishAll`). Each tab works from its own copy (`mine`), and a row's buttons by it. The
clock of the author may read a second late; `CreatedAt` is the floor that makes a
republish newer all the same. A first state is an earlier build's: two versions of
one second, of which relays kept different ones. `supersedes` and `Accepted` are a reader's
merge, `Arrive`, `Bury` and `Expire` a relay's.

`Slot` has no clock, no ids and no tabs. The mapping numbers the versions in the order they were
signed (`Number`; the two that an earlier build left in one second count as one), while relays and readers go by
time and id: that the two agree is what the floor of `CreatedAt` has to achieve.

## 3. Runs

| Run | Question | Result |
|---|---|---|
| `store_safety` | Do the calls of all tabs change the record as if one by one? Is "nothing was changed" true? Do outcomes land where they belong? | holds |
| `store_answers` | Is every call answered? | holds |
| `legplan` | Is what was judged, advised with room, or prepared against a funding in order? | holds |
| `legplan_verified` | Is everything verified in order? | violated |
| `legplan_signs` | Is every block handed to a wallet in order? | violated |
| `btcleg` | Is the refund the right one and there, or its absence told, the secret not sold short, the record true, and is nothing it held undone? | holds |
| `btcleg_live` | Does the funder end up with one of the two? | holds |
| `btcleg_delete` | Is a settled swap's key worth nothing? | violated |
| `zenon` | With two tabs: is a verdict about the terms, an unlock about what was agreed, an orderly create the only one? Is the user's ZNN an escrow? | holds |
| `zenon_wallet` | With a wallet that changes under the page: is a recorded unlock real, and about what was agreed? Is a young entry judged in the end, a published preimage recovered? | holds |
| `session` | Is what counts as sent sent, and said once? Is a copy applied once? Does Re-sync repair? Is the contract that arrives the one built for this hash? | holds |
| `board` | Does a later version win, a reader show the newest it read, no offer stand without a record, a withdrawal get seen? Is a post a slot? | holds |

Every property of a passing run has a changed form of the code in its module (a
comment "A form of ..." names it) under which TLC finds it violated.

### What the violations show

- `legplan_verified`: the HTLC is verified first, the contract comes second, and nothing
  compares them, as `zenonVerifyParams` sets no bounds without a contract. A later
  verification would.
- `legplan_signs`: only for an initiator who receives Bitcoin, whose contract no funding has
  committed yet. `AnswersAreOrdered` is what holds for the participant. The HTLC is then out
  of order and fails its own verification; its ZNN waits for expiry.
- `btcleg_delete`: the first sight of a spend, mined or not, is final for the record; the chain can
  still take it back, and then only the record's key can claim the funding.

## 4. Bounds

- `store_safety`: three calls, two tabs, one retry of `saveOutcome` (three in the
  code), versions to 3. Three calls are a writer, a writer in between and a
  restorer; the proofs remove the bound. Calls and tabs are symmetric.
- `store_answers`: two calls, no symmetry, since the property is temporal.
- `btcleg`: two outputs that compete, two contracts that replace each other, one upset of
  the chain, two amounts, either role on either leg; 1.3 million states. `btcleg_live`: one output, since it asks about one
  followed funding.
- `legplan`: expiries at 2 h, 4.5 h, just under 26 h, just over 26 h and 51 h from now, one day of time
  in two uneven jumps, the Zenon clock a minute behind, a form left blank or at 3 h: both
  sides of every threshold in the code, and half hours, which round either way.
- `zenon`: two tabs and two entries (a lot and a second one, or the right one and another), one account; entries and
  tabs are symmetric; 0.7 million states. Two creates in hand need two tabs, a verdict beside another id two entries. `zenon_wallet`: one
  tab and one entry, two accounts of which one may have denied proxy unlock, two changes of the wallet at any time, so that it may
  depart from a block and be back when it is reported; no symmetry, since two properties are temporal; 0.5 million states. The
  proofs have any number of each at once.
- `session`: a budget of three and one press of Re-sync; 0.4 million states. A loss, a failed call and a departure cost two, a mistyping, the
  contract's turning late, a payment and the press one: any one fault with any one of the others, or three of the others. A
  fault's effects are repaired, or not, by the press, so two faults show what one and a press do. Only the funder
  stakes (`Stakers`): a round with something after the terms is the same code on both sides, and the funder's stake is what closes
  the contract to another hash. A value is blank, wrong or right. Nonces and reasons count what happened, so
  nothing else is cut off. The proofs have any budget, any presses and any stakers.
- `board`: two tabs, two versions beside the two an earlier build left, a clock of two
  seconds and an expiry within it; an author's clock that lags does so by one second, the unit of the model. One relay is enough: a reader may be given any version ever published at
  any time, whatever a relay keeps, and a relay matters only for what it serves at the last.
- `CHECK_DEADLOCK FALSE` everywhere: calls end, tabs close and a swap may be over.

## 5. Fairness

- `Store`: the browser grants a free lock to a waiter, and work that holds it goes
  on, since each request has a timeout and a call has four minutes (`callTimeout`).
  Nothing makes the user call, or the tab stay open.
- `BtcLeg`: blocks are made and time passes (weak). Strong fairness of a refresh that its
  node answers, and of its save: the page refreshes a live swap every
  minute (`useAutoRefresh`), and a node, or the tab, may fail in between any number of times but
  not for ever. The refund is the user's to press; the property is about a user who does so
  while the swap is not refunded, with an address where the card asks for one, and `FunderIsSettled` says nothing of one
  who does not, nor of a record that an invented spend has settled.
- `ZenonLeg`: a published create gets into a momentum (weak). The heartbeat asks about a pending entry every
  minute and the node answers in full now and then (strong). A refresh looks for a preimage as long as the record has a
  contract and the unlock is within what is searched (weak: while both last). No wallet action is fair.
- `Session`: what the pages do by themselves: the list is read again after an accepted value and by the
  heartbeat, a seal ends, an event that a relay serves is delivered (weak, per side). Joining,
  attaching and pressing are the user's; `ResyncRepairs` is about a press with both in the room and
  lapses when somebody leaves or something fails again, when the contract has become late, or when one built for a
  mistyped hash was paid.
- `Board`: a reader that is connected reads what a relay keeps; it connects again four seconds
  after it was cut off (`nostr.ts`). That is a little more than the code gives: a read that fails in the engine while the
  connection lasts is swallowed, and that version read again only when the relay sends it again, on the next connection. Nothing makes a relay keep anything.

## 6. Proofs

Each holds for every value of the constants, from the named assumptions only: the
distinguished values are not calls, outputs or contracts, the bounds are naturals,
the times are integers, no account of the user's is the counterparty's.

- `Store_proofs`. `StoreTypeOK`; `RefusedIsUntouched`; `OutcomeIsOnItsOwnRecord`;
  `StoreIsAtomic`, that `Spec => Promise!Spec`. The properties alone are not inductive: a
  save is safe because of what all calls hold. `MarksInv` relates calls to marks:
  a call that has not begun is in no copy, and an outcome's copy names what it spent.
  `AtomicInv` adds the stages of a call, that only one creates, that versions of
  copies do not pass the stored one, that a mutex has one owner inside, and, while the
  promise holds, that a writer is alone and its copy current. From it each step
  is a step of `AtomicRecord` or none.
- `LegPlan_proofs`. `wholeHours` keeps the gap for every number of seconds
  (`WholeHoursKeepTheGap`), hence a plan with room lands right (`FreshPlanLandsRight`).
  The invariant adds that a block which answers Bitcoin has its funding on the record
  (`AnswersAreCommitted`): that is why no audit can move the locktime under it, and
  without it neither the card nor the wallet's window would be safe. `AnswersAreHandedOverInOrder` follows:
  the half of the violated `SignsOnlyOrderedBlocks` that does hold, the participant's. Of the arithmetic by itself,
  `WholeHoursAreNearest` says that the clamped rounding gives the best admissible whole hour, and zero only
  when there is none; `PlansRoundFreely`, that a plan's gap of a day against the two hours asked for leaves the clamp
  nothing to do, so every plan made has whole hours. The clamp is there for other constants.
- `BtcLeg_proofs`. The invariant says that record and running job are each sound: a bound
  funding is the chain's, a refund spends the bound funding, an outcome has its spend among
  the broadcasts or the forged, a redeemed record has the secret. The job has to be in it, since
  what it holds becomes the record one step later, with the chain moved. What an output pays and holds
  never changes once it is there, and what was broadcast stays so; that carries each part over.
  For the two properties about the record over time the invariant is `GoesOn`: the copy a call holds
  has advanced from the record as it is now, since nobody else saves in between, and in both a missing refund of a bound funding
  is said. Advancing is transitive (`AdvancesIsTransitive`), so each helper of a refresh (`PreSigned`, `Absorbed`,
  `PreimageFound`, `Expired`) has a lemma of its own and the handlers are chains of them.
- `ZenonLeg_proofs`. The invariant relates five things: what the chain says of an entry
  (`EntriesHold`: the wallet creates only where this user locks the ZNN, and what was reclaimed had run
  out), what the record says of it (`VerdictHolds`: a pass is of the entry last read, which as long as the creates are orderly is the
  one named), what the cards hold (`CardHolds`: an unlock on a card
  is for an entry that passed), who made the block in flight (`CreateHolds`), and, while the creates are orderly,
  that one card at most has a create in hand and the wallet's entries are the recorded one or that card's (`LotHolds`).
  `UnlocksWhatWasAgreed` needs the cards' part, since the record may move while the wallet's window is open;
  `OneLot` needs the part about the block in flight, since the entry is on the chain before its id is recorded.
  `LotStaysInEscrow` is the refinement. Its invariant `Whose` says that an account of the user's made an entry
  exactly when this side locks the ZNN. `ChainSteps` reduces every action to one of six moves of the chain,
  `ChainMovesTheLot` says what each does to the lot, and `UnlocksAreReal` that what a refresh learned came from an unlock.
- `Board_proofs`. `Stamps` numbers the versions in the order of signing, with times that follow it and a
  record that knows the last. `Unlike` says that no two versions agree in time and id, so that `Newest` is a
  total order on them and a reader's merge picks one. `Mirrors` says that the record has the status and
  the expiry of the last version signed: what the record allows to forget then has no standing version, though the
  button was enabled by a copy. `ReadersAgree` (two readers of the same versions show the same, as
  boardpost.go promises) needs only `Unlike` and that each shows the newest it read. `PostStaysASlot` is the refinement: numbers
  grow with signing (`Stamps`), `Newest` is the larger number, and each relay and reader moves by it.

- `Session_proofs`. `SaidOncePerReason` is not inductive: between the claim and the send a message is neither
  said nor gone, and a round may yet say the next. `Tallied` counts, for each side and key, the messages sent, those in the await, and one that a tab with
  nothing claimed may still send, against the reasons so far; `Backed` says that a claim has its message in the await or
  among those sent, for the same reason; `Steady` ties the claim to what the list shows and that to the record, without which
  a contract built again could be counted twice. All that `publishOwed` does, and
  the rest of its loop after an await, is a `Round`, and one lemma carries the three through it for every handler. `Asked` counts a side's requests, sent and in the await,
  against its presses. `CopiesApplyOnce` needs the types only: each application adds its event to the seen set. `SessionExchanges` is the
  refinement; `Founded` says that a contract said as right was built by a funder who has the right hash still, and that the list which
  gates the form shows a contract, so that no hash is typed over it: without that a late copy could bring a contract nobody stands by.

Only model-checked, since this prover has no liveness under fairness: `EveryCallAnswered`, `FunderIsSettled`,
`YoungHtlcIsJudged`, `PreimageIsRecovered`, `ResyncRepairs`, `WithdrawalIsSeen`. Every other property of a passing
run is stated by a theorem.

## 7. Known divergences without a run

Read off the code while it was modelled. None has a run of its own; the models have the step, or say
where they leave it out.

- *Advice with no room.* A participant who receives Bitcoin audits a contract with four and a half hours left. The
  audit accepts it, the plan needs twenty-six, so `planZenonLeg` keeps the plan made from the placeholder
  (`manager.go:112`) and the log line advises it (`manager.go:497-501`). `planCreate` refuses such a block;
  znn-cli does not. `AdviceWithRoomLandsRight` is about the other case.
- *A replaced funding.* A full funding is final for the record: `Refresh` does not list the address again
  (`manager.go:834`), while `walletblock.go:724-726` and `749-752` speak of a check that follows.
- *An invented spend.* `absorbSpend` says that a wrong answer "files a live swap away as settled" and checks that an input
  names the funding (`manager.go:876-893`). It compares no hash, as `bindFunding` does (`manager.go:1083`), and `RawTx` does not either
  (`esplora.go:181-190`), nor a signature; so a transaction a node makes up is believed. `OutcomeIsReal`, `RecordOnlyAdvances` and
  `FunderIsSettled` name it (`forged`).
- *A refund that is not there.* A blank address or a `BuildRefund` that fails leaves a bound funding saved with no refund
  (`manager.go:652-676`), where the comment wants recovery not to depend on ferry. It is said in the log, and tried
  again at every refresh; `MissingRefundIsSaid` is that promise.
- *Two tabs, two lots.* Two pages may each ask for a create while no id is recorded (`walletblock.go:229`), by hand or each
  by its Auto Mode, whose claims are a page's own (`useAutoMode.ts:48`, `71`, `124`), and `sign()` does not ask again
  (`ZenonWallet.vue:196-235`). Both are then signed. `WalletBlock` marks them as paired.
- *A lost create.* When the wallet published a create and its id did not reach the record, the block is offered for
  another try and locks a second lot (`walletblock.go:617`); `ZenonWallet.vue:176-182` calls trying again
  safe. `OneLot` and `LotIsHeldInEscrow` are about creates that were neither lost nor paired.
- *A verdict beside another id.* Where a second create was made, its id is recorded and `verified` stays as it was reached on the
  first (`walletblock.go:626-650`), until the new entry is read. `VerdictCoversTheTerms` says which entry the verdict is of.
- *A chain with the same number.* `diffSignedBlock` compares chain identifiers, which development networks share, and nothing at all where
  the wallet reports a hash without a block (`walletblock.go:508`, `537`; `zenon-wallet.ts:470-474`). An unlock published elsewhere
  is then recorded as done. `UnlocksAreReal` excepts such an answer and covers those that show it.
- *An unlock too far back.* The search for the preimage reads the newest ten pages of fifty blocks (`manager.go:745-748`,
  `ledger.go:200`, `240`), on a record with a contract. `Bury` is the rest.
- *A claim from another stay.* `publishOwed` awaits between two hand-offs and looks at neither room nor swap again
  (`useSession.ts:415-420`). When the tab left and came back in that await the second goes out empty, with no swap attached, and its
  claim stands, where the comment says a hand-off that failed is forgotten (`useSession.ts:371-372`). `ClaimsWereSent` names it; a press
  of Re-sync repairs it.
- *A stale page of the docs.* `docs/TESTING.md:273-274` says that two tabs "will overwrite each other"; the version
  check of `Store.Save` is what prevents it (`RecordIsAtomic`).
- *A mismatch rewrites the payee.* `walletblock.go:590` writes the account that signed over the recorded one; elsewhere the
  address is set where it is blank and never changed. `MismatchSent` is that step.
- *A withdrawal nobody hears.* With the pool closed the engine has marked the record void and the page publishes
  nothing (`useBoard.ts:594`); a void record may be forgotten, and the offer stands until it expires. `PublishAll`
  without the pool is that step. `ForgetsNoStandingOffer` is about what was signed, not about what was heard.
- *The watcher that retires a post* waits for a swap id that only `link` sets (`useBoard.ts:780`), which nothing
  calls; BOARD.md:566-575 describes it.
- *A change of network* lets an edit publish the slot under another one (`board_api.go`, `handleBoardPublish`).
- *The tombstone's own end.* A withdrawal expires after `MinPostTTL`, and relays that honour the request
  to forget drop it with the offer: a reader that was away then keeps the offer until its expiry (`board_api.go:491`).
  `WithdrawalIsSeen` says "still serves" for that reason.
- *Editing a taken post* opens it again, whatever the trade under way.

## 8. Plan

Done: the store, the Bitcoin leg, the leg ordering, the Zenon leg with its wallet, sessions and the board, each with a
run and proofs. Open, in this order:

1. `AtomicSwap`, abstract: both legs settle or neither does, and `Swap`: two sides, each a `BtcLeg` and a `ZenonLeg`
   reduced to their promises, shown to implement it for those who act in time.
2. `AutoMode` with the timers: a step is claimed once in a page, a halt holds, the shared flag is released.
3. The board's takes: a take is sealed for one post, accepted once, and its room joined by two.

## 9. Not modelled

- Script bytes, signatures and fees (`htlc.go`, `txbuild.go`): a contract is a value, that a refund can be built is a choice, and a spend is
  accepted when it was signed for the contract its output pays. Confirmations and archiving.
- Auto Mode and the timers, with their claims, halts and the shared running flag: an automatic press is an action of `BtcLeg` or `ZenonLeg`, which is there
  whoever presses, as often as its guard allows; the timers are the fairness.
- Chain identity: fingerprints are compared over a session; what the wallet's gate makes of one is `SyncOk`.
- Of sessions: hellos, pings, byes, nudges, the sealing itself, a third party in the room, a change of role. The card's "Send it
  again" sends outside the claims, at the user's wish, and is not counted by `SaidOncePerReason`. There is one swap: a round that
  outlived its stay and found another swap attached would seal that one's value under the first one's claim. The form
  for the hash goes by the list at the press, and its call is taken to reach the engine before a list that shows a
  contract is acted upon.
- Of the board: takes, presence, proofs of addresses, several posts, the network, the link to a swap.
- Of the Zenon client: transport, paging and retries are an answer, right or none; plasma and fees.
- Transport (`httpx`, WebSocket), pages, wording, formatting. Recovery files, cost estimates and offer
  comparison are pure functions of one request.
