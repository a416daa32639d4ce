------------------------------ MODULE ZenonLeg ------------------------------
(***************************************************************************)
(* The HTLC on Zenon, this side's record of it, and the wallet that signs  *)
(* (wasm/walletblock.go, walletsync.go, manager.go VerifyZenon, znn/,      *)
(* ui ZenonWallet.vue, useZenonWallet.ts).                                 *)
(*                                                                         *)
(* The engine never signs: it proposes a block, the page hands it to the   *)
(* wallet, the wallet signs with whatever account it has selected and      *)
(* publishes through its own node, and the page reports the hash.  An      *)
(* account is switched, an answer lost, an entry not readable yet, or gone *)
(* because it was unlocked or reclaimed.  The app may be open in several   *)
(* tabs, each with a card of its own; the extension is one for all.  Calls *)
(* into the engine run one at a time (module Store), so each is one step;  *)
(* the awaits of a page are steps of their own.  Times are LegPlan's: here *)
(* an entry has expired or has not.                                        *)
(***************************************************************************)
EXTENDS Naturals, FiniteSets

CONSTANTS Id,         \* the entries made, named by the block that created each
          NoId,
          Tabs,       \* the tabs the app is open in
          Accounts,   \* the accounts of this user's wallet
          Peer,       \* the counterparty's address
          NoAddr,     \* a blank address
          Deniers,    \* the accounts that may have denied proxy unlock
          MaxMoves    \* bound on the changes of the wallet's settings

ASSUME NamesAssumption == /\ NoId \notin Id /\ Peer \notin Accounts
                          /\ NoAddr \notin Accounts \cup {Peer}
                          /\ Deniers \subseteq Accounts /\ MaxMoves \in Nat

VARIABLES role, leg,  \* as in LegPlan
          denied,     \* the accounts that have denied proxy unlock
          entry,      \* the entries, as the Zenon chain has them
          expired,    \* those past their expiration time
          rec,        \* Swap.Zenon and Swap.Secret of the stored record
          selected,   \* the wallet's account and whether its node is on this chain
          moves,      \* the changes of it so far
          wallet,     \* what each page last read of it
          card,       \* the block on each page's card and how far it has got
          buried,     \* an unlock is older than what is searched for it
          slips       \* what went wrong unseen: a create "lost" or "paired", a
                      \* departure "unseen"

swap == <<role, leg, denied>>
chain == <<entry, expired>>
settings == <<selected, moves>>
vars == <<swap, chain, rec, settings, wallet, card, buried, slips>>

----------------------------------------------------------------------------
Address == Accounts \cup {Peer}
Wallet == [account : Accounts, here : BOOLEAN]
Disconnected == [account |-> NoAddr, here |-> FALSE]
NoEntry == [by |-> NoAddr, to |-> NoAddr, short |-> FALSE, state |-> "none"]
NoCard == [phase |-> "empty", action |-> "none", asked |-> Disconnected,
           signer |-> NoAddr, id |-> NoId, moved |-> FALSE, dropped |-> FALSE,
           by |-> NoAddr, made |-> NoId, strayed |-> FALSE]

ZenonHtlcIsOurs == leg = "receive"
SecretArrivesOnZenon == leg = "receive" /\ role = "participant"
ZenonCreateWaitsOnBtc == leg = "receive" /\ role = "participant"

\* A block that the engine built, not published yet or published; and a create.
Built(c) == c.phase \in {"planned", "checking", "clearing", "inWallet", "published"}
Creating(c) == c.action = "create" /\ Built(c)
SetCard(t, c) == card' = [card EXCEPT ![t] = c]

Readable(h) == entry[h].state = "live"
Gone(h) == entry[h].state \in {"unlocked", "reclaimed"}
PreimagePublic == \E h \in Id : entry[h].state = "unlocked"

\* The terms a verdict needs and record r lacks: the payee, which is this user
\* where the counterparty creates the entry, and the amount.  The rest, and the
\* counterparty's address where it is the payee, are one: terms.
MissingZenonTerms(r) == ~r.terms \/ (~ZenonHtlcIsOurs /\ r.self = NoAddr)

\* withdrawStaleVerdict, on every load: a verdict of an earlier release may
\* have been reached with terms missing.
Loaded(r) == IF r.verified /\ MissingZenonTerms(r)
             THEN [r EXCEPT !.verified = FALSE, !.pending = FALSE] ELSE r

\* zenonVerifyParams: who the entry must pay, and who must have made it where
\* that is recorded.  Which is which turns over with who creates it.
PartiesMatch(r, h) ==
    IF ZenonHtlcIsOurs
    THEN entry[h].to = Peer /\ r.self \in {NoAddr, entry[h].by}
    ELSE entry[h].to = r.self /\ entry[h].by = Peer

\* A form of Verify that skips what it could not run.
VerifyWhatCanBeRead(r, h, tokenRead) ==
    IF \/ MissingZenonTerms(r) \/ ~PartiesMatch(r, h)
       \/ h \in expired \/ (tokenRead /\ entry[h].short)
    THEN "refused" ELSE "passed"

\* Client.Verify.  The amount needs the token's decimals; when only that could
\* not be read, the check is incomplete and not a verdict.
Verify(r, h, tokenRead) ==
    IF \/ MissingZenonTerms(r) \/ ~PartiesMatch(r, h)
       \/ h \in expired \/ (tokenRead /\ entry[h].short)
    THEN "refused" ELSE IF tokenRead THEN "passed" ELSE "incomplete"

\* A form of Judged that records an entry not judged yet as verified or not.
JudgedForGood(r, h, v) ==
    [r EXCEPT !.id = h, !.read = h, !.verified = FALSE, !.pending = TRUE]

\* A form of Judged that takes the payee from the entry.
JudgedAsObserved(r, h, v) ==
    [r EXCEPT !.id = h, !.read = h, !.self = entry[h].to, !.verified = v = "passed",
              !.pending = v = "incomplete"]

\* What VerifyZenon records of an entry it read, with verdict v: only a check
\* that could not be run leaves it pending.
Judged(r, h, v) ==
    [r EXCEPT !.id = h, !.read = h, !.verified = v = "passed", !.pending = v = "incomplete"]

\* A form of PreimageFound that asks about the entry, which an unlock deletes.
PreimageFoundByEntry(r) == SecretArrivesOnZenon /\ ~r.secret /\ \E h \in Id : Readable(h)

\* FindPreimage: the unlock, whoever published it, is looked for among the
\* payee's own sends, then in the contract's chain, and known by its hash; among
\* the newest ten pages of each.
PreimageFound(r) == SecretArrivesOnZenon /\ ~r.secret /\ PreimagePublic /\ ~buried
Recovered(r) == [r EXCEPT !.secret = TRUE]

\* VerifyZenon of id h on record r, by what the node answers: the entry, or the
\* ledger's account of one that is gone.
VerifyResults(r, h) ==
    (IF Readable(h) THEN {Judged(r, h, Verify(r, h, b)) : b \in BOOLEAN} ELSE {})
    \cup (IF Gone(h) /\ r.terms /\ PreimageFound(r) THEN {[Recovered(r) EXCEPT !.id = h]} ELSE {})

----------------------------------------------------------------------------
BlankRecord == [id |-> NoId, read |-> NoId, self |-> NoAddr, terms |-> FALSE,
                contract |-> FALSE, verified |-> FALSE, pending |-> FALSE,
                secret |-> FALSE, unlockHash |-> FALSE]

Live(by, to, short) == [by |-> by, to |-> to, short |-> short, state |-> "live"]

\* Manager.Create; or, on the side that sends Bitcoin, a record an earlier
\* release verified with its own address blank.
Init ==
    /\ role \in {"initiator", "participant"} /\ leg \in {"send", "receive"}
    /\ denied \in SUBSET (IF leg = "send" THEN Deniers ELSE {})
    /\ expired = {}
    /\ \E self \in Accounts \cup {NoAddr}, terms \in BOOLEAN :
         LET new == [BlankRecord EXCEPT !.self = self, !.terms = terms,
                                        !.secret = role = "initiator"]
         IN \/ rec = new /\ entry = [h \in Id |-> NoEntry]
            \/ /\ leg = "send" /\ self = NoAddr /\ terms
               /\ \E h \in Id, to \in Address :
                    /\ rec = [new EXCEPT !.id = h, !.read = h, !.verified = TRUE]
                    /\ entry = [i \in Id |-> IF i = h THEN Live(Peer, to, FALSE) ELSE NoEntry]
    /\ selected \in [account : Accounts, here : {TRUE}]
    /\ moves = 0
    /\ wallet = [t \in Tabs |-> Disconnected]
    /\ card = [t \in Tabs |-> NoCard]
    /\ buried = FALSE
    /\ slips = {}

----------------------------------------------------------------------------
(* The engine's own calls. *)

Save(r) == rec' = r

\* A form of Completed that keeps the verdict.
CompletedOnly(r, self, terms) == [r EXCEPT !.self = self, !.terms = terms]

\* The record with terms filled in: a verdict on fewer of them is withdrawn.
Completed(r, self, terms) ==
    LET filled == [r EXCEPT !.self = self, !.terms = terms]
    IN IF r.id = NoId THEN filled ELSE [filled EXCEPT !.verified = FALSE, !.pending = FALSE]

\* SetZenonTerms: a blank is filled in, what is there stays.
SetZenonTerms(self, terms) ==
    /\ rec.self \in {NoAddr, self} /\ (rec.terms => terms)
    /\ <<rec.self, rec.terms>> # <<self, terms>>
    /\ Save(Completed(Loaded(rec), self, terms))
    /\ UNCHANGED <<swap, chain, settings, wallet, card, buried, slips>>

\* handleZenon, of an id somebody typed or the session delivered.
VerifyZenon(h) ==
    /\ \E r \in VerifyResults(Loaded(rec), h) : Save(r)
    /\ UNCHANGED <<swap, chain, settings, wallet, card, buried, slips>>

\* FindZenonHtlc: a create on the creator's chain that would pass is verified as
\* any other.
FindZenonHtlc(h) ==
    LET r == Loaded(rec) IN
    /\ Readable(h) /\ Verify(r, h, TRUE) = "passed"
    /\ ZenonHtlcIsOurs => r.self = entry[h].by
    /\ \E b \in BOOLEAN : Save(Judged(r, h, Verify(r, h, b)))
    /\ UNCHANGED <<swap, chain, settings, wallet, card, buried, slips>>

\* verifyDue, of a swap that is not settled on Bitcoin.
verifyDue == rec.id # NoId /\ ~rec.verified /\ rec.pending

\* syncSwap asks again about a pending entry, and the node answers.
HeartbeatVerifies(tokenRead) ==
    /\ verifyDue /\ Readable(rec.id)
    /\ Save(Judged(rec, rec.id, Verify(rec, rec.id, tokenRead)))
    /\ UNCHANGED <<swap, chain, settings, wallet, card, buried, slips>>

\* The counterparty's Bitcoin contract is audited and kept; of the record this
\* user makes of its own contract nothing here depends.
AuditContract ==
    /\ leg = "receive" /\ ~rec.contract
    /\ Save([Loaded(rec) EXCEPT !.contract = TRUE])
    /\ UNCHANGED <<swap, chain, settings, wallet, card, buried, slips>>

\* Refresh, of a record with a contract, recovers the preimage that an unlock of
\* this user's entry published.
RefreshFindsPreimage ==
    /\ rec.contract /\ PreimageFound(rec)
    /\ Save(Recovered(Loaded(rec)))
    /\ UNCHANGED <<swap, chain, settings, wallet, card, buried, slips>>

\* The secret comes off the Bitcoin leg.
SetSecret ==
    /\ leg = "send" /\ ~rec.secret
    /\ Save([Loaded(rec) EXCEPT !.secret = TRUE])
    /\ UNCHANGED <<swap, chain, settings, wallet, card, buried, slips>>

----------------------------------------------------------------------------
(* The wallet and the cards. *)

\* runWalletSync, of what the wallet said of itself: its node is on this chain
\* by a momentum both have, and its account is the one the call must come from.
SyncOk(action, w) ==
    /\ w.account # NoAddr /\ w.here
    /\ \/ rec.self \in {NoAddr, w.account}
       \/ action = "unlock" /\ rec.self \notin denied

\* A new reading of the wallet: a block waiting on the card is dropped, and one
\* that sign() has in hand will find that the epoch moved.
DropsBlock(c) == IF c.phase = "planned" THEN NoCard
                 ELSE IF c.phase \in {"empty", "preparing"} THEN c
                 ELSE [c EXCEPT !.moved = c.phase = "checking", !.dropped = TRUE]

\* useZenonWallet.refresh and connect; the extension's announcement may be late.
PageReadsWallet(t) ==
    /\ card[t].phase # "empty" /\ wallet[t] # selected
    /\ wallet' = [wallet EXCEPT ![t] = selected]
    /\ SetCard(t, DropsBlock(card[t]))
    /\ UNCHANGED <<swap, chain, rec, settings, buried, slips>>

\* The list of swaps is read again and shows another HTLC than the block's.
Reload(t) ==
    /\ Built(card[t]) /\ card[t].id # rec.id /\ ~card[t].dropped
    /\ SetCard(t, IF card[t].phase = "planned" THEN NoCard
                  ELSE [card[t] EXCEPT !.dropped = TRUE])
    /\ UNCHANGED <<swap, chain, rec, settings, wallet, buried, slips>>

\* prepare: connect, and ask the engine for a block for that account.
Prepare(t, action) ==
    /\ card[t].phase = "empty"
    /\ wallet' = [wallet EXCEPT ![t] = selected]
    /\ SetCard(t, [NoCard EXCEPT !.phase = "preparing", !.action = action, !.asked = selected])
    /\ UNCHANGED <<swap, chain, rec, settings, buried, slips>>

planCreate(r) == ZenonHtlcIsOurs /\ r.id = NoId /\ r.contract /\ r.terms

\* A form of planUnlock that goes by the verdict on the record.
planUnlockOnRecord(r) == ~ZenonHtlcIsOurs /\ r.secret /\ r.id # NoId /\ rec.verified

\* The preimage is packed only for an entry read again and verified now.
planUnlock(r) ==
    /\ ~ZenonHtlcIsOurs /\ r.secret /\ r.id # NoId /\ ~MissingZenonTerms(r) /\ r.verified
    /\ Readable(r.id) /\ Verify(r, r.id, TRUE) = "passed"

\* By the expiration time last read; where none was, the contract decides.
planReclaim(r) == ZenonHtlcIsOurs /\ r.id # NoId /\ r.read \in expired \cup {NoId}

\* handleWalletBlock: the gate, then the plan.  That no id is recorded yet is all
\* a create is asked for: one that another tab has on its card is not known.
WalletBlock(t) ==
    LET c == card[t]
        r == Loaded(rec)
    IN /\ c.phase = "preparing"
       /\ SyncOk(c.action, c.asked)
       /\ \/ c.action = "create" /\ planCreate(r)
          \/ c.action = "unlock" /\ planUnlock(r)
          \/ c.action = "reclaim" /\ planReclaim(r)
       /\ SetCard(t, [NoCard EXCEPT !.phase = "planned", !.action = c.action,
                                    !.signer = c.asked.account, !.id = rec.id])
       /\ slips' = IF c.action = "create" /\ \E u \in Tabs \ {t} : Creating(card[u])
                   THEN slips \cup {"paired"} ELSE slips
       /\ UNCHANGED <<swap, chain, rec, settings, wallet, buried>>

\* The engine refuses, or cannot check: prepare shows the error.
PlanRefused(t) ==
    /\ card[t].phase = "preparing"
    /\ SetCard(t, NoCard)
    /\ UNCHANGED <<swap, chain, rec, settings, wallet, buried, slips>>

\* sign, pressed or tried again: the wallet is checked once more.
Sign(t) ==
    /\ card[t].phase = "planned"
    /\ SetCard(t, [card[t] EXCEPT !.phase = "checking", !.asked = wallet[t]])
    /\ UNCHANGED <<swap, chain, rec, settings, wallet, buried, slips>>

\* sign's own comparison, after the check.
SameWallet(t) == ~card[t].moved /\ wallet[t].account = card[t].signer

\* What follows checkSync: a create that answers Bitcoin has its funding checked
\* first, every other block goes to the wallet.
Checked(t) ==
    /\ card[t].phase = "checking"
    /\ SyncOk(card[t].action, card[t].asked) /\ SameWallet(t)
    /\ SetCard(t, [card[t] EXCEPT !.asked = Disconnected, !.phase =
                     IF card[t].action = "create" /\ ZenonCreateWaitsOnBtc THEN "clearing"
                     ELSE "inWallet"])
    /\ UNCHANGED <<swap, chain, rec, settings, wallet, buried, slips>>

\* The block is still on the card where only a call failed.
BackOnCard(c) ==
    IF c.dropped THEN NoCard
    ELSE [c EXCEPT !.phase = "planned", !.asked = Disconnected, !.by = NoAddr,
                   !.strayed = FALSE]

CheckRefuses(t) ==
    /\ card[t].phase = "checking"
    /\ SetCard(t, IF SameWallet(t) THEN BackOnCard(card[t]) ELSE NoCard)
    /\ UNCHANGED <<swap, chain, rec, settings, wallet, buried, slips>>

\* fundingCheck: whether their Bitcoin is still there is BtcLeg's and LegPlan's.
FundingChecked(t, holds) ==
    /\ card[t].phase = "clearing"
    /\ SetCard(t, IF holds THEN [card[t] EXCEPT !.phase = "inWallet"] ELSE NoCard)
    /\ UNCHANGED <<swap, chain, rec, settings, wallet, buried, slips>>

\* The contract's own rules for a call by an account.
ContractUnlocks(h, account) ==
    /\ Readable(h) /\ h \notin expired
    /\ account = entry[h].to \/ entry[h].to \notin denied
ContractReclaims(h, account) == Readable(h) /\ h \in expired /\ account = entry[h].by

Becomes(h, state) == entry' = [entry EXCEPT ![h].state = state]

\* The wallet signs with the account it has selected and publishes through its
\* own node; what the contract does not accept it refuses in its own time.
Published(c) == [c EXCEPT !.phase = "published", !.by = selected.account,
                          !.strayed = ~selected.here]
PublishCreate(t, h) ==
    /\ card[t].phase = "inWallet" /\ card[t].action = "create"
    /\ entry[h].state = "none"
    /\ entry' = [entry EXCEPT ![h] =
         [by |-> selected.account, to |-> Peer, short |-> FALSE,
          state |-> IF selected.here THEN "sent" ELSE "elsewhere"]]
    /\ SetCard(t, [Published(card[t]) EXCEPT !.made = h])
    /\ UNCHANGED <<swap, expired, rec, settings, wallet, buried, slips>>

PublishCall(t) ==
    LET c == card[t]
    IN /\ c.phase = "inWallet" /\ c.action \in {"unlock", "reclaim"}
       /\ IF selected.here /\ c.action = "unlock" /\ ContractUnlocks(c.id, selected.account)
          THEN Becomes(c.id, "unlocked")
          ELSE IF selected.here /\ c.action = "reclaim"
                  /\ ContractReclaims(c.id, selected.account)
          THEN Becomes(c.id, "reclaimed")
          ELSE UNCHANGED entry
       /\ SetCard(t, Published(c))
       /\ UNCHANGED <<swap, expired, rec, settings, wallet, buried, slips>>

\* The user closes the wallet's window.
WalletDeclines(t) ==
    /\ card[t].phase = "inWallet"
    /\ SetCard(t, BackOnCard(card[t]))
    /\ UNCHANGED <<swap, chain, rec, settings, wallet, buried, slips>>

\* What the wallet answers of the block it published: the account and the number
\* of the chain, which may be this one's though the chain is not; or the hash only.
HashOnly == [account |-> NoAddr, elsewhere |-> FALSE]
Answers(c) == {HashOnly} \cup {[account |-> c.by, elsewhere |-> e] : e \in {FALSE, c.strayed}}

\* A form of Mismatch that sees only another chain.
MismatchOfChain(c, a) == a.elsewhere

\* diffSignedBlock: another account, or another chain's number, than the block's.
Mismatch(c, a) == a.account \notin {NoAddr, c.signer} \/ a.elsewhere

\* The block is not the one proposed, and answer a does not show it.
Unseen(c, a) == c.by \notin {c.signer, a.account} \/ (c.strayed /\ ~a.elsewhere)

\* A form of RecordedCreate: the id is kept once the entry could be read.
RecordedCreateWhenRead(r, h, from) ==
    {[r EXCEPT !.self = IF r.self = NoAddr THEN from ELSE r.self]} \cup VerifyResults(r, h)

\* handleWalletSent of a create: the id is on the record before it is verified, and
\* a node that cannot read it yet leaves it pending; the page may close between.
RecordedCreate(r, h, from) ==
    LET noted == [r EXCEPT !.id = h, !.self = IF r.self = NoAddr THEN from ELSE r.self]
    IN {noted, [noted EXCEPT !.pending = TRUE]} \cup VerifyResults(noted, h)

WalletSent(t, a) ==
    LET c == card[t]
        r == Loaded(rec)
    IN /\ c.phase = "published" /\ ~Mismatch(c, a)
       /\ \/ /\ c.action = "create"
             /\ \E s \in RecordedCreate(r, c.made, wallet[t].account) : Save(s)
          \/ c.action = "unlock" /\ Save([r EXCEPT !.unlockHash = TRUE])
          \/ c.action = "reclaim" /\ Save(r)
       /\ SetCard(t, NoCard)
       /\ slips' = IF c.action = "unlock" /\ Unseen(c, a) THEN slips \cup {"unseen"} ELSE slips
       /\ UNCHANGED <<swap, chain, settings, wallet, buried>>

\* A published create whose id is not recorded.
Loses(c) == slips' = IF c.action = "create" THEN slips \cup {"lost"} ELSE slips

\* The block is not the one proposed: the account that signed is recorded, and
\* the call ends in an error.
MismatchSent(t, a) ==
    /\ card[t].phase = "published" /\ Mismatch(card[t], a)
    /\ Save([Loaded(rec) EXCEPT !.self = card[t].by])
    /\ SetCard(t, BackOnCard(card[t]))
    /\ Loses(card[t])
    /\ UNCHANGED <<swap, chain, settings, wallet, buried>>

\* The wallet's answer is too late, or walletSent fails before it saves; or the
\* page is closed.
AnswerLost(t, closed) ==
    /\ card[t].phase = "published"
    /\ SetCard(t, IF closed THEN NoCard ELSE BackOnCard(card[t]))
    /\ Loses(card[t])
    /\ UNCHANGED <<swap, chain, rec, settings, wallet, buried>>

----------------------------------------------------------------------------
(* The world. *)

\* The user switches account or node in the extension.
WalletMoves ==
    /\ moves < MaxMoves
    /\ \E w \in Wallet \ {selected} : selected' = w
    /\ moves' = moves + 1
    /\ UNCHANGED <<swap, chain, rec, wallet, card, buried, slips>>

\* A published create is in a momentum.
Confirm(h) ==
    /\ entry[h].state = "sent"
    /\ Becomes(h, "live")
    /\ UNCHANGED <<swap, expired, rec, settings, wallet, card, buried, slips>>

\* The counterparty locks ZNN, as agreed or not.
PeerCreates(h) ==
    /\ ~ZenonHtlcIsOurs /\ entry[h].state = "none"
    /\ \E to \in Accounts, short \in BOOLEAN :
         entry' = [entry EXCEPT ![h] = Live(Peer, to, short)]
    /\ UNCHANGED <<swap, expired, rec, settings, wallet, card, buried, slips>>

\* The counterparty unlocks this user's entry, or reclaims its own.
PeerSettles(h) ==
    /\ Readable(h)
    /\ \/ /\ entry[h].to = Peer /\ h \notin expired
          /\ Becomes(h, "unlocked") /\ buried' = FALSE
       \/ /\ entry[h].by = Peer /\ h \in expired
          /\ Becomes(h, "reclaimed") /\ UNCHANGED buried
    /\ UNCHANGED <<swap, expired, rec, settings, wallet, card, slips>>

\* More sends of the counterparty, and calls of the contract, than are searched.
Bury ==
    /\ SecretArrivesOnZenon /\ PreimagePublic /\ ~buried
    /\ buried' = TRUE
    /\ UNCHANGED <<swap, chain, rec, settings, wallet, card, slips>>

Expires(h) ==
    /\ entry[h].state \in {"sent", "live"} /\ h \notin expired
    /\ expired' = expired \cup {h}
    /\ UNCHANGED <<swap, entry, rec, settings, wallet, card, buried, slips>>

----------------------------------------------------------------------------
Action == {"create", "unlock", "reclaim"}

Engine ==
    \/ \E self \in Accounts \cup {NoAddr}, terms \in BOOLEAN : SetZenonTerms(self, terms)
    \/ \E h \in Id : VerifyZenon(h) \/ FindZenonHtlc(h)
    \/ \E b \in BOOLEAN : HeartbeatVerifies(b)
    \/ AuditContract \/ RefreshFindsPreimage
    \/ SetSecret

Page(t) ==
    \/ PageReadsWallet(t) \/ Reload(t)
    \/ \E a \in Action : Prepare(t, a)
    \/ WalletBlock(t) \/ PlanRefused(t)
    \/ Sign(t) \/ Checked(t) \/ CheckRefuses(t)
    \/ \E b \in BOOLEAN : FundingChecked(t, b)
    \/ \E h \in Id : PublishCreate(t, h)
    \/ PublishCall(t) \/ WalletDeclines(t)
    \/ \E a \in Answers(card[t]) : WalletSent(t, a) \/ MismatchSent(t, a)
    \/ \E b \in BOOLEAN : AnswerLost(t, b)

World ==
    \/ WalletMoves \/ Bury
    \/ \E h \in Id : Confirm(h) \/ PeerCreates(h) \/ PeerSettles(h) \/ Expires(h)

Next == Engine \/ (\E t \in Tabs : Page(t)) \/ World

\* Published blocks reach a momentum; the page asks about a pending entry every
\* minute and refreshes a swap that is not settled, and a node that blinks does
\* not do so at every turn.
Fairness == /\ \A h \in Id : WF_vars(Confirm(h))
            /\ SF_vars(HeartbeatVerifies(TRUE))
            /\ WF_vars(RefreshFindsPreimage)

Spec == Init /\ [][Next]_vars /\ Fairness

----------------------------------------------------------------------------
Record == [id : Id \cup {NoId}, read : Id \cup {NoId}, self : Accounts \cup {NoAddr},
           terms : BOOLEAN, contract : BOOLEAN, verified : BOOLEAN, pending : BOOLEAN,
           secret : BOOLEAN, unlockHash : BOOLEAN]
Entry == [by : Address \cup {NoAddr}, to : Address \cup {NoAddr},
          short : BOOLEAN,
          state : {"none", "sent", "elsewhere", "live", "unlocked", "reclaimed"}]
Card == [phase : {"empty", "preparing", "planned", "checking", "clearing", "inWallet",
                  "published"},
         action : Action \cup {"none"}, asked : Wallet \cup {Disconnected},
         signer : Accounts \cup {NoAddr}, id : Id \cup {NoId}, moved : BOOLEAN,
         dropped : BOOLEAN, by : Accounts \cup {NoAddr}, made : Id \cup {NoId},
         strayed : BOOLEAN]

TypeOK == /\ role \in {"initiator", "participant"} /\ leg \in {"send", "receive"}
          /\ denied \in SUBSET Deniers
          /\ entry \in [Id -> Entry] /\ expired \in SUBSET Id
          /\ rec \in Record
          /\ selected \in Wallet /\ moves \in 0..MaxMoves
          /\ wallet \in [Tabs -> Wallet \cup {Disconnected}]
          /\ card \in [Tabs -> Card]
          /\ buried \in BOOLEAN
          /\ slips \in SUBSET {"lost", "paired", "unseen"}

\* An entry that is all that was agreed, by the terms of record r.
AsAgreed(r, h) == /\ entry[h].state # "none" /\ ~entry[h].short
                  /\ ~MissingZenonTerms(r)
                  /\ IF ZenonHtlcIsOurs THEN entry[h].to = Peer ELSE entry[h].to \in Accounts

\* Every published create was recorded, and no two tabs had one in hand at once.
Orderly == slips \cap {"lost", "paired"} = {}

\* Whatever the page reads as verified is a verdict on every term, the amount
\* and the parties with them, of the entry that was last read, which is the one
\* the record names: a check that could not be run never is one, nor one reached
\* against fewer terms.  Where a create was lost or two were in hand, the id of
\* another may stand beside the verdict; it is still about the entry last read.
VerdictCoversTheTerms ==
    LET r == Loaded(rec)
    IN r.verified => AsAgreed(r, r.read) /\ (Orderly => r.id = r.read)

\* An unlock publishes the preimage, which gives the Bitcoin away: a block that
\* does so is, from the card to the chain, for an entry that holds what was
\* agreed and pays an account of this user's.
UnlocksWhatWasAgreed ==
    \A t \in Tabs : card[t].action = "unlock" /\ Built(card[t]) =>
        /\ entry[card[t].id].state # "none" /\ ~entry[card[t].id].short
        /\ entry[card[t].id].to \in Accounts

\* As long as every published create was recorded, and no two tabs had one in
\* hand at once, one lot of ZNN at most is locked, however young its entry is when
\* it is looked for and whichever tab asks for another.
OneLot == Orderly => Cardinality({h \in Id : entry[h].by \in Accounts}) <= 1

\* The record says this user's unlock was published, or the counterparty's seen,
\* only when an entry was unlocked or had run out, or when the wallet departed from
\* the block and its answer did not show it: Settled files a swap away by it, with
\* nothing left to collect.
UnlocksAreReal ==
    /\ rec.unlockHash /\ "unseen" \notin slips => PreimagePublic \/ expired # {}
    /\ SecretArrivesOnZenon /\ rec.secret => PreimagePublic

\* The leg implements the escrow: whatever is read, judged, signed, refused or lost,
\* this user's ZNN is locked once, then either taken by the counterparty in time, for
\* a preimage this record learns from that unlock only, or taken back after it ran
\* out; for as long as the creates were orderly.
Lots == {h \in Id : entry[h].by \in Accounts}
Lot == IF ~Orderly THEN "lapsed"
       ELSE IF Lots = {} THEN "none"
       ELSE IF \E h \in Lots : entry[h].state = "unlocked" THEN "unlocked"
       ELSE IF \E h \in Lots : entry[h].state = "reclaimed" THEN "reclaimed"
       ELSE IF \E h \in Lots : h \in expired THEN "over"
       ELSE "open"
Learned == Orderly /\ SecretArrivesOnZenon /\ rec.secret
Held == INSTANCE Escrow WITH lot <- Lot, learned <- Learned
LotIsHeldInEscrow == Held!Spec

\* A pending entry that can be read is judged: the page asks until a node
\* answers, unless the swap is over or the entry gone.
YoungHtlcIsJudged ==
    rec.pending /\ rec.id # NoId /\ entry[rec.id].state \in {"sent", "live"}
      ~> ~rec.pending \/ rec.verified \/ Gone(rec.id)

\* An unlock of this user's entry, by whatever account, deletes it; the preimage
\* it published is recovered all the same, unless nobody looked before the search
\* no longer reached it.
PreimageIsRecovered == SecretArrivesOnZenon /\ PreimagePublic ~> rec.secret \/ buried
=============================================================================
