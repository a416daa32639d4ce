------------------------------- MODULE BtcLeg -------------------------------
(***************************************************************************)
(* One side's record of a swap against the Bitcoin chain it is about       *)
(* (wasm/manager.go, wasm/swap.go).                                        *)
(*                                                                         *)
(* The contract's address is public: outputs appear at it from anybody, in *)
(* any amount, are mined, reorganised out or replaced, and are spent by a  *)
(* redeem, which shows the secret, or after the locktime by a refund.  The *)
(* record follows them through a node that may not answer or answer wrong. *)
(* A call holds the store's lock from its load to its save (module Store), *)
(* so one runs at a time; the chain moves between its reads, and the page  *)
(* may go away in the middle of it.                                        *)
(***************************************************************************)
EXTENDS Integers, FiniteSets

CONSTANTS Output,     \* the outputs that may appear at a contract's address
          Contract,   \* the contracts this side may build or be sent
          None,       \* no contract, output or call
          MaxUpsets   \* how often the chain takes something back

ASSUME NoneAssumption == /\ None \notin Output \cup Contract
                         /\ None \notin {"refresh", "redeem", "refund"}
ASSUME BoundAssumption == MaxUpsets \in Nat

VARIABLES role, leg,   \* this side's: "initiator" or "participant", "send" or "receive"
          pays,        \* the contract whose script each output pays, None before it exists
          worth,       \* what each output holds
          place,       \* where each output is
          spent,       \* what the chain holds as each output's spend
          broadcasts,  \* every spend ever put on the network, <<output, kind>>
          forged,      \* the spends a node invented and a record was settled by
          clock,       \* how far the locktime is
          unlocked,    \* the secret is public in an unlock of the Zenon HTLC
          upsets,      \* reorganisations, replacements and evictions so far
          rec,         \* the stored record
          job          \* the call that runs

side == <<role, leg>>
chain == <<pays, worth, place, spent, broadcasts, upsets>>
vars == <<role, leg, pays, worth, place, spent, broadcasts, forged, clock, unlocked, upsets,
          rec, job>>

----------------------------------------------------------------------------
(* Amounts, places, spends and times.                                      *)
Short == 1
Agreed == 2       \* AmountSats
Amount == {Short, Agreed}

Absent == "absent"
There == "there"  \* in the mempool or a block: neither is asked about here
Place == {Absent, There, "replaced"}
Live(o) == place[o] = There

Unspent == [kind |-> "none", mined |-> FALSE]
Kind == {"redeem", "refund"}
Spend == [kind : Kind \cup {"none"}, mined : BOOLEAN]

\* Before the locktime, past it on the browser's clock, and past it in the
\* blocks' median time, about an hour later, which is what the script compares.
Clock == {"before", "passed", "median"}
Passed == clock # "before"

(* The record.                                                             *)
State == {"draft", "awaiting_funding", "funded", "expired", "redeemed", "refunded"}
Terminal(r) == r.state \in {"redeemed", "refunded"}
NoFunding == [out |-> None, value |-> 0, bound |-> None]
NoRefund == [out |-> None, contract |-> None]

\* The participant's secret arrives later; the initiator made it.  staked says
\* that a payment to the contract was reported, or that a Zenon HTLC's id is on
\* the record (FundingBroadcast, HtlcID); to the contract they are one.  dest says
\* that the record names an address to pay, which one restored from an old
\* backup may not; on the leg that receives, that only says where a redeem goes.
\* Of the log it keeps whether it says so (noDestNote), and
\* the output of which it last says that no refund could be signed.
NewRecord(dest) == [state |-> "draft", contract |-> None, funding |-> NoFunding,
                    refundTx |-> NoRefund, staked |-> FALSE,
                    secret |-> role = "initiator",
                    dest |-> dest, noted |-> FALSE, unsigned |-> None]

Funded(r) == r.funding.out # None

\* FundingBound: the script read off the transaction is this contract's.
FundingBound(r) == Funded(r) /\ r.funding.bound = r.contract /\ r.contract # None

RedeemRevealsSecret == leg = "receive" /\ role = "initiator"
SecretArrivesOnZenon == leg = "receive" /\ role = "participant"
RedeemHeldForShortFunding(r) == Funded(r) /\ r.funding.value < Agreed /\ RedeemRevealsSecret

\* A form of fundingIsOpen that goes on looking once the swap is over.
fundingIsShort(r) == r.funding.value < Agreed

\* fundingIsOpen: Refresh still looks for a better output.  A record with a
\* redeem on it is a redeemed one.
fundingIsOpen(r) == ~Terminal(r) /\ r.funding.value < Agreed

ContractCommitted(r) ==
    /\ r.contract # None
    /\ \/ Funded(r) \/ r.staked
       \/ r.refundTx # NoRefund
       \/ r.state \notin {"draft", "awaiting_funding"}

NoJob == [op |-> None, rec |-> NewRecord(TRUE)]

----------------------------------------------------------------------------
Init == /\ role \in {"initiator", "participant"}
        /\ leg \in {"send", "receive"}
        /\ pays = [o \in Output |-> None]
        /\ worth = [o \in Output |-> 0]
        /\ place = [o \in Output |-> Absent]
        /\ spent = [o \in Output |-> Unspent]
        /\ broadcasts = {} /\ forged = {}
        /\ clock = "before"
        /\ unlocked = FALSE
        /\ upsets = 0
        /\ \E dest \in BOOLEAN : (leg = "send" \/ dest) /\ rec = NewRecord(dest)
        /\ job = NoJob

Idle == job.op = None

----------------------------------------------------------------------------
(* The calls that decide and save with nothing to wait for.                *)

\* SetCounterpartyPKH on the leg that sends, AuditContract on the other: the
\* contract that comes of a key, or that arrives, is adopted until something
\* is staked on the one that is there.
AdoptContract(k) ==
    /\ Idle
    /\ k # rec.contract
    /\ ~ContractCommitted(rec)
    /\ rec' = [rec EXCEPT !.contract = k,
                          !.state = IF @ = "draft" THEN "awaiting_funding" ELSE @]
    /\ UNCHANGED <<side, chain, forged, clock, unlocked, job>>

\* SetSecret: a preimage pasted in by hand, which hashes to the swap's hash.
SetSecret ==
    /\ Idle
    /\ ~rec.secret /\ (unlocked \/ \E b \in broadcasts : b[2] = "redeem")
    /\ rec' = [rec EXCEPT !.secret = TRUE]
    /\ UNCHANGED <<side, chain, forged, clock, unlocked, job>>

\* A Zenon HTLC's id goes on the record (handleWalletSent, VerifyZenon).
RecordHtlc ==
    /\ Idle
    /\ ~rec.staked
    /\ rec' = [rec EXCEPT !.staked = TRUE]
    /\ UNCHANGED <<side, chain, forged, clock, unlocked, job>>

\* RecordFundingBroadcast: the page reports the payment its wallet made, if it
\* is still there to do it.
RecordFundingBroadcast ==
    /\ Idle
    /\ leg = "send" /\ ~rec.staked
    /\ \E o \in Output : place[o] # Absent
    /\ rec' = [rec EXCEPT !.staked = TRUE]
    /\ UNCHANGED <<side, chain, forged, clock, unlocked, job>>

----------------------------------------------------------------------------
(* Refresh, its node and its three reads.                                  *)

\* A read that the node gets right, gets wrong, answers with something it made
\* up, or does not answer.
Answer == {"right", "wrong", "forged", "failed"}

\* What an honest listing of the contract's address shows.
Listed(r) == {o \in Output : Live(o) /\ spent[o] = Unspent /\ pays[o] = r.contract}

\* pickFunding: an output that covers the amount before one that does not, the
\* larger of two alike.  With two amounts that is the larger.
Best(os) == {o \in os : \A p \in os : worth[p] <= worth[o]}

\* The outputs and amounts a listing may make pickFunding settle on, one
\* entry of None where there is nothing to pick.  A wrong one names any
\* transaction there is, with any amount.
Picked(r, answer) ==
    IF answer = "right"
    THEN IF Listed(r) = {} THEN {[out |-> None, value |-> 0]}
         ELSE {[out |-> o, value |-> worth[o]] : o \in Best(Listed(r))}
    ELSE {[out |-> o, value |-> v] : o \in {p \in Output : place[p] # Absent}, v \in Amount}

\* A form of Adopted that keeps the refund signed for the output given up.
AdoptedKeepingRefund(r, pick) ==
    IF pick.value > r.funding.value
    THEN [r EXCEPT !.state = IF Funded(r) THEN @ ELSE "funded",
                   !.funding = [out |-> pick.out, value |-> pick.value, bound |-> None]]
    ELSE r

\* The first output seen is adopted, and after it only a larger one.
Adopted(r, pick) ==
    IF pick.value > r.funding.value
    THEN [r EXCEPT !.state = IF Funded(r) THEN @ ELSE "funded",
                   !.refundTx = NoRefund,
                   !.funding = [out |-> pick.out, value |-> pick.value, bound |-> None]]
    ELSE r

\* What the funding transaction itself says: it holds what the listing said
\* and pays this contract.
Matches(r) == worth[r.funding.out] = r.funding.value /\ pays[r.funding.out] = r.contract

\* Forms of bindFunding: without the amount, and believing the listing.
BoundByScript(r, readable) ==
    IF Funded(r) /\ readable /\ pays[r.funding.out] = r.contract
    THEN [r EXCEPT !.funding.bound = r.contract] ELSE r
BoundUnread(r, readable) ==
    IF Funded(r) THEN [r EXCEPT !.funding.bound = r.contract] ELSE r

\* bindFunding: the script goes on the record once it is known to be this
\* contract's.
bindFunding(r, readable) ==
    IF Funded(r) /\ readable /\ Matches(r)
    THEN [r EXCEPT !.funding.bound = r.contract] ELSE r

\* noDestNote: a funded contract with nowhere to pay is said to have none.
Noted(r) == IF leg = "send" /\ Funded(r) /\ ~r.dest THEN [r EXCEPT !.noted = TRUE] ELSE r

\* A refund that was signed, or that could not be: the amount does not pay for
\* its fee, or the node's fee rate is beyond what is ever signed.
Signed(r, buildable) ==
    IF buildable
    THEN [r EXCEPT !.refundTx = [out |-> r.funding.out, contract |-> r.contract],
                   !.unsigned = None]
    ELSE [r EXCEPT !.unsigned = r.funding.out]

\* A form of PreSigned that signs only while the record says funded.
PreSignedWhileFunded(r, buildable) ==
    IF leg = "send" /\ r.refundTx = NoRefund /\ FundingBound(r) /\ r.dest /\ r.state = "funded"
    THEN Signed(r, buildable) ELSE r

\* The refund pre-signed as soon as the funding is bound, to the address the
\* record names.
PreSigned(r, buildable) ==
    IF leg = "send" /\ r.refundTx = NoRefund /\ FundingBound(r) /\ r.dest
    THEN Signed(r, buildable) ELSE r

\* Refresh up to the signature: the listing, the funding transaction.
RefreshReads(answer, readable, buildable) ==
    /\ Idle
    /\ rec.contract # None
    /\ IF fundingIsOpen(rec)
       THEN \E pick \in Picked(rec, answer) :
              job' = [op |-> "refresh",
                      rec |-> PreSigned(Noted(bindFunding(Adopted(rec, pick), readable)),
                                        buildable)]
       ELSE job' = [op |-> "refresh",
                    rec |-> PreSigned(Noted(bindFunding(rec, readable)), buildable)]
    /\ UNCHANGED <<side, chain, forged, clock, unlocked, rec>>

\* A transaction a node names, by the output it spends and how.
NoSpend == <<None, "none">>

SpendsOurs(r, tx) == tx[1] = r.funding.out
EndOf(tx) == IF tx[2] = "redeem" THEN "redeemed" ELSE "refunded"

\* Forms of Absorbed: taking the node's word for what was spent, leaving the
\* secret in the transaction, and misnaming the state.
AbsorbedUnchecked(r, tx) ==
    IF tx # NoSpend
    THEN [r EXCEPT !.state = EndOf(tx), !.secret = @ \/ tx[2] = "redeem"] ELSE r
AbsorbedSilently(r, tx) ==
    IF SpendsOurs(r, tx) THEN [r EXCEPT !.state = EndOf(tx)] ELSE r
AbsorbedAsKind(r, tx) ==
    IF SpendsOurs(r, tx)
    THEN [r EXCEPT !.state = tx[2], !.secret = @ \/ tx[2] = "redeem"] ELSE r

\* absorbSpend: a transaction with an input that names the funding ends the
\* swap, as a redeem when it shows the secret and else as a refund.  Neither
\* its hash nor its signature is looked at.
Absorbed(r, tx) ==
    IF SpendsOurs(r, tx)
    THEN [r EXCEPT !.state = EndOf(tx), !.secret = @ \/ tx[2] = "redeem"]
    ELSE r

\* Where a node can have the secret from: the Zenon unlock, a redeem on the
\* network, or one of this side's that it was given and refused.
SecretIsOut(r) == \/ unlocked
                  \/ \E b \in broadcasts : b[2] = "redeem"
                  \/ leg = "receive" /\ r.secret

\* A spend of the funding that nobody made.
Invented(r) == {<<r.funding.out, kind>> : kind \in {k \in Kind : k = "redeem" => SecretIsOut(r)}}
                 \ broadcasts

\* The transactions a node may name as the spender: the one there is, any other
\* there ever was, one it makes up, or none.
Named(r, answer) ==
    CASE answer = "right" -> IF spent[r.funding.out] = Unspent THEN {NoSpend}
                             ELSE {<<r.funding.out, spent[r.funding.out].kind>>}
      [] answer = "wrong" -> broadcasts
      [] answer = "forged" -> Invented(r)
      [] answer = "failed" -> {NoSpend}

\* The preimage off the counterparty's unlock, when the search finds it.
CanFind(r) == SecretArrivesOnZenon /\ unlocked /\ ~r.secret
PreimageFound(r, found) == IF found THEN [r EXCEPT !.secret = TRUE] ELSE r

Expired(r) == IF r.state = "funded" /\ Passed THEN [r EXCEPT !.state = "expired"] ELSE r

\* The rest of Refresh: the spend, the Zenon ledger, the clock, and the save.
RefreshSaves(spend, found) ==
    /\ job.op = "refresh"
    /\ found => CanFind(job.rec)
    /\ IF Funded(job.rec) /\ ~Terminal(job.rec)
       THEN \E tx \in Named(job.rec, spend) :
              /\ rec' = Expired(PreimageFound(Absorbed(job.rec, tx), found))
              /\ forged' = IF spend = "forged" THEN forged \cup {tx} ELSE forged
       ELSE /\ rec' = Expired(PreimageFound(job.rec, found))
            /\ UNCHANGED forged
    /\ job' = NoJob
    /\ UNCHANGED <<side, chain, clock, unlocked>>

----------------------------------------------------------------------------
(* Redeem and Refund: broadcast, then saveOutcome.                         *)

\* The network takes a spend of an output that is there, not spent yet, and
\* pays the contract k the spend was signed for.
Accepted(o, kind, k) ==
    /\ Live(o) /\ spent[o] = Unspent
    /\ pays[o] = k
    /\ kind = "refund" => clock = "median"

Put(o, kind) == /\ spent' = [spent EXCEPT ![o] = [kind |-> kind, mined |-> FALSE]]
                /\ broadcasts' = broadcasts \cup {<<o, kind>>}
                /\ UNCHANGED <<pays, worth, place, upsets>>

\* A form of MayRedeem without the rule on a short contract.
MayRedeemShort(r) == leg = "receive" /\ Funded(r) /\ r.secret

MayRedeem(r) == /\ leg = "receive" /\ Funded(r) /\ r.secret
                /\ ~RedeemHeldForShortFunding(r)

\* The caller gives an address where the record names none (payoutAddress).
Redeem(readable) ==
    /\ Idle
    /\ MayRedeem(rec)
    /\ LET r == bindFunding(rec, readable)
       IN /\ FundingBound(r)
          /\ Accepted(r.funding.out, "redeem", r.contract)
          /\ Put(r.funding.out, "redeem")
          /\ job' = [op |-> "redeem",
                     rec |-> [r EXCEPT !.state = "redeemed", !.dest = TRUE]]
    /\ UNCHANGED <<side, forged, clock, unlocked, rec>>

\* What the refund spends: the pre-signed one, or one built now.
RefundOf(r) == IF r.refundTx # NoRefund THEN r.refundTx
               ELSE [out |-> r.funding.out, contract |-> r.contract]

\* A form of MayRefund that refuses a record already marked expired.
MayRefundFunded(r) == leg = "send" /\ Funded(r) /\ Passed /\ r.state = "funded"

MayRefund(r) == leg = "send" /\ Funded(r) /\ Passed

\* A refund not signed yet is built now; one that cannot be changes nothing.
Refund(readable) ==
    /\ Idle
    /\ MayRefund(rec)
    /\ LET r == bindFunding(rec, readable)
           tx == RefundOf(r)
       IN /\ FundingBound(r)
          /\ Accepted(tx.out, "refund", tx.contract)
          /\ Put(tx.out, "refund")
          /\ job' = [op |-> "refund",
                     rec |-> [r EXCEPT !.refundTx = tx, !.state = "refunded", !.dest = TRUE]]
    /\ UNCHANGED <<side, forged, clock, unlocked, rec>>

\* saveOutcome.
SaveOutcome ==
    /\ job.op \in {"redeem", "refund"}
    /\ rec' = job.rec
    /\ job' = NoJob
    /\ UNCHANGED <<side, chain, forged, clock, unlocked>>

\* The tab goes away, the quota refuses the save, or the broadcast's answer is
\* lost: what the call had in hand is gone and what it did on the chain is not.
CallLost ==
    /\ ~Idle
    /\ job' = NoJob
    /\ UNCHANGED <<side, chain, forged, clock, unlocked, rec>>

----------------------------------------------------------------------------
(* The wallet, the counterparty and the chain.                             *)

\* This side's wallet or anybody else pays a contract's address.
Paid(o, k, v) ==
    /\ place[o] = Absent
    /\ pays' = [pays EXCEPT ![o] = k]
    /\ worth' = [worth EXCEPT ![o] = v]
    /\ place' = [place EXCEPT ![o] = There]
    /\ UNCHANGED <<side, spent, broadcasts, forged, clock, unlocked, upsets, rec, job>>

\* A spend is mined, and with it the output it spends.
SpendMined(o) ==
    /\ Live(o) /\ spent[o].kind # "none" /\ ~spent[o].mined
    /\ spent' = [spent EXCEPT ![o].mined = TRUE]
    /\ UNCHANGED <<side, pays, worth, place, broadcasts, forged, clock, unlocked, upsets, rec,
                   job>>

\* The counterparty redeems what this side sent, once it has the secret, or
\* refunds what this side should receive.
CounterpartySpends(o) ==
    /\ Live(o)
    /\ \/ /\ leg = "send" /\ (role = "participant" \/ unlocked)
          /\ Accepted(o, "redeem", pays[o]) /\ Put(o, "redeem")
       \/ /\ leg = "receive"
          /\ Accepted(o, "refund", pays[o]) /\ Put(o, "refund")
    /\ UNCHANGED <<side, forged, clock, unlocked, rec, job>>

\* The unlock of the Zenon HTLC that is not preceded by a Bitcoin redeem: the
\* initiator's, by this side when it sends Bitcoin, else by the counterparty.
SecretUnlocked ==
    /\ ~unlocked
    /\ (leg = "send") <=> (role = "initiator")
    /\ unlocked' = TRUE
    /\ UNCHANGED <<side, chain, forged, clock, rec, job>>

\* The chain takes something back: a payment is replaced, out of the mempool or
\* of a block that was reorganised away, a spend is evicted, or its block goes.
Upset(o) ==
    /\ upsets < MaxUpsets
    /\ upsets' = upsets + 1
    /\ \/ /\ Live(o) /\ ~spent[o].mined
          /\ place' = [place EXCEPT ![o] = "replaced"]
          /\ spent' = [spent EXCEPT ![o] = Unspent]
       \/ /\ spent[o].kind # "none" /\ ~spent[o].mined
          /\ spent' = [spent EXCEPT ![o] = Unspent]
          /\ UNCHANGED place
       \/ /\ spent[o].mined
          /\ spent' = [spent EXCEPT ![o].mined = FALSE]
          /\ UNCHANGED place
    /\ UNCHANGED <<side, pays, worth, broadcasts, forged, clock, unlocked, rec, job>>

ClockMoves ==
    /\ \/ clock = "before" /\ clock' = "passed"
       \/ clock = "passed" /\ clock' = "median"
    /\ UNCHANGED <<side, chain, forged, unlocked, rec, job>>

----------------------------------------------------------------------------
Calls == \/ \E k \in Contract : AdoptContract(k)
         \/ SetSecret \/ RecordHtlc \/ RecordFundingBroadcast
         \/ \E answer \in {"right", "wrong"}, readable, buildable \in BOOLEAN :
              RefreshReads(answer, readable, buildable)
         \/ \E spend \in Answer, found \in BOOLEAN : RefreshSaves(spend, found)
         \/ \E readable \in BOOLEAN : Redeem(readable) \/ Refund(readable)
         \/ SaveOutcome
         \/ CallLost

Environment == \/ \E o \in Output : \/ \E k \in Contract, v \in Amount : Paid(o, k, v)
                                    \/ SpendMined(o) \/ CounterpartySpends(o)
                                    \/ Upset(o)
               \/ SecretUnlocked \/ ClockMoves

Next == Calls \/ Environment

Spec == Init /\ [][Next]_vars

\* The chain makes blocks and time passes.  The page refreshes a live swap
\* every minute (useAutoRefresh), its node answers now and then and its calls
\* are not lost for ever; the user presses Refund while it is offered, with an
\* address where the card asks for one, and the agreed amount is worth the fee
\* of a refund.
Fairness == /\ \A o \in Output : WF_vars(SpendMined(o))
            /\ WF_vars(ClockMoves)
            /\ SF_vars(\E buildable \in BOOLEAN : RefreshReads("right", TRUE, buildable))
            /\ SF_vars(\E found \in BOOLEAN : RefreshSaves("right", found))
            /\ SF_vars(rec.state # "refunded" /\ Refund(TRUE))
            /\ SF_vars(SaveOutcome)
LiveSpec == Spec /\ Fairness

----------------------------------------------------------------------------
Funding == [out : Output \cup {None}, value : {0} \cup Amount,
            bound : Contract \cup {None}]
RefundTx == [out : Output \cup {None}, contract : Contract \cup {None}]
Record == [state : State, contract : Contract \cup {None}, funding : Funding,
           refundTx : RefundTx, staked : BOOLEAN, secret : BOOLEAN,
           dest : BOOLEAN, noted : BOOLEAN, unsigned : Output \cup {None}]

TypeOK == /\ role \in {"initiator", "participant"}
          /\ leg \in {"send", "receive"}
          /\ pays \in [Output -> Contract \cup {None}]
          /\ worth \in [Output -> {0} \cup Amount]
          /\ place \in [Output -> Place]
          /\ spent \in [Output -> Spend]
          /\ broadcasts \subseteq Output \X Kind /\ forged \subseteq Output \X Kind
          /\ clock \in Clock
          /\ unlocked \in BOOLEAN
          /\ upsets \in 0..MaxUpsets
          /\ rec \in Record
          /\ job \in [op : {None, "refresh", "redeem", "refund"}, rec : Record]

\* The pre-signed refund works with nobody watching: it spends the output the
\* record calls its funding, under the contract that output pays, whatever was
\* listed, adopted, given up or replaced on the way.
RefundRecoversTheFunding ==
    rec.refundTx # NoRefund => /\ rec.refundTx.out = rec.funding.out
                               /\ rec.refundTx.contract = rec.contract
                               /\ pays[rec.refundTx.out] = rec.contract

\* The initiator's secret is never published on Bitcoin for less than was
\* agreed: each redeem it broadcast takes the full amount.
SecretNotSoldShort ==
    RedeemRevealsSecret =>
        \A o \in Output : <<o, "redeem">> \in broadcasts => worth[o] = Agreed

Ended(r, kind) == r.state = IF kind = "redeem" THEN "redeemed" ELSE "refunded"

\* A swap is filed as redeemed or refunded only when a transaction that does so
\* to its funding was put on the network, or was invented whole by a node that
\* spends just that output with it; a transaction that is another's settles
\* nothing.  And until the chain takes something back, what was put on the
\* network is what the chain holds.
OutcomeIsReal ==
    \A kind \in Kind : Ended(rec, kind) =>
        \/ <<rec.funding.out, kind>> \in forged
        \/ /\ <<rec.funding.out, kind>> \in broadcasts
           /\ upsets = 0 => spent[rec.funding.out].kind = kind

\* A bound funding has its refund, or the user was told that and why it has
\* none: no address to pay, or a refund of this very output that could not be
\* built.  Never "a recovery file that quietly has no transaction in it"
\* (manager.go, Refresh), at whatever clock and after whatever failed before.
MissingRefundIsSaid ==
    leg = "send" /\ FundingBound(rec) /\ rec.refundTx = NoRefund
        => IF rec.dest THEN rec.unsigned = rec.funding.out ELSE rec.noted

\* What a later record r2 of the same swap may not undo of r1.  An end may give
\* way to another when the chain took something back, or when it was invented.
Advances(r1, r2) ==
    /\ r1.secret => r2.secret
    /\ ContractCommitted(r1) => ContractCommitted(r2) /\ r2.contract = r1.contract
    /\ r1.funding.value <= r2.funding.value
    /\ Terminal(r1) =>
         /\ Terminal(r2) /\ r2.funding.out = r1.funding.out
         /\ upsets = 0 /\ (\A kind \in Kind : Ended(r1, kind)
                                            => <<r1.funding.out, kind>> \notin forged)
              => r2.state = r1.state

\* No save undoes what the record held: a known secret, the contract once
\* something is staked on it, a funding for anything but a larger one, an end that
\* a transaction of this swap has come to and the chain has not taken back.
RecordOnlyAdvances == [][Advances(rec, rec')]_vars

\* Whoever's redeem it was, a record that says redeemed holds the secret: the
\* participant who sent Bitcoin can go on to claim the Zenon leg.
RedeemedMeansSecretKnown == rec.state = "redeemed" => rec.secret

\* A record's funding, once bound, is what the record says for good: the script
\* and the amount it names are the chain's.
BoundFundingIsReal ==
    FundingBound(rec) => pays[rec.funding.out] = rec.contract
                         /\ worth[rec.funding.out] = rec.funding.value

\* The record follows the full funding at output o.
Follows(o) == FundingBound(rec) /\ rec.funding.out = o /\ rec.funding.value = Agreed

\* As long as the chain takes nothing back and no node invents a spend, the
\* funder of a contract whose funding the record follows sees it spent:
\* redeemed, or refunded to it.
FunderIsSettled ==
    \A o \in Output : leg = "send" /\ Follows(o)
                        ~> (spent[o].mined \/ upsets > 0 \/ forged # {})

\* "A redeemed or refunded swap, whose key has nothing left to unlock"
\* (swap.go, DeletionRisk): a delete that costs nothing, were every spend that
\* settled the record a real one.
DeletingCostsNothing ==
    Terminal(rec) /\ forged = {} => ~\E o \in Output : Live(o) /\ spent[o] = Unspent /\ o = rec.funding.out
=============================================================================
