------------------------------ MODULE LegPlan ------------------------------
(***************************************************************************)
(* The two expiries of one swap, as one side's record holds them           *)
(* (wasm/manager.go, wasm/walletblock.go, ui ZenonWallet.vue).             *)
(*                                                                         *)
(* The initiator's leg must expire last, by MinLegGap.  The Bitcoin expiry *)
(* is the contract's locktime: this side's own when it sends Bitcoin, and  *)
(* a placeholder until the counterparty's contract is audited when it      *)
(* receives.  The Zenon expiry is the HTLC's: advised by a plan made from  *)
(* the locktime, checked when a wallet block is built and when an HTLC is  *)
(* verified.  Times are whole seconds; the browser and the Zenon chain     *)
(* have a clock each.                                                      *)
(***************************************************************************)
EXTENDS Integers

CONSTANTS LockHours,  \* what the create form's timelock field may hold, 0 blank
          Spans,      \* how far away the counterparty's expiries may be
          Jumps,      \* how much time may pass at once
          Drifts,     \* the Zenon chain's clock less the browser's
          Horizon,    \* bound on the time explored
          None        \* no advice

ASSUME TimesAssumption == /\ LockHours \subseteq Nat
                          /\ Spans \subseteq Int /\ Jumps \subseteq Nat
                          /\ Drifts \subseteq Int /\ Horizon \in Nat
ASSUME NoneAssumption == None \notin Int

Hour == 3600
MinLegGap == 2 * Hour
MinLegRemaining == 2 * Hour
initiatorLockHours == 48
participantLockHours == 24
defaultLegGap == (initiatorLockHours - participantLockHours) * Hour

VARIABLES role, leg,  \* this side's: "initiator" or "participant", "send" or "receive"
          now,        \* the browser's clock
          drift,      \* what the Zenon chain's clock is ahead of it
          lockTime,   \* Swap.LockTime
          contract,   \* a contract is on the record
          funded,     \* a funding of it is
          shown,      \* the locktime the page last read
          plan,       \* ZenonLeg.ExpirationSeconds and ExpirationHours, 0 unset
          advice,     \* the plan as the last audit's log line gives it, and when
          htlc,       \* the record's HTLC: "none", "unverified" or "verified"
          expiry,     \* ZenonLeg.ExpirationTime, 0 unset
          judged,     \* the verdict on it was reached with a contract on the record
          block       \* the create block on the card, in sign() or in the wallet

side == <<role, leg, drift>>
zenon == <<htlc, expiry, judged>>
terms == <<lockTime, contract, plan, advice>>
vars == <<role, leg, drift, now, lockTime, contract, plan, advice, funded, shown,
          htlc, expiry, judged, block>>

----------------------------------------------------------------------------
ZenonLegIsInitiators == (leg = "receive") <=> (role = "initiator")
BitcoinLegIsInitiators == ~ZenonLegIsInitiators
ZenonHtlcIsOurs == leg = "receive"
ZenonNow == now + drift

\* The invariant every swap rests on, of a Zenon expiry and a Bitcoin locktime.
LandsRight(e, L) == IF ZenonLegIsInitiators THEN e >= L + MinLegGap ELSE e <= L - MinLegGap

Larger(a, b) == IF a > b THEN a ELSE b
Smaller(a, b) == IF a < b THEN a ELSE b

\* The plan in the whole hours znn-cli takes: to nearest, then back into the
\* range that keeps the gap; 0 when no whole hour does.
wholeHours(secs, btcSecs) ==
    LET nearest == (secs + 1800) \div Hour
        earliest == (btcSecs + MinLegGap + Hour - 1) \div Hour
        latest == (btcSecs - MinLegGap) \div Hour
        clamped == Smaller(nearest, latest)
    IN IF ZenonLegIsInitiators THEN Larger(nearest, earliest)
       ELSE IF clamped < 1 THEN 0 ELSE clamped

PlanOf(secs, btcSecs) == [secs |-> secs, hours |-> wholeHours(secs, btcSecs)]

\* A leg gap past the locktime L, or before it: how far from t that is.
LegGapFrom(L, t) == (IF ZenonLegIsInitiators THEN L + defaultLegGap ELSE L - defaultLegGap) - t

\* Forms of planZenonLeg: always before the Bitcoin leg, and without the floor.
PlanBefore(old, L, t) ==
    IF htlc = "verified" \/ L - defaultLegGap - t < MinLegRemaining THEN old
    ELSE PlanOf(L - defaultLegGap - t, L - t)
PlanAnyway(old, L, t) ==
    IF htlc = "verified" THEN old ELSE PlanOf(LegGapFrom(L, t), L - t)

\* planZenonLeg: the plan for locktime L, where there is room for one; where
\* there is none, or the HTLC is verified, the plan stays what it was.
planZenonLeg(old, L, t) ==
    IF htlc = "verified" \/ LegGapFrom(L, t) < MinLegRemaining THEN old
    ELSE PlanOf(LegGapFrom(L, t), L - t)

NoPlan == [secs |-> 0, hours |-> 0]
NoBlock == [expiry |-> 0, phase |-> "none"]

----------------------------------------------------------------------------
\* Manager.Create.  A side that sends Bitcoin and knows the counterparty's
\* pubkey hash has its contract at once.
Init == /\ role \in {"initiator", "participant"}
        /\ leg \in {"send", "receive"}
        /\ drift \in Drifts
        /\ now = 0
        /\ \E h \in LockHours :
             lockTime = Hour * (IF h # 0 THEN h
                                ELSE IF BitcoinLegIsInitiators THEN initiatorLockHours
                                ELSE participantLockHours)
        /\ contract \in BOOLEAN /\ (contract => leg = "send")
        /\ funded = FALSE
        /\ shown = lockTime
        /\ htlc = "none"
        /\ plan = planZenonLeg(NoPlan, lockTime, now)
        /\ advice = None
        /\ expiry = 0
        /\ judged = FALSE
        /\ block = NoBlock

\* SetCounterpartyPKH: the contract is built with the locktime of the record.
SetCounterpartyPKH ==
    /\ leg = "send" /\ ~contract
    /\ contract' = TRUE
    /\ UNCHANGED <<side, now, lockTime, plan, advice, funded, shown, zenon, block>>

\* Refresh adopts a funding of the contract; BtcLeg says what that takes.
RecordFunding ==
    /\ contract /\ ~funded
    /\ funded' = TRUE
    /\ UNCHANGED <<side, now, terms, shown, zenon, block>>

\* auditLegOrdering, of the locktime L of the contract that arrived.
auditLegOrdering(L) ==
    /\ L - now >= MinLegRemaining
    /\ IF BitcoinLegIsInitiators
       THEN L - now >= MinLegGap + MinLegRemaining
       ELSE \/ expiry = 0 \/ htlc # "verified"   \* nothing to compare against
            \/ expiry >= L + MinLegGap

\* Forms of ContractCommitted that forget the HTLC, or the funding.
CommittedByFunding == contract /\ funded
CommittedByHtlc == contract /\ htlc # "none"

\* ContractCommitted, of what this module has: a funding seen at its address,
\* an HTLC against its locktime.
ContractCommitted == contract /\ (funded \/ htlc # "none")

AuditContract(L) ==
    /\ leg = "receive"
    /\ ~ContractCommitted
    /\ auditLegOrdering(L)
    /\ contract' = TRUE
    /\ lockTime' = L
    /\ plan' = planZenonLeg(plan, L, now)
    /\ advice' = IF htlc = "none" /\ plan'.secs > 0
                 THEN [at |-> now, secs |-> plan'.secs, hours |-> plan'.hours] ELSE None
    /\ UNCHANGED <<side, now, funded, shown, zenon, block>>

\* The page reads its swaps again; the card's watch on the locktime drops a
\* block that is on the card, and knows nothing of one sign() already holds.
Reload ==
    /\ shown # lockTime
    /\ shown' = lockTime
    /\ block' = IF block.phase = "planned" THEN NoBlock ELSE block
    /\ UNCHANGED <<side, now, terms, funded, zenon>>

\* A form of WithinBounds that checks only a leg that must outlive the Bitcoin one.
WithinMinExpiration(e) == contract /\ ZenonLegIsInitiators => e >= lockTime + MinLegGap

\* The bounds zenonVerifyParams sets once the contract is on the record.
WithinBounds(e) == contract => LandsRight(e, lockTime)

\* VerifyZenon, of an entry that expires at e; the rest of its terms match or
\* they do not.
VerifyZenon(e, restMatches) ==
    /\ htlc' = IF restMatches /\ e - ZenonNow >= MinLegRemaining /\ WithinBounds(e)
               THEN "verified" ELSE "unverified"
    /\ expiry' = e
    /\ judged' = contract
    /\ UNCHANGED <<side, now, terms, funded, shown, block>>

\* SetZenonTerms, or a load that finds terms missing, takes the verdict back.
WithdrawVerdict ==
    /\ htlc = "verified"
    /\ htlc' = "unverified"
    /\ UNCHANGED <<side, now, terms, funded, shown, expiry, judged, block>>

\* planCreate's check of the expiry of the block it builds.
CreateInBounds(e) == WithinBounds(e)

\* A form of requireCounterLegFunding without the funding.
RoomOnly == BitcoinLegIsInitiators => lockTime - now >= MinLegGap + MinLegRemaining

\* requireCounterLegFunding: a create that answers the counterparty's Bitcoin
\* waits for it to be there and for room before its locktime.
requireCounterLegFunding ==
    BitcoinLegIsInitiators =>
        funded /\ lockTime - now >= MinLegGap + MinLegRemaining

\* handleWalletBlock "create": the card gets a block to show.
PlanCreate ==
    /\ ZenonHtlcIsOurs /\ htlc = "none" /\ contract
    /\ requireCounterLegFunding
    /\ plan.secs > 0
    /\ block.phase \in {"none", "planned"}
    /\ LET e == ZenonNow + plan.secs
       IN CreateInBounds(e) /\ block' = [expiry |-> e, phase |-> "planned"]
    /\ UNCHANGED <<side, now, terms, funded, shown, zenon>>

BlockMoves(from, to) ==
    /\ block.phase = from
    /\ block' = [block EXCEPT !.phase = to]

\* ZenonWallet.sign takes the block off the card and awaits checkSync.
Sign == BlockMoves("planned", "signing") /\ UNCHANGED <<side, now, terms, funded, shown, zenon>>

\* The rest of sign: fundingCheck, and the block goes to the wallet.
HandOver ==
    /\ requireCounterLegFunding
    /\ BlockMoves("signing", "handed")
    /\ UNCHANGED <<side, now, terms, funded, shown, zenon>>

\* handleWalletSent: the wallet published it, and the id goes on the record.
WalletSent ==
    /\ BlockMoves("handed", "sent")
    /\ htlc' = IF htlc = "verified" THEN "verified" ELSE "unverified"
    /\ UNCHANGED <<side, now, terms, funded, shown, expiry, judged>>

\* The user says no, closes the window or reloads the page.
DropBlock ==
    /\ block.phase \in {"planned", "signing", "handed"}
    /\ block' = NoBlock
    /\ UNCHANGED <<side, now, terms, funded, shown, zenon>>

Tick(d) ==
    /\ now + d <= Horizon
    /\ now' = now + d
    /\ UNCHANGED <<side, terms, funded, shown, zenon, block>>

Next == \/ SetCounterpartyPKH
        \/ \E d \in Spans : AuditContract(now + d)
        \/ RecordFunding \/ Reload
        \/ \E d \in Spans, b \in BOOLEAN : VerifyZenon(now + d, b)
        \/ \E b \in BOOLEAN : expiry # 0 /\ VerifyZenon(expiry, b)
        \/ \E b \in BOOLEAN : block.phase = "sent" /\ VerifyZenon(block.expiry, b)
        \/ WithdrawVerdict
        \/ PlanCreate \/ Sign \/ HandOver \/ WalletSent \/ DropBlock
        \/ \E d \in Jumps : Tick(d)

Spec == Init /\ [][Next]_vars

----------------------------------------------------------------------------
Plan == [secs : Nat, hours : Nat]
Block == [expiry : Int, phase : {"none", "planned", "signing", "handed", "sent"}]

TypeOK == /\ role \in {"initiator", "participant"}
          /\ leg \in {"send", "receive"}
          /\ drift \in Int
          /\ now \in Nat
          /\ lockTime \in Int
          /\ contract \in BOOLEAN /\ funded \in BOOLEAN
          /\ shown \in Int
          /\ plan \in Plan
          /\ advice \in [at : Nat, secs : Nat, hours : Nat] \cup {None}
          /\ htlc \in {"none", "unverified", "verified"}
          /\ expiry \in Int
          /\ judged \in BOOLEAN
          /\ block \in Block

\* An HTLC verified with the contract on the record expires on its side of the
\* contract the record holds now: no later audit moves the one under the other.
JudgedLegsAreOrdered ==
    htlc = "verified" /\ judged => contract /\ LandsRight(expiry, lockTime)

\* A create that answers the counterparty's Bitcoin is, from the card to the
\* chain, in order with the contract on the record: the funding it waits for
\* keeps any other contract off the record while sign() and the wallet's window
\* hold the block.
AnswersAreOrdered ==
    BitcoinLegIsInitiators /\ block.phase # "none"
        => contract /\ LandsRight(block.expiry, lockTime)

\* The room planZenonLeg asks for under the initiator's Bitcoin leg.
RoomToPlan(t, L) == BitcoinLegIsInitiators => L - t >= defaultLegGap + MinLegRemaining

AdviceIsRight ==
    /\ LandsRight(advice.at + advice.secs, lockTime)
    /\ advice.hours > 0 => LandsRight(advice.at + advice.hours * Hour, lockTime)

\* Where there is room for a plan, the expiry an audit advises lands right, in
\* seconds and in the whole hours znn-cli takes.
AdviceWithRoomLandsRight ==
    advice # None /\ RoomToPlan(advice.at, lockTime) => AdviceIsRight

\* "The invariant the whole swap rests on: the initiator's leg expires LAST"
\* (manager.go), of every HTLC the record calls verified.
VerifiedLegsAreOrdered == htlc = "verified" /\ contract => LandsRight(expiry, lockTime)

\* "An expiry computed against one Bitcoin locktime is wrong once that locktime
\* changes" (ZenonWallet.vue), of the block sign() hands to the wallet.
SignsOnlyOrderedBlocks == [][HandOver => contract /\ LandsRight(block.expiry, lockTime)]_vars
=============================================================================
