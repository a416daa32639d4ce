--------------------------- MODULE LegPlan_proofs ---------------------------
(***************************************************************************)
(* Proofs about the two expiries of a swap, for any locktimes, any steps   *)
(* of the clock and any drift between the two chains.                      *)
(***************************************************************************)
EXTENDS LegPlan, TLAPS

\* The facts of the initial state that arithmetic only hides.
LEMMA InitBooleans ==
    ASSUME Init
    PROVE  contract \in BOOLEAN /\ judged \in BOOLEAN /\ funded \in BOOLEAN
<1>1. contract \in BOOLEAN
  BY DEF Init
<1>2. judged = FALSE /\ funded = FALSE
  BY DEF Init
<1>3. judged \in BOOLEAN /\ funded \in BOOLEAN
  BY <1>2
<1> QED BY <1>1, <1>3

USE DEF Hour, MinLegGap, MinLegRemaining, initiatorLockHours, participantLockHours,
        defaultLegGap

(***************************************************************************)
(* The plan.                                                               *)
(***************************************************************************)

\* Whatever seconds are rounded, the whole hours keep the gap, or are none.
LEMMA WholeHoursKeepTheGap ==
    ASSUME NEW secs \in Nat, NEW btcSecs \in Int
    PROVE  LET hours == wholeHours(secs, btcSecs)
           IN /\ hours \in Nat
              /\ ZenonLegIsInitiators => hours * Hour >= btcSecs + MinLegGap
              /\ ~ZenonLegIsInitiators /\ hours > 0 => hours * Hour <= btcSecs - MinLegGap
<1>1. CASE ZenonLegIsInitiators
  BY <1>1 DEF wholeHours, Larger, Smaller
<1>2. CASE ~ZenonLegIsInitiators
  BY <1>2 DEF wholeHours, Larger, Smaller
<1> QED BY <1>1, <1>2

\* How far h whole hours are from s seconds.
Off(h, s) == Larger(h * Hour - s, s - h * Hour)

\* Whether h whole hours from now keep the leg gap to a locktime btcSecs away.
KeepsTheGap(h, btcSecs) ==
    /\ h > 0
    /\ IF ZenonLegIsInitiators THEN h * Hour >= btcSecs + MinLegGap
       ELSE h * Hour <= btcSecs - MinLegGap

\* "Round to nearest ... then clamp into the range that keeps MinLegGap" and "Zero
\* means no whole hour satisfies it" (manager.go, wholeHours): of the whole hours
\* that keep the gap, for every plan of half an hour or more and every locktime,
\* there is none nearer to the plan, and there is none at all where it says zero.
THEOREM WholeHoursAreNearest ==
    ASSUME NEW secs \in Nat, secs >= 1800, NEW btcSecs \in Int
    PROVE  LET hours == wholeHours(secs, btcSecs)
           IN /\ hours > 0 <=> \E h \in Nat : KeepsTheGap(h, btcSecs)
              /\ hours > 0 => KeepsTheGap(hours, btcSecs)
              /\ \A h \in Nat : KeepsTheGap(h, btcSecs) => Off(hours, secs) <= Off(h, secs)
<1> DEFINE nearest == (secs + 1800) \div Hour
           hours == wholeHours(secs, btcSecs)
<1>1. /\ nearest \in Nat /\ nearest > 0
      /\ nearest * Hour <= secs + 1800 /\ secs + 1800 < (nearest + 1) * Hour
  OBVIOUS
<1>2. CASE ZenonLegIsInitiators
  <2> DEFINE earliest == (btcSecs + MinLegGap + Hour - 1) \div Hour
  <2>1. /\ earliest \in Int /\ earliest * Hour >= btcSecs + MinLegGap
        /\ earliest * Hour < btcSecs + MinLegGap + Hour
    OBVIOUS
  <2>2. hours = Larger(nearest, earliest)
    BY <1>2 DEF wholeHours
  <2>3. hours \in Nat /\ hours > 0 /\ KeepsTheGap(hours, btcSecs)
    <3> HIDE DEF nearest, earliest, hours
    <3> QED BY <1>1, <1>2, <2>1, <2>2 DEF Larger, KeepsTheGap
  <2>4. ASSUME NEW h \in Nat, KeepsTheGap(h, btcSecs)
        PROVE  Off(hours, secs) <= Off(h, secs)
    <3> HIDE DEF nearest, earliest, hours
    <3>1. h >= earliest
      BY <1>2, <2>1, <2>4 DEF KeepsTheGap
    <3> QED BY <1>1, <2>2, <3>1 DEF Larger, Off, earliest
  <2> QED
    <3> HIDE DEF nearest, earliest, hours
    <3> QED BY <2>3, <2>4 DEF hours
<1>3. CASE ~ZenonLegIsInitiators
  <2> DEFINE latest == (btcSecs - MinLegGap) \div Hour
  <2>1. /\ latest \in Int /\ latest * Hour <= btcSecs - MinLegGap
        /\ btcSecs - MinLegGap < (latest + 1) * Hour
    OBVIOUS
  <2>2. hours = IF Smaller(nearest, latest) < 1 THEN 0 ELSE Smaller(nearest, latest)
    BY <1>3 DEF wholeHours
  <2>3. ASSUME NEW h \in Nat, KeepsTheGap(h, btcSecs)
        PROVE  /\ 0 < h /\ h <= latest /\ hours = Smaller(nearest, latest)
               /\ Off(hours, secs) <= Off(h, secs)
    <3> HIDE DEF nearest, latest, hours
    <3>1. 0 < h /\ h <= latest
      BY <1>3, <2>1, <2>3 DEF KeepsTheGap
    <3>2. hours = Smaller(nearest, latest)
      BY <1>1, <2>1, <2>2, <3>1 DEF Smaller
    <3> QED BY <1>1, <2>1, <3>1, <3>2 DEF Smaller, Larger, Off
  <2>4. hours \in Nat /\ (hours > 0 => KeepsTheGap(hours, btcSecs))
    <3> HIDE DEF nearest, latest, hours
    <3> QED BY <1>1, <1>3, <2>1, <2>2 DEF Smaller, KeepsTheGap
  <2>5. ASSUME NEW h \in Nat, KeepsTheGap(h, btcSecs)
        PROVE  hours > 0
    <3> HIDE DEF nearest, latest, hours
    <3> QED BY <1>1, <2>1, <2>3, <2>5 DEF Smaller
  <2> QED
    <3> HIDE DEF nearest, latest, hours
    <3> QED BY <2>3, <2>4, <2>5 DEF hours
<1> QED BY <1>2, <1>3

\* Whether there is room to plan a Zenon leg on its side of the locktime L, and
\* keep MinLegRemaining on it.
HasRoom(L, t) == LegGapFrom(L, t) >= MinLegRemaining

LEMMA FreshPlanLandsRight ==
    ASSUME NEW L \in Int, NEW t \in Int, HasRoom(L, t),
           NEW secs, NEW hours,
           secs = LegGapFrom(L, t), hours = wholeHours(secs, L - t)
    PROVE  /\ secs \in Nat /\ hours \in Nat
           /\ LandsRight(t + secs, L)
           /\ hours > 0 => LandsRight(t + hours * Hour, L)
<1>1. secs \in Nat /\ L - t \in Int
  BY DEF HasRoom, LegGapFrom
<1>2. hours \in Nat
  BY <1>1, WholeHoursKeepTheGap
<1>3. CASE ZenonLegIsInitiators
  <2>1. secs = L + defaultLegGap - t
    BY <1>3 DEF LegGapFrom
  <2>2. hours * Hour >= (L - t) + MinLegGap
    BY <1>1, <1>3, WholeHoursKeepTheGap
  <2> QED BY <1>1, <1>2, <1>3, <2>1, <2>2 DEF LandsRight
<1>4. CASE ~ZenonLegIsInitiators
  <2>1. secs = L - defaultLegGap - t
    BY <1>4 DEF LegGapFrom
  <2>2. hours > 0 => hours * Hour <= (L - t) - MinLegGap
    BY <1>1, <1>4, WholeHoursKeepTheGap
  <2> QED BY <1>1, <1>2, <1>4, <2>1, <2>2 DEF LandsRight
<1> QED BY <1>3, <1>4

\* The clamp of wholeHours never acts on a plan of planZenonLeg: its gap of a day
\* leaves room for rounding inside MinLegGap, whatever the locktime and the time.
\* A plan made always has whole hours, within half an hour of its seconds.
THEOREM PlansRoundFreely ==
    ASSUME NEW L \in Int, NEW t \in Int, HasRoom(L, t)
    PROVE  LET secs == LegGapFrom(L, t)
               hours == wholeHours(secs, L - t)
           IN /\ hours = (secs + 1800) \div Hour
              /\ hours > 0
              /\ Off(hours, secs) <= 1800
<1> DEFINE secs == LegGapFrom(L, t)
           hours == wholeHours(secs, L - t)
           nearest == (secs + 1800) \div Hour
<1>1. secs \in Nat /\ secs >= MinLegRemaining
  BY DEF HasRoom, LegGapFrom
<1>2. /\ nearest \in Nat /\ nearest > 0
      /\ nearest * Hour <= secs + 1800 /\ secs + 1800 < (nearest + 1) * Hour
  <2> HIDE DEF secs
  <2> QED BY <1>1
<1>3. hours = nearest
  <2>1. CASE ZenonLegIsInitiators
    <3>1. secs = L + defaultLegGap - t
      BY <2>1 DEF LegGapFrom
    <3> QED BY <1>1, <1>2, <2>1, <3>1 DEF wholeHours, Larger
  <2>2. CASE ~ZenonLegIsInitiators
    <3>1. secs = L - defaultLegGap - t
      BY <2>2 DEF LegGapFrom
    <3> QED BY <1>1, <1>2, <2>2, <3>1 DEF wholeHours, Smaller
  <2> QED BY <2>1, <2>2
<1>4. Off(nearest, secs) <= 1800
  <2> HIDE DEF secs, nearest
  <2> QED BY <1>1, <1>2 DEF Off, Larger
<1> QED BY <1>2, <1>3, <1>4

\* What planZenonLeg returns is a plan, and where there is room for a fresh one
\* it is that one.
LEMMA PlanZenonLeg ==
    ASSUME NEW old \in Plan, NEW L \in Int, NEW t \in Int,
           NEW p, p = planZenonLeg(old, L, t)
    PROVE  /\ p \in Plan
           /\ htlc # "verified" /\ HasRoom(L, t)
                => /\ LandsRight(t + p.secs, L)
                   /\ p.hours > 0 => LandsRight(t + p.hours * Hour, L)
<1>1. CASE htlc = "verified" \/ ~HasRoom(L, t)
  <2>1. LegGapFrom(L, t) \in Int
    BY DEF LegGapFrom
  <2> QED BY <1>1, <2>1 DEF planZenonLeg, HasRoom
<1>2. CASE htlc # "verified" /\ HasRoom(L, t)
  <2>1. PICK secs, hours : secs = LegGapFrom(L, t) /\ hours = wholeHours(secs, L - t)
    OBVIOUS
  <2>2. LegGapFrom(L, t) \in Int
    BY DEF LegGapFrom
  <2>3. p = [secs |-> secs, hours |-> hours]
    BY <1>2, <2>1, <2>2 DEF planZenonLeg, PlanOf, HasRoom
  <2>4. /\ secs \in Nat /\ hours \in Nat
        /\ LandsRight(t + secs, L)
        /\ hours > 0 => LandsRight(t + hours * Hour, L)
    BY <1>2, <2>1, FreshPlanLandsRight
  <2>5. p.secs = secs /\ p.hours = hours /\ p \in Plan
    BY <2>3, <2>4 DEF Plan
  <2> QED BY <2>4, <2>5
<1> QED BY <1>1, <1>2

(***************************************************************************)
(* The inductive invariant.  Three facts carry it: what is verified with a *)
(* contract there is in order with the contract there is now, since from   *)
(* then on no other is adopted; a create that answers Bitcoin was built    *)
(* with its funding on the record, which keeps the locktime as it was; and *)
(* advice is that of the last audit.                                       *)
(***************************************************************************)
AnswersAreCommitted ==
    BitcoinLegIsInitiators /\ block.phase # "none"
        => contract /\ funded /\ LandsRight(block.expiry, lockTime)

LegInv == TypeOK /\ JudgedLegsAreOrdered /\ AnswersAreCommitted /\ AdviceWithRoomLandsRight

LEMMA InitLeg == Init => LegInv
<1> SUFFICES ASSUME Init PROVE LegInv
  OBVIOUS
<1>1. now \in Nat /\ NoPlan \in Plan
  BY DEF Init, NoPlan, Plan
<1>2. lockTime \in Int
  <2>1. PICK h \in LockHours :
          lockTime = Hour * (IF h # 0 THEN h
                             ELSE IF BitcoinLegIsInitiators THEN initiatorLockHours
                             ELSE participantLockHours)
    BY DEF Init
  <2>2. h \in Int
    BY TimesAssumption
  <2> QED BY <2>1, <2>2
<1>3. plan \in Plan
  <2>1. now \in Int /\ plan = planZenonLeg(NoPlan, lockTime, now)
    BY <1>1 DEF Init
  <2> QED BY <1>1, <1>2, <2>1, PlanZenonLeg
<1>4. TypeOK
  <2>1. contract \in BOOLEAN /\ judged \in BOOLEAN /\ funded \in BOOLEAN
    BY InitBooleans
  <2>2. drift \in Int
    BY TimesAssumption DEF Init
  <2>3. block \in Block
    BY DEF Init, NoBlock, Block
  <2>4. role \in {"initiator", "participant"} /\ leg \in {"send", "receive"}
    BY DEF Init
  <2>5. htlc = "none" /\ expiry = 0 /\ advice = None /\ shown = lockTime
    BY DEF Init
  <2> QED BY <1>1, <1>2, <1>3, <2>1, <2>2, <2>3, <2>4, <2>5 DEF TypeOK
<1>5. JudgedLegsAreOrdered /\ AnswersAreCommitted /\ AdviceWithRoomLandsRight
  BY DEF Init, JudgedLegsAreOrdered, AnswersAreCommitted, AdviceWithRoomLandsRight, NoBlock
<1> QED BY <1>4, <1>5 DEF LegInv

LEMMA LegStep == LegInv /\ [Next]_vars => LegInv'
<1> SUFFICES ASSUME LegInv, [Next]_vars PROVE LegInv'
  OBVIOUS
<1> USE DEF LegInv
<1>1. CASE SetCounterpartyPKH
  <2> USE <1>1 DEF SetCounterpartyPKH, side, zenon
  <2>1. TypeOK'
    BY DEF TypeOK
  <2>2. JudgedLegsAreOrdered' /\ AnswersAreCommitted' /\ AdviceWithRoomLandsRight'
    BY DEF JudgedLegsAreOrdered, AnswersAreCommitted, AdviceWithRoomLandsRight, AdviceIsRight,
           RoomToPlan, LandsRight, ZenonLegIsInitiators, BitcoinLegIsInitiators
  <2> QED BY <2>1, <2>2
<1>2. ASSUME NEW d \in Spans, AuditContract(now + d) PROVE LegInv'
  <2> DEFINE L == now + d
  <2> USE <1>2 DEF AuditContract, side, zenon
  <2>1. L \in Int /\ now \in Int /\ plan \in Plan /\ plan' = planZenonLeg(plan, L, now)
    BY TimesAssumption DEF TypeOK
  <2>2. /\ plan' \in Plan
        /\ htlc # "verified" /\ HasRoom(L, now)
             => /\ LandsRight(now + plan'.secs, L)
                /\ plan'.hours > 0 => LandsRight(now + plan'.hours * Hour, L)
    BY <2>1, PlanZenonLeg
  <2>3. TypeOK'
    BY <2>1, <2>2 DEF TypeOK, Plan
  <2>4. JudgedLegsAreOrdered'
    BY DEF JudgedLegsAreOrdered, ContractCommitted
  <2>5. AnswersAreCommitted'
    <3> SUFFICES ASSUME BitcoinLegIsInitiators', block'.phase # "none" PROVE FALSE
      BY DEF AnswersAreCommitted
    <3>1. BitcoinLegIsInitiators /\ block.phase # "none"
      BY DEF BitcoinLegIsInitiators, ZenonLegIsInitiators
    <3> QED BY <3>1 DEF AnswersAreCommitted, ContractCommitted
  <2>6. AdviceWithRoomLandsRight'
    <3> SUFFICES ASSUME advice' # None, RoomToPlan(now, L) PROVE AdviceIsRight'
      BY <2>1, NoneAssumption
         DEF AdviceWithRoomLandsRight, RoomToPlan, BitcoinLegIsInitiators,
             ZenonLegIsInitiators
    <3>1. htlc = "none" /\ advice' = [at |-> now, secs |-> plan'.secs, hours |-> plan'.hours]
      OBVIOUS
    <3>2. HasRoom(L, now)
      BY <2>1 DEF RoomToPlan, BitcoinLegIsInitiators, HasRoom, LegGapFrom, auditLegOrdering
    <3>3. /\ LandsRight(now + plan'.secs, L)
          /\ plan'.hours > 0 => LandsRight(now + plan'.hours * Hour, L)
      BY <2>2, <3>1, <3>2
    <3>4. PICK t, s, h : t = now /\ s = plan'.secs /\ h = plan'.hours
      OBVIOUS
    <3>5. advice' = [at |-> t, secs |-> s, hours |-> h] /\ lockTime' = L
      BY <3>1, <3>4
    <3>6. UNCHANGED <<role, leg>>
      OBVIOUS
    <3> QED BY <3>3, <3>4, <3>5, <3>6
            DEF AdviceIsRight, LandsRight, ZenonLegIsInitiators
  <2> QED BY <2>3, <2>4, <2>5, <2>6
<1>3. ASSUME NEW e \in Int, NEW b \in BOOLEAN, VerifyZenon(e, b) PROVE LegInv'
  <2> USE <1>3 DEF VerifyZenon, side, terms
  <2>1. TypeOK'
    BY DEF TypeOK
  <2>2. JudgedLegsAreOrdered'
    BY DEF JudgedLegsAreOrdered, WithinBounds, LandsRight, ZenonLegIsInitiators
  <2>3. AnswersAreCommitted' /\ AdviceWithRoomLandsRight'
    BY DEF AnswersAreCommitted, AdviceWithRoomLandsRight, AdviceIsRight, RoomToPlan,
           LandsRight, ZenonLegIsInitiators, BitcoinLegIsInitiators
  <2> QED BY <2>1, <2>2, <2>3
<1>4. CASE PlanCreate
  <2> USE <1>4 DEF PlanCreate, side, terms, zenon
  <2>1. TypeOK'
    BY DEF TypeOK, ZenonNow, Plan, Block
  <2>2. JudgedLegsAreOrdered' /\ AdviceWithRoomLandsRight'
    BY DEF JudgedLegsAreOrdered, AdviceWithRoomLandsRight, AdviceIsRight, RoomToPlan,
           LandsRight, ZenonLegIsInitiators, BitcoinLegIsInitiators
  <2>3. AnswersAreCommitted'
    BY DEF AnswersAreCommitted, requireCounterLegFunding, CreateInBounds, WithinBounds,
           LandsRight, ZenonLegIsInitiators, BitcoinLegIsInitiators
  <2> QED BY <2>1, <2>2, <2>3
<1>5. CASE WithdrawVerdict \/ RecordFunding \/ Reload \/ Sign \/ HandOver \/ WalletSent
           \/ DropBlock \/ UNCHANGED vars
  <2>1. /\ UNCHANGED <<role, leg, drift, now, lockTime, contract, plan, advice, expiry, judged>>
        /\ htlc' = htlc \/ htlc' = "unverified"
        /\ shown' = shown \/ shown' = lockTime
        /\ funded' = funded \/ funded' = TRUE
        /\ \/ block' = block
           \/ block' = NoBlock
           \/ /\ block.phase # "none"
              /\ \E to \in {"signing", "handed", "sent"} : block' = [block EXCEPT !.phase = to]
    <3> USE DEF side, terms, zenon
    <3>1. CASE WithdrawVerdict \/ DropBlock \/ UNCHANGED vars
      BY <3>1 DEF WithdrawVerdict, DropBlock, vars
    <3>2. CASE RecordFunding \/ Reload
      BY <3>2 DEF RecordFunding, Reload
    <3>3. CASE Sign \/ HandOver \/ WalletSent
      BY <3>3 DEF Sign, HandOver, WalletSent, BlockMoves
    <3> QED BY <1>5, <3>1, <3>2, <3>3
  <2>2. TypeOK'
    <3>1. block' \in Block
      BY <2>1 DEF TypeOK, NoBlock, Block
    <3>2. funded' \in BOOLEAN /\ shown' \in Int
      BY <2>1 DEF TypeOK
    <3> QED BY <2>1, <3>1, <3>2 DEF TypeOK
  <2>3. JudgedLegsAreOrdered'
    <3> SUFFICES ASSUME htlc' = "verified", judged'
                 PROVE  (contract /\ LandsRight(expiry, lockTime))'
      BY DEF JudgedLegsAreOrdered
    <3>1. contract /\ LandsRight(expiry, lockTime)
      BY <2>1 DEF JudgedLegsAreOrdered
    <3> QED BY <2>1, <3>1 DEF LandsRight, ZenonLegIsInitiators
  <2>4. AnswersAreCommitted'
    <3> SUFFICES ASSUME BitcoinLegIsInitiators', block'.phase # "none"
                 PROVE  (contract /\ funded /\ LandsRight(block.expiry, lockTime))'
      BY DEF AnswersAreCommitted
    <3>1. block.phase # "none" /\ block'.expiry = block.expiry
      BY <2>1 DEF TypeOK, Block, NoBlock
    <3>2. contract /\ funded /\ LandsRight(block.expiry, lockTime)
      BY <2>1, <3>1 DEF AnswersAreCommitted, BitcoinLegIsInitiators, ZenonLegIsInitiators
    <3>3. contract' /\ funded' /\ lockTime' = lockTime
      BY <2>1, <3>2
    <3> QED BY <2>1, <3>1, <3>2, <3>3 DEF LandsRight, ZenonLegIsInitiators
  <2>5. AdviceWithRoomLandsRight'
    BY <2>1 DEF AdviceWithRoomLandsRight, AdviceIsRight, RoomToPlan,
                LandsRight, ZenonLegIsInitiators, BitcoinLegIsInitiators
  <2> QED BY <2>2, <2>3, <2>4, <2>5
<1>6. ASSUME NEW d \in Jumps, Tick(d) PROVE LegInv'
  <2> USE <1>6 DEF Tick, side, terms, zenon
  <2>1. TypeOK'
    BY TimesAssumption DEF TypeOK
  <2>2. JudgedLegsAreOrdered' /\ AnswersAreCommitted' /\ AdviceWithRoomLandsRight'
    BY DEF JudgedLegsAreOrdered, AnswersAreCommitted, AdviceWithRoomLandsRight, AdviceIsRight,
           RoomToPlan, LandsRight, ZenonLegIsInitiators, BitcoinLegIsInitiators
  <2> QED BY <2>1, <2>2
<1>7. ASSUME NEW d \in Spans PROVE now + d \in Int
  BY TimesAssumption DEF TypeOK
<1>8. expiry \in Int /\ block.expiry \in Int
  BY DEF TypeOK, Block
<1> HIDE DEF LegInv
<1> QED BY <1>1, <1>2, <1>3, <1>4, <1>5, <1>6, <1>7, <1>8 DEF Next

LEMMA LegInvariant == Spec => []LegInv
BY InitLeg, LegStep, PTL DEF Spec

\* Every variable keeps its type, whatever the times.
THEOREM LegPlanTypeOK == Spec => []TypeOK
<1>1. LegInv => TypeOK
  BY DEF LegInv
<1> QED BY <1>1, LegInvariant, PTL

\* An HTLC verified against a contract is, for good, on its side of the locktime
\* the record holds (VerifyZenon, ContractCommitted).
THEOREM JudgedLegsStayOrdered == Spec => []JudgedLegsAreOrdered
<1>1. LegInv => JudgedLegsAreOrdered
  BY DEF LegInv
<1> QED BY <1>1, LegInvariant, PTL

\* Advice an audit gives with room to plan keeps the gap, in seconds and in whole
\* hours (AuditContract, planZenonLeg, wholeHours).
THEOREM AdviceLandsRightWithRoom == Spec => []AdviceWithRoomLandsRight
<1>1. LegInv => AdviceWithRoomLandsRight
  BY DEF LegInv
<1> QED BY <1>1, LegInvariant, PTL

\* A create that answers the counterparty's Bitcoin stays in order with the
\* contract on the record until it is on the chain (requireCounterLegFunding,
\* ContractCommitted, sign).
THEOREM AnswersStayOrdered == Spec => []AnswersAreOrdered
<1>1. LegInv => AnswersAreOrdered
  BY DEF LegInv, AnswersAreCommitted, AnswersAreOrdered
<1> QED BY <1>1, LegInvariant, PTL

\* Of the block sign() hands to the wallet, when it answers Bitcoin.
AnswersAreSignedInOrder ==
    [][HandOver /\ BitcoinLegIsInitiators => contract /\ LandsRight(block.expiry, lockTime)]_vars

\* The participant's half of what ZenonWallet.vue says of sign(): a block that is
\* handed to the wallet to answer the counterparty's Bitcoin is in order with the
\* contract of that moment, though sign() took it off the card before it awaited.
\* The run legplan_signs shows that the initiator's half does not hold.
THEOREM AnswersAreHandedOverInOrder == Spec => AnswersAreSignedInOrder
<1>1. AnswersAreOrdered /\ [Next]_vars
        => [HandOver /\ BitcoinLegIsInitiators => contract /\ LandsRight(block.expiry, lockTime)]_vars
  BY DEF AnswersAreOrdered, HandOver, BlockMoves
<1> QED BY <1>1, AnswersStayOrdered, PTL DEF Spec, AnswersAreSignedInOrder
=============================================================================
