---------------------------- MODULE BtcLeg_proofs ----------------------------
(***************************************************************************)
(* Proofs about the Bitcoin leg, for any outputs, contracts and number of  *)
(* reorganisations: what a record says of its funding, its refund and its  *)
(* outcome is true of the chain, whatever node it asked and whenever it    *)
(* was interrupted, save for a spend the node made up.                     *)
(***************************************************************************)
EXTENDS BtcLeg, TLAPS

USE DEF Agreed, Short, Amount

(***************************************************************************)
(* What is true of a record, the stored one and the one a call has in hand.*)
(* Both carry the same facts, and the chain cannot take them back: pays    *)
(* and worth of an output never change once it exists, and what was        *)
(* broadcast stays broadcast.                                              *)
(***************************************************************************)
RefundIsOfFunding(r) ==
    r.refundTx # NoRefund => /\ FundingBound(r)
                             /\ r.refundTx = [out |-> r.funding.out, contract |-> r.contract]

BoundIsReal(r) ==
    FundingBound(r) => /\ pays[r.funding.out] = r.contract
                       /\ worth[r.funding.out] = r.funding.value

EndIsReal(r) ==
    /\ r.state = "redeemed" => <<r.funding.out, "redeem">> \in broadcasts \cup forged /\ r.secret
    /\ r.state = "refunded" => <<r.funding.out, "refund">> \in broadcasts \cup forged

Sound(r) == /\ r.contract = None => r.funding = NoFunding /\ r.refundTx = NoRefund
            /\ RefundIsOfFunding(r)
            /\ BoundIsReal(r)
            /\ EndIsReal(r)

\* What is true of the chain: an output pays nothing before it exists, only what
\* was broadcast spends one, and until the chain takes something back, what was
\* broadcast does.
Chain == \A o \in Output :
    /\ place[o] = Absent => pays[o] = None
    /\ spent[o].kind # "none" => <<o, spent[o].kind>> \in broadcasts
    /\ spent[o].kind = "none" => spent[o] = Unspent
    /\ \A kind \in Kind : <<o, kind>> \in broadcasts =>
         place[o] # Absent /\ (upsets = 0 => spent[o].kind = kind)

LegInv == /\ TypeOK
          /\ Chain
          /\ Sound(rec)
          /\ job.op # None => Sound(job.rec) /\ job.rec.contract # None
          /\ SecretNotSoldShort

(***************************************************************************)
(* Types.                                                                  *)
(***************************************************************************)
LEMMA NewRecordType == \A dest \in BOOLEAN : NewRecord(dest) \in Record
BY DEF NewRecord, Record, State, NoFunding, NoRefund, Funding, RefundTx

LEMMA AdoptedType ==
    ASSUME NEW r \in Record, NEW out \in Output \cup {None}, NEW value \in {0} \cup Amount
    PROVE  Adopted(r, [out |-> out, value |-> value]) \in Record
<1>1. [out |-> out, value |-> value, bound |-> None] \in Funding /\ NoRefund \in RefundTx
  BY DEF Funding, RefundTx, NoRefund
<1>2. (IF Funded(r) THEN r.state ELSE "funded") \in State
  BY DEF Record, State
<1> QED BY <1>1, <1>2 DEF Adopted, Record

LEMMA BoundType ==
    ASSUME NEW r \in Record, NEW readable \in BOOLEAN
    PROVE  bindFunding(r, readable) \in Record
<1>1. [r EXCEPT !.funding.bound = r.contract] \in Record
  <2>1. [r.funding EXCEPT !.bound = r.contract] \in Funding
    BY DEF Record, Funding
  <2> QED BY <2>1 DEF Record
<1> QED BY <1>1 DEF bindFunding

LEMMA NotedType == ASSUME NEW r \in Record PROVE Noted(r) \in Record
BY DEF Noted, Record

LEMMA PreSignedType ==
    ASSUME NEW r \in Record, NEW buildable \in BOOLEAN
    PROVE  PreSigned(r, buildable) \in Record
<1>1. [out |-> r.funding.out, contract |-> r.contract] \in RefundTx /\ r.funding.out \in Output \cup {None}
  BY DEF Record, Funding, RefundTx
<1> QED BY <1>1 DEF PreSigned, Signed, Record

(***************************************************************************)
(* The steps a call makes on the record it has in hand keep it sound.      *)
(***************************************************************************)
LEMMA AdoptedSound ==
    ASSUME NEW r \in Record, Sound(r), ~Terminal(r), r.contract # None,
           NEW out, NEW value
    PROVE  /\ Sound(Adopted(r, [out |-> out, value |-> value]))
           /\ Adopted(r, [out |-> out, value |-> value]).contract = r.contract
BY DEF Adopted, Sound, RefundIsOfFunding, BoundIsReal, EndIsReal, FundingBound, Funded,
       Terminal, Record, NoFunding, NoRefund, Funding, RefundTx

LEMMA BoundSound ==
    ASSUME NEW r \in Record, Sound(r), r.contract # None, NEW readable \in BOOLEAN
    PROVE  /\ Sound(bindFunding(r, readable))
           /\ LET b == bindFunding(r, readable)
              IN /\ b.contract = r.contract /\ b.state = r.state /\ b.secret = r.secret
                 /\ b.refundTx = r.refundTx
                 /\ b.funding.out = r.funding.out /\ b.funding.value = r.funding.value
BY DEF bindFunding, Matches, Sound, RefundIsOfFunding, BoundIsReal, EndIsReal, FundingBound,
       Funded, Record, Funding

LEMMA NotedSound ==
    ASSUME NEW r \in Record, Sound(r)
    PROVE  Sound(Noted(r)) /\ Noted(r).contract = r.contract
BY DEF Noted, Sound, RefundIsOfFunding, BoundIsReal, EndIsReal, FundingBound, Funded, Record

LEMMA PreSignedSound ==
    ASSUME NEW r \in Record, Sound(r), r.contract # None, NEW buildable \in BOOLEAN
    PROVE  Sound(PreSigned(r, buildable)) /\ PreSigned(r, buildable).contract = r.contract
BY DEF PreSigned, Signed, Sound, RefundIsOfFunding, BoundIsReal, EndIsReal, FundingBound, Funded,
       Record, Funding, RefundTx

\* What a node names, as it answers: a transaction of the network, one it made
\* up, or none.
LEMMA NamedIsKnown ==
    ASSUME TypeOK, Chain, NEW r \in Record, Funded(r), NEW spend \in Answer,
           NEW tx \in Named(r, spend)
    PROVE  /\ tx = NoSpend \/ tx \in broadcasts \/ (spend = "forged" /\ tx \notin broadcasts)
           /\ tx # NoSpend => tx \in Output \X Kind
<1>1. r.funding.out \in Output
  BY DEF Funded, Record, Funding
<1>2. CASE spend = "right"
  <2>1. CASE spent[r.funding.out] = Unspent
    BY <1>2, <2>1 DEF Named
  <2>2. CASE spent[r.funding.out] # Unspent
    <3>1. tx = <<r.funding.out, spent[r.funding.out].kind>>
      BY <1>2, <2>2 DEF Named
    <3>2. spent[r.funding.out].kind # "none"
      BY <1>1, <2>2 DEF Chain
    <3> QED BY <1>1, <3>1, <3>2 DEF Chain, TypeOK
  <2> QED BY <2>1, <2>2
<1>3. CASE spend = "wrong"
  BY <1>3 DEF Named, TypeOK
<1>4. CASE spend = "forged"
  BY <1>1, <1>4 DEF Named, Invented
<1>5. CASE spend = "failed"
  BY <1>5 DEF Named
<1> QED BY <1>2, <1>3, <1>4, <1>5 DEF Answer

\* A swap is ended only by what is on the network or was made up for it.
LEMMA AbsorbedSound ==
    ASSUME NEW r \in Record, Sound(r)', Funded(r), NEW tx,
           tx # NoSpend => tx \in (broadcasts \cup forged)' \cap (Output \X Kind)
    PROVE  Sound(Absorbed(r, tx))' /\ Absorbed(r, tx) \in Record
<1>1. SpendsOurs(r, tx) => /\ <<r.funding.out, tx[2]>> \in broadcasts' \cup forged'
                           /\ tx[2] \in Kind
  BY DEF SpendsOurs, NoSpend, Funded
<1>2. Sound(Absorbed(r, tx))'
  <2>1. CASE ~SpendsOurs(r, tx)
    BY <2>1 DEF Absorbed
  <2>2. CASE SpendsOurs(r, tx)
    <3>1. PICK a : a = [r EXCEPT !.state = EndOf(tx), !.secret = r.secret \/ tx[2] = "redeem"]
      OBVIOUS
    <3>2. /\ a.contract = r.contract /\ a.funding = r.funding /\ a.refundTx = r.refundTx
          /\ a.state = EndOf(tx) /\ a.secret = (r.secret \/ tx[2] = "redeem")
      BY <3>1 DEF Record
    <3>3. EndIsReal(a)'
      <4>1. a.state = "redeemed" => tx[2] = "redeem"
        BY <3>2 DEF EndOf
      <4>2. a.state = "refunded" => tx[2] = "refund"
        BY <1>1, <2>2, <3>2 DEF EndOf, Kind
      <4> QED BY <1>1, <2>2, <3>2, <4>1, <4>2 DEF EndIsReal
    <3>4. Sound(a)'
      BY <3>2, <3>3 DEF Sound, RefundIsOfFunding, BoundIsReal, FundingBound, Funded
    <3> QED BY <2>2, <3>1, <3>4 DEF Absorbed
  <2> QED BY <2>1, <2>2
<1>3. Absorbed(r, tx) \in Record
  BY <1>1 DEF Absorbed, EndOf, Kind, Record, State
<1> QED BY <1>2, <1>3

LEMMA PreimageFoundSound ==
    ASSUME NEW r \in Record, Sound(r)', NEW found \in BOOLEAN
    PROVE  Sound(PreimageFound(r, found))' /\ PreimageFound(r, found) \in Record
BY DEF PreimageFound, Sound, RefundIsOfFunding, BoundIsReal, EndIsReal, FundingBound,
       Funded, Record

LEMMA ExpiredSound ==
    ASSUME NEW r \in Record, Sound(r)', NEW e, e = Expired(r)
    PROVE  Sound(e)' /\ e \in Record
BY DEF Expired, Sound, RefundIsOfFunding, BoundIsReal, EndIsReal, FundingBound,
       Funded, Record, State

\* The chain takes back neither what an output is nor what was broadcast.
ChainKeeps == /\ \A o \in Output : place[o] # Absent => UNCHANGED <<pays[o], worth[o]>>
              /\ broadcasts \subseteq broadcasts' /\ forged \subseteq forged'

LEMMA SoundKept ==
    ASSUME NEW r \in Record, Sound(r), Chain, ChainKeeps
    PROVE  Sound(r)'
<1>1. FundingBound(r) => /\ r.funding.out \in Output
                         /\ pays[r.funding.out] = r.contract => place[r.funding.out] # Absent
  BY NoneAssumption DEF FundingBound, Funded, Chain, Record, Funding
<1> QED BY <1>1 DEF Sound, RefundIsOfFunding, BoundIsReal, EndIsReal, FundingBound, Funded,
                    ChainKeeps
LEMMA InitLeg == Init => LegInv
<1> SUFFICES ASSUME Init PROVE LegInv
  OBVIOUS
<1>1. /\ NewRecord(TRUE) \in Record
      /\ \E dest \in BOOLEAN : rec = NewRecord(dest) /\ NewRecord(dest) \in Record
  BY NewRecordType DEF Init
<1>2. TypeOK
  <2>1. rec \in Record /\ job \in [op : {None, "refresh", "redeem", "refund"}, rec : Record]
    BY <1>1 DEF Init, NoJob
  <2>2. spent \in [Output -> Spend] /\ place \in [Output -> Place]
    BY DEF Init, Spend, Unspent, Place, Absent, There
  <2>3. upsets \in 0..MaxUpsets
    BY BoundAssumption DEF Init
  <2> QED BY <2>1, <2>2, <2>3 DEF Init, TypeOK, Clock
<1>3. Chain /\ SecretNotSoldShort
  BY DEF Init, Chain, Unspent, SecretNotSoldShort
<1>4. Sound(rec)
  BY <1>1 DEF Sound, RefundIsOfFunding, BoundIsReal, EndIsReal, FundingBound, Funded, NewRecord,
         NoFunding
<1>5. job.op = None
  BY DEF Init, NoJob
<1> QED BY <1>2, <1>3, <1>4, <1>5 DEF LegInv

\* A step of the chain or the clock, with no call's step in it.
LEMMA EnvironmentKeeps ==
    ASSUME LegInv, TypeOK', Chain', SecretNotSoldShort', ChainKeeps,
           UNCHANGED <<role, leg, rec, job>>
    PROVE  LegInv'
<1>1. PICK r, j : r = rec /\ j = job
  OBVIOUS
<1>2. r \in Record /\ j.rec \in Record /\ rec' = r /\ job' = j
  BY <1>1 DEF LegInv, TypeOK
<1>3. Sound(r)'
  BY <1>1, <1>2, SoundKept DEF LegInv
<1>4. j.op # None => Sound(j.rec)' /\ j.rec.contract # None
  BY <1>1, <1>2, SoundKept DEF LegInv
<1> QED BY <1>2, <1>3, <1>4 DEF LegInv

\* A step of a call that leaves the chain alone.
LEMMA CallKeeps ==
    ASSUME LegInv, UNCHANGED <<side, chain, forged, clock, unlocked>>,
           NEW r \in Record, Sound(r), rec' = r,
           NEW j \in [op : {None, "refresh", "redeem", "refund"}, rec : Record], job' = j,
           j.op # None => Sound(j.rec) /\ j.rec.contract # None
    PROVE  LegInv'
<1> USE DEF LegInv, side, chain
<1>1. TypeOK'
  BY DEF TypeOK
<1>2. Chain' /\ SecretNotSoldShort' /\ ChainKeeps
  BY DEF Chain, SecretNotSoldShort, RedeemRevealsSecret, ChainKeeps
<1>3. Sound(r)' /\ (j.op # None => Sound(j.rec)')
  BY <1>2, SoundKept
<1> QED BY <1>1, <1>2, <1>3

LEMMA PutType ==
    ASSUME TypeOK, NEW o \in Output, NEW kind \in Kind, Put(o, kind)
    PROVE  /\ spent' \in [Output -> Spend] /\ broadcasts' \subseteq Output \X Kind
           /\ UNCHANGED <<pays, worth, place, upsets>>
<1>1. [kind |-> kind, mined |-> FALSE] \in Spend
  BY DEF Spend
<1> QED BY <1>1 DEF Put, TypeOK

\* A spend put on the network is of an output that is there.
LEMMA PutKeepsChain ==
    ASSUME TypeOK, Chain, NEW o \in Output, NEW kind \in Kind, Live(o), spent[o] = Unspent,
           Put(o, kind), UNCHANGED forged
    PROVE  Chain' /\ ChainKeeps
<1>1. /\ UNCHANGED <<pays, worth, place, upsets>>
      /\ spent'[o].kind = kind /\ \A p \in Output \ {o} : spent'[p] = spent[p]
      /\ broadcasts' = broadcasts \cup {<<o, kind>>}
      /\ place[o] # Absent /\ spent[o].kind = "none"
  <2>1. spent' = [spent EXCEPT ![o] = [kind |-> kind, mined |-> FALSE]]
        /\ broadcasts' = broadcasts \cup {<<o, kind>>} /\ UNCHANGED <<pays, worth, place, upsets>>
    BY DEF Put
  <2>2. place[o] # Absent /\ spent[o].kind = "none"
    BY DEF Live, There, Absent, Unspent
  <2>3. spent'[o] = [kind |-> kind, mined |-> FALSE] /\ \A p \in Output \ {o} : spent'[p] = spent[p]
    BY <2>1 DEF TypeOK
  <2> QED BY <2>1, <2>2, <2>3
<1>2. \A k \in Kind : <<o, k>> \in broadcasts => upsets # 0
  BY <1>1 DEF Chain, Kind
<1>3. ChainKeeps
  <2>1. pays' = pays /\ worth' = worth /\ forged' = forged /\ broadcasts \subseteq broadcasts'
    BY <1>1
  <2>2. \A p \in Output : UNCHANGED <<pays[p], worth[p]>>
    BY <2>1
  <2> QED BY <2>1, <2>2 DEF ChainKeeps
<1>4. ASSUME NEW p \in Output, NEW k \in Kind, p # o
      PROVE  <<p, k>> \in broadcasts' <=> <<p, k>> \in broadcasts
  BY <1>1, <1>4
<1>5. ASSUME NEW k \in Kind
      PROVE  <<o, k>> \in broadcasts' => k = kind \/ upsets # 0
  BY <1>1, <1>2
<1>6. ASSUME NEW p \in Output
      PROVE  /\ place'[p] = Absent => pays'[p] = None
             /\ spent'[p].kind # "none" => <<p, spent'[p].kind>> \in broadcasts'
             /\ spent'[p].kind = "none" => spent'[p] = Unspent
             /\ \A k \in Kind : <<p, k>> \in broadcasts' =>
                  place'[p] # Absent /\ (upsets' = 0 => spent'[p].kind = k)
  <2>1. CASE p = o
    <3>1. spent'[o].kind # "none" /\ <<o, kind>> \in broadcasts'
      BY <1>1 DEF Kind
    <3> QED BY <1>1, <1>5, <2>1, <3>1 DEF Chain
  <2>2. CASE p # o
    <3>1. spent'[p] = spent[p] /\ broadcasts \subseteq broadcasts'
      BY <1>1, <2>2
    <3> QED BY <1>1, <1>4, <2>2, <3>1 DEF Chain
  <2> QED BY <2>1, <2>2
<1> QED BY <1>3, <1>6 DEF Chain

\* The environment, action by action.
LEMMA EnvironmentStep == LegInv /\ Environment => LegInv'
<1> SUFFICES ASSUME LegInv, Environment PROVE LegInv'
  OBVIOUS
<1> USE DEF LegInv, side, chain
<1>1. ASSUME NEW o \in Output, NEW k \in Contract, NEW v \in Amount, Paid(o, k, v)
      PROVE  LegInv'
  <2> USE <1>1 DEF Paid
  <2>1. TypeOK'
    BY DEF TypeOK, Place, There
  <2>2. Chain' /\ ChainKeeps
    BY DEF TypeOK, Chain, ChainKeeps, Absent, There
  <2>3. SecretNotSoldShort'
    BY DEF TypeOK, SecretNotSoldShort, Chain, RedeemRevealsSecret, Kind
  <2> QED BY <2>1, <2>2, <2>3, EnvironmentKeeps
<1>2. ASSUME NEW o \in Output, SpendMined(o) \/ Upset(o) PROVE LegInv'
  <2>1. /\ UNCHANGED <<role, leg, pays, worth, broadcasts, forged, clock, unlocked, rec, job>>
        /\ \A p \in Output : /\ place'[p] = Absent <=> place[p] = Absent
                             /\ spent'[p].kind \in {"none", spent[p].kind}
                             /\ spent'[p].kind = "none" => spent'[p] \in {Unspent, spent[p]}
                             /\ upsets' = 0 => upsets = 0 /\ spent'[p].kind = spent[p].kind
    BY <1>2, BoundAssumption DEF SpendMined, Upset, TypeOK, Spend, Unspent, Absent,
                                  There, Live
  <2>2. TypeOK'
    <3>1. upsets' \in 0..MaxUpsets
      BY <1>2, BoundAssumption DEF TypeOK, SpendMined, Upset
    <3>2. place' \in [Output -> Place]
      BY <1>2 DEF TypeOK, SpendMined, Upset, Place
    <3>3. spent' \in [Output -> Spend]
      <4>0. spent \in [Output -> Spend] /\ spent[o] \in Spend
        BY DEF TypeOK
      <4>1. /\ Unspent \in Spend
            /\ [spent[o] EXCEPT !.mined = TRUE] \in Spend
            /\ [spent[o] EXCEPT !.mined = FALSE] \in Spend
        BY <4>0 DEF Spend, Unspent
      <4>3. SpendMined(o) => spent' = [spent EXCEPT ![o] = [spent[o] EXCEPT !.mined = TRUE]]
        BY DEF SpendMined
      <4>4. Upset(o) => \/ spent' = [spent EXCEPT ![o] = [spent[o] EXCEPT !.mined = FALSE]]
                        \/ spent' = [spent EXCEPT ![o] = Unspent]
        BY DEF Upset
      <4> QED BY <1>2, <4>0, <4>1, <4>3, <4>4
    <3> QED BY <2>1, <3>1, <3>2, <3>3 DEF TypeOK
  <2>3. Chain' /\ ChainKeeps
    BY <2>1 DEF Chain, ChainKeeps
  <2>4. SecretNotSoldShort'
    BY <2>1 DEF SecretNotSoldShort, RedeemRevealsSecret
  <2> QED BY <2>1, <2>2, <2>3, <2>4, EnvironmentKeeps
<1>3. ASSUME NEW o \in Output, CounterpartySpends(o) PROVE LegInv'
  <2> USE <1>3 DEF CounterpartySpends
  <2>1. PICK kind \in Kind : Put(o, kind) /\ Live(o) /\ spent[o] = Unspent
    BY DEF Kind, Accepted
  <2>2. TypeOK'
    BY <2>1, PutType DEF TypeOK
  <2>3. Chain' /\ ChainKeeps
    BY <2>1, PutKeepsChain
  <2>4. SecretNotSoldShort'
    BY DEF SecretNotSoldShort, RedeemRevealsSecret, Put
  <2> QED BY <2>2, <2>3, <2>4, EnvironmentKeeps
<1>4. CASE SecretUnlocked \/ ClockMoves
  <2> USE <1>4 DEF SecretUnlocked, ClockMoves
  <2>1. TypeOK'
    BY DEF TypeOK, Clock
  <2>2. Chain' /\ ChainKeeps /\ SecretNotSoldShort'
    BY DEF Chain, ChainKeeps, SecretNotSoldShort, RedeemRevealsSecret
  <2> QED BY <2>1, <2>2, EnvironmentKeeps
<1> QED BY <1>1, <1>2, <1>3, <1>4 DEF Environment

(***************************************************************************)
(* The calls, each with what it saves or holds.                            *)
(***************************************************************************)
LEMMA NoJobType == NoJob \in [op : {None, "refresh", "redeem", "refund"}, rec : Record]
BY NewRecordType DEF NoJob

\* A refresh has in hand, after its reads, a record that is sound.
LEMMA ReadsSound ==
    ASSUME LegInv, rec.contract # None,
           NEW answer \in {"right", "wrong"}, NEW readable \in BOOLEAN, NEW buildable \in BOOLEAN,
           RefreshReads(answer, readable, buildable)
    PROVE  /\ job' \in [op : {None, "refresh", "redeem", "refund"}, rec : Record]
           /\ Sound(job'.rec) /\ job'.rec.contract # None
<1> USE DEF LegInv
<1>1. rec \in Record /\ Sound(rec)
  BY DEF TypeOK
<1>2. PICK r \in Record :
        /\ Sound(r) /\ r.contract # None
        /\ job' = [op |-> "refresh", rec |-> PreSigned(Noted(bindFunding(r, readable)), buildable)]
  <2>1. CASE fundingIsOpen(rec)
    <3>1. PICK pick \in Picked(rec, answer) :
            job' = [op |-> "refresh",
                    rec |-> PreSigned(Noted(bindFunding(Adopted(rec, pick), readable)),
                                      buildable)]
      BY <2>1 DEF RefreshReads
    <3>2. PICK out \in Output \cup {None}, value \in {0} \cup Amount :
            pick = [out |-> out, value |-> value]
      BY <3>1 DEF Picked, Best, Listed, TypeOK
    <3>3. ~Terminal(rec)
      BY <2>1 DEF fundingIsOpen
    <3>4. /\ Adopted(rec, pick) \in Record /\ Sound(Adopted(rec, pick))
          /\ Adopted(rec, pick).contract # None
      BY <1>1, <3>2, <3>3, AdoptedType, AdoptedSound
    <3> QED BY <3>1, <3>4
  <2>2. CASE ~fundingIsOpen(rec)
    BY <1>1, <2>2 DEF RefreshReads
  <2> QED BY <2>1, <2>2
<1>3. PICK b \in Record : b = bindFunding(r, readable) /\ Sound(b) /\ b.contract # None
  BY <1>2, BoundType, BoundSound
<1>n. PICK n \in Record : n = Noted(b) /\ Sound(n) /\ n.contract # None
  BY <1>3, NotedType, NotedSound
<1>4. PICK q \in Record : q = PreSigned(n, buildable) /\ Sound(q) /\ q.contract # None
  BY <1>n, PreSignedType, PreSignedSound
<1>5. job' = [op |-> "refresh", rec |-> q]
  BY <1>2, <1>3, <1>n, <1>4
<1> QED BY <1>4, <1>5

\* What a refresh saves is sound, of the chain and of what the node made up.
LEMMA SavesKeep ==
    ASSUME LegInv, NEW spend \in Answer, NEW found \in BOOLEAN, RefreshSaves(spend, found)
    PROVE  LegInv'
<1>1. PICK j \in Record : j = job.rec /\ Sound(j)
  BY NoneAssumption DEF LegInv, TypeOK, RefreshSaves
<1>2. PICK r : /\ rec' = Expired(PreimageFound(r, found))
               /\ \/ r = j /\ forged' = forged
                  \/ /\ Funded(j) /\ ~Terminal(j)
                     /\ \E tx \in Named(j, spend) :
                          /\ r = Absorbed(j, tx)
                          /\ forged' = IF spend = "forged" THEN forged \cup {tx} ELSE forged
  BY <1>1 DEF RefreshSaves
<1>3. UNCHANGED <<side, chain, clock, unlocked>> /\ job' = NoJob
  BY DEF RefreshSaves
<1>4. r \in Record /\ Sound(r)' /\ forged \subseteq forged' /\ forged' \subseteq Output \X Kind
  <2>1. CASE r = j /\ forged' = forged
    <3>1. ChainKeeps
      BY <1>3, <2>1 DEF ChainKeeps, chain
    <3>2. Sound(j)'
      BY <1>1, <3>1, SoundKept DEF LegInv
    <3> QED BY <1>1, <2>1, <3>2 DEF LegInv, TypeOK
  <2>2. ASSUME Funded(j), NEW tx \in Named(j, spend), r = Absorbed(j, tx),
               forged' = IF spend = "forged" THEN forged \cup {tx} ELSE forged
        PROVE  r \in Record /\ Sound(r)' /\ forged \subseteq forged' /\ forged' \subseteq Output \X Kind
    <3>1. /\ tx = NoSpend \/ tx \in broadcasts \/ (spend = "forged" /\ tx \notin broadcasts)
          /\ tx # NoSpend => tx \in Output \X Kind
      BY <1>1, <2>2, NamedIsKnown DEF LegInv
    <3>2. spend = "forged" => tx # NoSpend
      BY <1>1, <2>2, NoneAssumption DEF Named, Invented, NoSpend, Kind
    <3>3. forged \subseteq forged' /\ forged' \subseteq Output \X Kind /\ broadcasts' = broadcasts
      BY <1>3, <2>2, <3>1, <3>2 DEF LegInv, TypeOK, chain
    <3>4. ChainKeeps
      BY <1>3, <3>3 DEF ChainKeeps, chain
    <3>5. Sound(j)'
      BY <1>1, <3>4, SoundKept DEF LegInv
    <3>6. tx # NoSpend => tx \in (broadcasts \cup forged)' \cap (Output \X Kind)
      BY <2>2, <3>1, <3>3
    <3>7. Sound(Absorbed(j, tx))' /\ Absorbed(j, tx) \in Record
      BY <1>1, <2>2, <3>5, <3>6, AbsorbedSound
    <3> QED BY <2>2, <3>3, <3>7
  <2> QED BY <1>2, <2>1, <2>2
<1>5. PICK q \in Record : q = PreimageFound(r, found) /\ Sound(q)'
  BY <1>4, PreimageFoundSound
<1>6. PICK e \in Record : e = Expired(q) /\ Sound(e)'
  BY <1>5, ExpiredSound
<1>7. rec' = e
  BY <1>2, <1>5, <1>6
<1>8. NoJob \in [op : {None, "refresh", "redeem", "refund"}, rec : Record] /\ NoJob.op = None
  BY NoJobType DEF NoJob
<1>9. TypeOK'
  BY <1>3, <1>4, <1>6, <1>7, <1>8 DEF LegInv, TypeOK, side, chain
<1>10. Chain' /\ SecretNotSoldShort'
  BY <1>3 DEF LegInv, Chain, SecretNotSoldShort, RedeemRevealsSecret, side, chain
<1> QED BY <1>3, <1>6, <1>7, <1>8, <1>9, <1>10 DEF LegInv

\* Redeem and Refund put a spend of the bound funding on the network, and have in
\* hand the record that says so.
LEMMA RedeemKeeps ==
    ASSUME LegInv, NEW readable \in BOOLEAN, Redeem(readable)
    PROVE  LegInv'
<1> USE DEF LegInv
<1>1. PICK r \in Record : /\ r = bindFunding(rec, readable)
                          /\ FundingBound(r) /\ Sound(r) /\ r.contract # None
                          /\ r.secret /\ r.funding.value = rec.funding.value
  <2>1. rec \in Record /\ Sound(rec) /\ Funded(rec) /\ rec.secret
    BY DEF TypeOK, Redeem, MayRedeem
  <2>2. rec.contract # None
    BY <2>1 DEF Sound, Funded, NoFunding
  <2>3. FundingBound(bindFunding(rec, readable))
    BY DEF Redeem
  <2> QED BY <2>1, <2>2, <2>3, BoundType, BoundSound
<1>2. PICK o \in Output : o = r.funding.out
  BY <1>1 DEF FundingBound, Funded, Record, Funding
<1>3. PICK q : q = [r EXCEPT !.state = "redeemed", !.dest = TRUE]
  OBVIOUS
<1>4. /\ Live(o) /\ spent[o] = Unspent /\ Put(o, "redeem") /\ job' = [op |-> "redeem", rec |-> q]
      /\ UNCHANGED <<role, leg, forged, clock, unlocked, rec>>
  BY <1>1, <1>2, <1>3 DEF Redeem, Accepted, side
<1>5. Chain' /\ ChainKeeps /\ <<o, "redeem">> \in broadcasts'
  BY <1>4, PutKeepsChain DEF Kind, Put
<1>6. q \in Record
  BY <1>3 DEF Record, State
<1>7. TypeOK'
  BY <1>4, <1>6, PutType DEF TypeOK, Kind
<1>8. Sound(r)'
  BY <1>1, <1>5, SoundKept
<1>9. Sound(q)' /\ q.contract # None
  BY <1>1, <1>2, <1>3, <1>5, <1>6, <1>8
     DEF Sound, RefundIsOfFunding, BoundIsReal, EndIsReal, FundingBound, Funded, Record
<1>10. Sound(rec)'
  <2>1. PICK s \in Record : s = rec
    BY DEF TypeOK
  <2>2. Sound(s)'
    BY <2>1, <1>5, SoundKept
  <2> QED BY <2>1, <2>2, <1>4
<1>11. SecretNotSoldShort'
  <2>1. RedeemRevealsSecret => worth[o] = Agreed
    BY <1>1, <1>2
       DEF Redeem, MayRedeem, RedeemHeldForShortFunding, Sound, BoundIsReal, Record, Funding, Funded
  <2> QED BY <1>4, <2>1 DEF Put, SecretNotSoldShort, RedeemRevealsSecret
<1> QED BY <1>4, <1>5, <1>7, <1>9, <1>10, <1>11

LEMMA RefundKeeps ==
    ASSUME LegInv, NEW readable \in BOOLEAN, Refund(readable)
    PROVE  LegInv'
<1> USE DEF LegInv
<1>1. PICK r \in Record : /\ r = bindFunding(rec, readable)
                          /\ FundingBound(r) /\ Sound(r) /\ r.contract # None
  <2>1. rec \in Record /\ Sound(rec) /\ Funded(rec)
    BY DEF TypeOK, Refund, MayRefund
  <2>2. rec.contract # None
    BY <2>1 DEF Sound, Funded, NoFunding
  <2>3. FundingBound(bindFunding(rec, readable))
    BY DEF Refund
  <2> QED BY <2>1, <2>2, <2>3, BoundType, BoundSound
<1>2. PICK o \in Output : o = r.funding.out
  BY <1>1 DEF FundingBound, Funded, Record, Funding
<1>3. PICK tx : tx = [out |-> o, contract |-> r.contract]
  OBVIOUS
<1>4. RefundOf(r) = tx
  BY <1>1, <1>2, <1>3 DEF RefundOf, Sound, RefundIsOfFunding
<1>5. PICK q : q = [r EXCEPT !.refundTx = tx, !.state = "refunded", !.dest = TRUE]
  OBVIOUS
<1>6. /\ Live(o) /\ spent[o] = Unspent /\ Put(o, "refund") /\ job' = [op |-> "refund", rec |-> q]
      /\ UNCHANGED <<role, leg, forged, clock, unlocked, rec>>
  BY <1>1, <1>2, <1>3, <1>4, <1>5 DEF Refund, Accepted, side
<1>7. Chain' /\ ChainKeeps /\ <<o, "refund">> \in broadcasts'
  BY <1>6, PutKeepsChain DEF Kind, Put
<1>8. q \in Record
  BY <1>2, <1>3, <1>5 DEF Record, State, RefundTx
<1>9. TypeOK'
  BY <1>6, <1>8, PutType DEF TypeOK, Kind
<1>10. Sound(r)'
  BY <1>1, <1>7, SoundKept
<1>11. Sound(q)' /\ q.contract # None
  BY <1>1, <1>2, <1>3, <1>5, <1>7, <1>8, <1>10
     DEF Sound, RefundIsOfFunding, BoundIsReal, EndIsReal, FundingBound, Funded, Record
<1>12. Sound(rec)'
  <2>1. PICK s \in Record : s = rec
    BY DEF TypeOK
  <2>2. Sound(s)'
    BY <2>1, <1>7, SoundKept
  <2> QED BY <2>1, <2>2, <1>6
<1>13. SecretNotSoldShort'
  BY <1>6 DEF Put, SecretNotSoldShort, RedeemRevealsSecret, Refund, MayRefund
<1> QED BY <1>6, <1>7, <1>9, <1>11, <1>12, <1>13

\* The calls that decide with nothing to wait for.
LEMMA DecideKeeps ==
    ASSUME LegInv,
           \/ \E k \in Contract : AdoptContract(k)
           \/ SetSecret \/ RecordHtlc \/ RecordFundingBroadcast
    PROVE  LegInv'
<1> USE DEF LegInv
<1>1. /\ rec \in Record /\ Sound(rec) /\ job.op = None
      /\ job \in [op : {None, "refresh", "redeem", "refund"}, rec : Record]
      /\ UNCHANGED <<side, chain, forged, clock, unlocked, job>>
  BY DEF TypeOK, AdoptContract, SetSecret, RecordHtlc, RecordFundingBroadcast, Idle
<1>2. ASSUME NEW r \in Record, Sound(r), rec' = r PROVE LegInv'
  <2>1. PICK j : j = job
    OBVIOUS
  <2> HIDE DEF LegInv
  <2> QED BY <1>1, <1>2, <2>1, CallKeeps
<1>3. ASSUME NEW k \in Contract, AdoptContract(k) PROVE LegInv'
  <2>1. PICK r : r = [rec EXCEPT !.contract = k,
                                 !.state = IF @ = "draft" THEN "awaiting_funding" ELSE @]
    OBVIOUS
  <2>2. r \in Record
    <3>1. (IF rec.state = "draft" THEN "awaiting_funding" ELSE rec.state) \in State
      BY <1>1 DEF Record, State
    <3>2. rec \in Record
      BY <1>1
    <3> QED BY <2>1, <3>1, <3>2 DEF Record
  <2>3. rec.refundTx = NoRefund /\ ~Funded(rec)
    <3>1. CASE rec.contract = None
      BY <1>1, <3>1 DEF Sound, Funded, NoFunding
    <3>2. CASE rec.contract # None
      <4>1. ~ContractCommitted(rec)
        BY <1>3 DEF AdoptContract
      <4> QED BY <3>2, <4>1, Zenon DEF ContractCommitted
    <3> QED BY <3>1, <3>2
  <2>4. Sound(r)
    BY <1>1, <2>1, <2>3, NoneAssumption
       DEF Sound, RefundIsOfFunding, BoundIsReal, EndIsReal, FundingBound, Funded, Record
  <2>5. rec' = r
    BY <1>3, <2>1 DEF AdoptContract
  <2> QED BY <1>2, <2>2, <2>4, <2>5
<1>4. CASE SetSecret \/ RecordHtlc \/ RecordFundingBroadcast
  <2>1. PICK r : /\ r = rec'
                 /\ \/ r = [rec EXCEPT !.secret = TRUE]
                    \/ r = [rec EXCEPT !.staked = TRUE]
    BY <1>4 DEF SetSecret, RecordHtlc, RecordFundingBroadcast
  <2>2. r \in Record
    BY <1>1, <2>1 DEF Record
  <2>3. Sound(r)
    BY <1>1, <2>1
       DEF Sound, RefundIsOfFunding, BoundIsReal, EndIsReal, FundingBound, Funded, Record
  <2> QED BY <1>2, <2>1, <2>2, <2>3
<1> QED BY <1>3, <1>4

LEMMA CallsStep == LegInv /\ Calls => LegInv'
<1> SUFFICES ASSUME LegInv, Calls PROVE LegInv'
  OBVIOUS
<1>1. rec \in Record /\ Sound(rec) /\ NoJob.op = None
  BY DEF LegInv, TypeOK, NoJob
<1>2. PICK n \in [op : {None, "refresh", "redeem", "refund"}, rec : Record] :
        n = NoJob /\ n.op = None
  BY NoJobType, <1>1 DEF LegInv
<1>3. PICK r0 \in Record : r0 = rec /\ Sound(r0)
  BY <1>1
<1>4. ASSUME NEW answer \in {"right", "wrong"}, NEW readable \in BOOLEAN,
             NEW buildable \in BOOLEAN, RefreshReads(answer, readable, buildable)
      PROVE  LegInv'
  <2>1. rec.contract # None /\ UNCHANGED <<side, chain, forged, clock, unlocked, rec>>
    BY <1>4 DEF RefreshReads
  <2>2. PICK j \in [op : {None, "refresh", "redeem", "refund"}, rec : Record] :
          job' = j /\ Sound(j.rec) /\ j.rec.contract # None
    BY <1>4, <2>1, ReadsSound
  <2> QED BY <1>3, <2>1, <2>2, CallKeeps
<1>5. ASSUME NEW spend \in Answer, NEW found \in BOOLEAN, RefreshSaves(spend, found)
      PROVE  LegInv'
  BY <1>5, SavesKeep
<1>6. CASE SaveOutcome
  <2>1. PICK r \in Record : rec' = r /\ Sound(r)
    BY <1>6, NoneAssumption DEF SaveOutcome, LegInv, TypeOK
  <2>2. job' = n /\ UNCHANGED <<side, chain, forged, clock, unlocked>>
    BY <1>2, <1>6 DEF SaveOutcome
  <2> QED BY <1>2, <2>1, <2>2, CallKeeps
<1>7. CASE CallLost
  <2>1. job' = n /\ UNCHANGED <<side, chain, forged, clock, unlocked, rec>>
    BY <1>2, <1>7 DEF CallLost
  <2> QED BY <1>2, <1>3, <2>1, CallKeeps
<1> QED BY <1>4, <1>5, <1>6, <1>7, DecideKeeps, RedeemKeeps, RefundKeeps DEF Calls

LEMMA StutterKeeps == LegInv /\ UNCHANGED vars => LegInv'
<1> SUFFICES ASSUME LegInv, UNCHANGED vars PROVE LegInv'
  OBVIOUS
<1>1. TypeOK' /\ Chain' /\ SecretNotSoldShort' /\ ChainKeeps
  BY DEF LegInv, vars, TypeOK, Chain, SecretNotSoldShort, RedeemRevealsSecret, ChainKeeps
<1> QED BY <1>1, EnvironmentKeeps DEF vars

LEMMA LegInvariant == Spec => []LegInv
<1>1. LegInv /\ [Next]_vars => LegInv'
  BY CallsStep, EnvironmentStep, StutterKeeps DEF Next
<1> QED BY <1>1, InitLeg, PTL DEF Spec

(***************************************************************************)
(* What a call has in hand goes on from the stored record: it undoes       *)
(* nothing of it, and carries the refund of a funding it has bound, or the *)
(* reason why there is none.                                               *)
(***************************************************************************)
HasRefund(r) ==
    leg = "send" /\ FundingBound(r) /\ r.refundTx = NoRefund
        => IF r.dest THEN r.unsigned = r.funding.out ELSE r.noted

\* The strengthening of MissingRefundIsSaid and RecordOnlyAdvances.
GoesOn == /\ HasRefund(rec)
          /\ job.op # None => HasRefund(job.rec) /\ Advances(rec, job.rec)

LEMMA SameAdvances == ASSUME NEW r \in Record PROVE Advances(r, r)
BY DEF Advances, Record, Funding

LEMMA AdvancesIsTransitive ==
    ASSUME NEW r1 \in Record, NEW r2 \in Record, NEW r3 \in Record,
           Advances(r1, r2), Advances(r2, r3)
    PROVE  Advances(r1, r3)
<1>1. /\ r1.funding.value \in Int /\ r2.funding.value \in Int /\ r3.funding.value \in Int
  BY DEF Record, Funding
<1> QED BY <1>1 DEF Advances, Ended

LEMMA AdoptedAdvances ==
    ASSUME NEW r \in Record, ~Terminal(r), NEW out \in Output \cup {None},
           NEW value \in {0} \cup Amount, value # 0 => out # None
    PROVE  Advances(r, Adopted(r, [out |-> out, value |-> value]))
<1>1. r.funding.value \in {0} \cup Amount
  BY DEF Record, Funding
<1> QED BY <1>1 DEF Advances, Adopted, ContractCommitted, Ended, Terminal, Funded, Record

LEMMA BoundAdvances ==
    ASSUME NEW r \in Record, NEW readable \in BOOLEAN
    PROVE  Advances(r, bindFunding(r, readable))
<1>1. r.funding \in Funding /\ r.funding.value \in Int
  BY DEF Record, Funding
<1> QED BY <1>1 DEF Advances, bindFunding, ContractCommitted, Ended, Terminal, Funded, Record, Funding

LEMMA NotedAdvances ==
    ASSUME NEW r \in Record
    PROVE  /\ Advances(r, Noted(r))
           /\ leg = "send" /\ FundingBound(Noted(r)) /\ ~Noted(r).dest => Noted(r).noted
<1>1. r.funding.value \in Int
  BY DEF Record, Funding
<1> QED BY <1>1
        DEF Advances, Noted, ContractCommitted, Ended, FundingBound, Terminal, Funded, Record

LEMMA PreSignedAdvances ==
    ASSUME NEW r \in Record, NEW buildable \in BOOLEAN,
           leg = "send" /\ FundingBound(r) /\ ~r.dest => r.noted
    PROVE  Advances(r, PreSigned(r, buildable)) /\ HasRefund(PreSigned(r, buildable))
<1>1. r.funding.value \in Int
  BY DEF Record, Funding
<1>2. FundingBound(r) => [out |-> r.funding.out, contract |-> r.contract] # NoRefund
  BY DEF FundingBound, NoRefund
<1> QED BY <1>1, <1>2
        DEF Advances, HasRefund, PreSigned, Signed, ContractCommitted, Ended, FundingBound, Terminal,
            Funded, Record

LEMMA AbsorbedAdvances ==
    ASSUME NEW r \in Record, ~Terminal(r), HasRefund(r), NEW tx,
           SpendsOurs(r, tx) => tx[2] \in Kind
    PROVE  Advances(r, Absorbed(r, tx)) /\ HasRefund(Absorbed(r, tx))
<1>1. r.funding.value \in Int
  BY DEF Record, Funding
<1> QED BY <1>1
        DEF Advances, HasRefund, Absorbed, EndOf, ContractCommitted, Ended, FundingBound, Terminal, Funded,
            Record

LEMMA PreimageFoundAdvances ==
    ASSUME NEW r \in Record, HasRefund(r), NEW found \in BOOLEAN
    PROVE  Advances(r, PreimageFound(r, found)) /\ HasRefund(PreimageFound(r, found))
<1>1. r.funding.value \in Int
  BY DEF Record, Funding
<1> QED BY <1>1
        DEF Advances, HasRefund, PreimageFound, ContractCommitted, Ended, FundingBound, Terminal, Funded,
            Record

LEMMA ExpiredAdvances ==
    ASSUME NEW r \in Record, HasRefund(r)
    PROVE  Advances(r, Expired(r)) /\ HasRefund(Expired(r))
<1>1. r.funding.value \in Int
  BY DEF Record, Funding
<1> QED BY <1>1
        DEF Advances, HasRefund, Expired, ContractCommitted, Ended, FundingBound, Terminal, Funded, Record

\* The record a refresh has in hand after its reads.
LEMMA ReadsAdvance ==
    ASSUME LegInv,
           NEW answer \in {"right", "wrong"}, NEW readable \in BOOLEAN, NEW buildable \in BOOLEAN,
           RefreshReads(answer, readable, buildable)
    PROVE  \E q \in Record : job' = [op |-> "refresh", rec |-> q]
                             /\ HasRefund(q) /\ Advances(rec, q)
<1>1. rec \in Record
  BY DEF LegInv, TypeOK
<1>2. PICK r \in Record :
        /\ Advances(rec, r)
        /\ job' = [op |-> "refresh", rec |-> PreSigned(Noted(bindFunding(r, readable)), buildable)]
  <2>1. CASE fundingIsOpen(rec)
    <3>1. PICK pick \in Picked(rec, answer) :
            job' = [op |-> "refresh",
                    rec |-> PreSigned(Noted(bindFunding(Adopted(rec, pick), readable)),
                                      buildable)]
      BY <2>1 DEF RefreshReads
    <3>2. PICK out \in Output \cup {None}, value \in {0} \cup Amount :
            pick = [out |-> out, value |-> value] /\ (value # 0 => out # None)
      BY <3>1, NoneAssumption DEF Picked, Best, Listed, LegInv, TypeOK
    <3>3. Adopted(rec, pick) \in Record /\ Advances(rec, Adopted(rec, pick))
      BY <1>1, <2>1, <3>2, AdoptedType, AdoptedAdvances DEF fundingIsOpen
    <3> QED BY <3>1, <3>3
  <2>2. CASE ~fundingIsOpen(rec)
    BY <1>1, <2>2, SameAdvances DEF RefreshReads
  <2> QED BY <2>1, <2>2
<1>3. PICK b \in Record : b = bindFunding(r, readable) /\ Advances(rec, b)
  BY <1>1, <1>2, BoundType, BoundAdvances, AdvancesIsTransitive
<1>n. PICK n \in Record :
        /\ n = Noted(b) /\ Advances(rec, n)
        /\ leg = "send" /\ FundingBound(n) /\ ~n.dest => n.noted
  BY <1>1, <1>3, NotedType, NotedAdvances, AdvancesIsTransitive
<1>4. PICK q \in Record : q = PreSigned(n, buildable) /\ Advances(rec, q) /\ HasRefund(q)
  BY <1>1, <1>n, PreSignedType, PreSignedAdvances, AdvancesIsTransitive
<1> QED BY <1>2, <1>3, <1>n, <1>4

\* What a refresh saves.
LEMMA SavesAdvance ==
    ASSUME LegInv, GoesOn, NEW spend \in Answer, NEW found \in BOOLEAN, RefreshSaves(spend, found)
    PROVE  \E q \in Record : rec' = q /\ HasRefund(q) /\ Advances(rec, q)
<1>1. /\ rec \in Record /\ job.rec \in Record /\ Sound(job.rec)
      /\ HasRefund(job.rec) /\ Advances(rec, job.rec)
  BY NoneAssumption DEF LegInv, TypeOK, RefreshSaves, GoesOn
<1>2. PICK r : /\ rec' = Expired(PreimageFound(r, found))
               /\ \/ r = job.rec
                  \/ /\ Funded(job.rec) /\ ~Terminal(job.rec)
                     /\ \E tx \in Named(job.rec, spend) : r = Absorbed(job.rec, tx)
  BY DEF RefreshSaves
<1>3. r \in Record /\ HasRefund(r) /\ Advances(rec, r)
  <2>1. ASSUME Funded(job.rec), ~Terminal(job.rec), NEW tx \in Named(job.rec, spend),
               r = Absorbed(job.rec, tx)
        PROVE  r \in Record /\ HasRefund(r) /\ Advances(rec, r)
    <3>1. tx # NoSpend => tx \in Output \X Kind
      BY <1>1, <2>1, NamedIsKnown DEF LegInv
    <3>2. SpendsOurs(job.rec, tx) => tx[2] \in Kind
      BY <2>1, <3>1 DEF SpendsOurs, NoSpend, Funded
    <3>3. r \in Record
      BY <1>1, <2>1, <3>2 DEF Absorbed, EndOf, Kind, Record, State
    <3>4. HasRefund(r) /\ Advances(job.rec, r)
      BY <1>1, <2>1, <3>2, AbsorbedAdvances
    <3> QED BY <1>1, <3>3, <3>4, AdvancesIsTransitive
  <2> QED BY <1>1, <1>2, <2>1
<1>4. PICK p \in Record : p = PreimageFound(r, found) /\ HasRefund(p) /\ Advances(rec, p)
  <2>1. PreimageFound(r, found) \in Record
    BY <1>3 DEF PreimageFound, Record
  <2> QED BY <1>1, <1>3, <2>1, PreimageFoundAdvances, AdvancesIsTransitive
<1>5. Expired(p) \in Record
  BY <1>4 DEF Expired, Record, State
<1> QED BY <1>1, <1>2, <1>4, <1>5, ExpiredAdvances, AdvancesIsTransitive

\* The record that a redeem or a refund saves, once the network has taken the
\* spend: a record with another end is not left while that end stands.
LEMMA EndsAdvance ==
    ASSUME LegInv, GoesOn, NEW readable \in BOOLEAN, Redeem(readable) \/ Refund(readable)
    PROVE  \E q \in Record, op \in {"redeem", "refund"} :
              job' = [op |-> op, rec |-> q] /\ HasRefund(q) /\ Advances(rec, q)
<1>1. rec \in Record /\ Sound(rec)
  BY DEF LegInv, TypeOK
<1>2. PICK r \in Record : /\ r = bindFunding(rec, readable) /\ Advances(rec, r)
                          /\ FundingBound(r) /\ r.funding.out = rec.funding.out
                          /\ Sound(r)
  <2>1. Funded(rec) /\ FundingBound(bindFunding(rec, readable))
    BY DEF Redeem, Refund, MayRedeem, MayRefund
  <2>2. rec.contract # None
    BY <1>1, <2>1 DEF Sound, Funded, NoFunding
  <2> QED BY <1>1, <2>1, <2>2, BoundType, BoundSound, BoundAdvances
<1>3. r.funding.out \in Output /\ rec.funding.out = r.funding.out
  BY <1>2 DEF FundingBound, Funded, Record, Funding
<1>4. RefundOf(r) = [out |-> r.funding.out, contract |-> r.contract]
  BY <1>2 DEF RefundOf, Sound, RefundIsOfFunding
<1>5. spent[r.funding.out] = Unspent
  BY <1>2, <1>4 DEF Redeem, Refund, Accepted
<1>6. ASSUME NEW kind \in Kind, Ended(rec, kind), upsets = 0
      PROVE  <<rec.funding.out, kind>> \in forged
  <2>1. <<rec.funding.out, kind>> \in broadcasts \cup forged
    BY <1>1, <1>6 DEF Ended, Sound, EndIsReal, Kind
  <2>2. spent[rec.funding.out].kind # kind
    BY <1>3, <1>5 DEF Unspent, Kind
  <2> QED BY <1>3, <1>6, <2>1, <2>2 DEF LegInv, Chain
<1>7. ASSUME NEW q \in Record,
             \/ q = [r EXCEPT !.state = "redeemed", !.dest = TRUE]
             \/ \E tx : q = [r EXCEPT !.refundTx = tx, !.state = "refunded", !.dest = TRUE]
      PROVE  Advances(rec, q)
  <2>1. Terminal(q) /\ q.funding = r.funding /\ q.contract = r.contract /\ q.secret = r.secret
    BY <1>7 DEF Terminal, Record
  <2>2. ContractCommitted(r) => ContractCommitted(q)
    BY <2>1 DEF ContractCommitted, Ended, Terminal
  <2>3. Terminal(rec) => \E kind \in Kind : Ended(rec, kind)
    BY DEF Terminal, Ended, Kind
  <2> QED BY <1>2, <1>3, <1>6, <2>1, <2>2, <2>3 DEF Advances
<1>8. CASE Redeem(readable)
  <2>1. PICK q : q = [r EXCEPT !.state = "redeemed", !.dest = TRUE]
    OBVIOUS
  <2>2. job' = [op |-> "redeem", rec |-> q] /\ leg = "receive"
    BY <1>2, <1>8, <2>1 DEF Redeem, MayRedeem
  <2>3. q \in Record
    BY <2>1 DEF Record, State
  <2>4. HasRefund(q)
    BY <2>2 DEF HasRefund
  <2> QED BY <1>7, <2>1, <2>2, <2>3, <2>4
<1>9. CASE Refund(readable)
  <2>1. PICK q : q = [r EXCEPT !.refundTx = RefundOf(r), !.state = "refunded", !.dest = TRUE]
    OBVIOUS
  <2>2. job' = [op |-> "refund", rec |-> q]
    BY <1>2, <1>9, <2>1 DEF Refund
  <2>3. RefundOf(r) \in RefundTx /\ RefundOf(r) # NoRefund
    BY <1>2, <1>3, <1>4 DEF RefundTx, NoRefund, FundingBound, Funded, Record
  <2>4. q \in Record /\ q.refundTx # NoRefund
    BY <2>1, <2>3 DEF Record, State
  <2> QED BY <1>7, <2>1, <2>2, <2>4 DEF HasRefund
<1> QED BY <1>8, <1>9

\* The calls that decide with nothing to wait for.
LEMMA DecisionsAdvance ==
    ASSUME LegInv, GoesOn,
           \/ \E k \in Contract : AdoptContract(k)
           \/ SetSecret \/ RecordHtlc \/ RecordFundingBroadcast
    PROVE  HasRefund(rec)' /\ Advances(rec, rec')
<1>1. rec \in Record /\ Sound(rec) /\ HasRefund(rec) /\ rec.funding.value \in Int
  BY DEF LegInv, TypeOK, GoesOn, Record, Funding
<1>2. PICK r : r = rec'
  OBVIOUS
<1>3. leg' = leg
  BY DEF AdoptContract, SetSecret, RecordHtlc, RecordFundingBroadcast, side
<1>4. ASSUME NEW k \in Contract, AdoptContract(k) PROVE HasRefund(r) /\ Advances(rec, r)
  <2>1. r = [rec EXCEPT !.contract = k,
                        !.state = IF @ = "draft" THEN "awaiting_funding" ELSE @]
    BY <1>2, <1>4 DEF AdoptContract
  <2>2. ~ContractCommitted(rec)
    BY <1>4 DEF AdoptContract
  <2>3. ~Funded(rec)
    BY <1>1, <2>2 DEF ContractCommitted, Sound, Funded, NoFunding
  <2>4. Terminal(rec) => r.state = rec.state
    BY <1>1, <2>1 DEF Terminal, Record
  <2>5. r.funding = rec.funding /\ r.secret = rec.secret
    BY <1>1, <2>1 DEF Record
  <2> QED BY <1>1, <2>2, <2>3, <2>4, <2>5 DEF HasRefund, FundingBound, Funded, Advances, Terminal
<1>5. CASE SetSecret \/ RecordHtlc \/ RecordFundingBroadcast
  <2>1. \/ r = [rec EXCEPT !.secret = TRUE]
        \/ r = [rec EXCEPT !.staked = TRUE]
    BY <1>2, <1>5 DEF SetSecret, RecordHtlc, RecordFundingBroadcast
  <2>2. HasRefund(r) /\ Advances(rec, r)
    BY <1>1, <2>1
       DEF HasRefund, FundingBound, Funded, Advances, ContractCommitted, Terminal, Record
  <2> QED BY <1>2, <1>3, <2>2 DEF HasRefund, FundingBound, Funded
<1> QED BY <1>2, <1>3, <1>4, <1>5 DEF HasRefund, FundingBound, Funded

\* A step that leaves the record and the call alone.
LEMMA OthersGoOn ==
    ASSUME LegInv, LegInv', GoesOn, Environment \/ UNCHANGED vars
    PROVE  GoesOn' /\ Advances(rec, rec')
<1>1. UNCHANGED <<leg, forged, rec, job>>
  BY DEF Environment, Paid, SpendMined, CounterpartySpends, SecretUnlocked, Upset,
         ClockMoves, side, vars
<1>2. upsets' = 0 => upsets = 0
  BY BoundAssumption DEF Environment, Paid, SpendMined, CounterpartySpends, Put, Accepted,
         SecretUnlocked, Upset, ClockMoves, chain, vars, LegInv, TypeOK
<1>3. Advances(rec, rec')
  BY <1>1, SameAdvances DEF LegInv, TypeOK
<1>4. GoesOn'
  BY <1>1, <1>2 DEF GoesOn, HasRefund, FundingBound, Funded, Advances, ContractCommitted, Ended, Terminal
<1> QED BY <1>3, <1>4

LEMMA NextGoesOn ==
    ASSUME LegInv, LegInv', GoesOn, [Next]_vars
    PROVE  GoesOn' /\ Advances(rec, rec')
<1>1. PICK r \in Record : r = rec /\ HasRefund(r) /\ Advances(rec, r)
  BY SameAdvances DEF LegInv, TypeOK, GoesOn
<1>2. NoJob.op = None /\ "refresh" # None /\ "redeem" # None /\ "refund" # None
  BY NoneAssumption DEF NoJob
<1>3. ASSUME NEW answer \in {"right", "wrong"}, NEW readable \in BOOLEAN,
             NEW buildable \in BOOLEAN, RefreshReads(answer, readable, buildable)
      PROVE  GoesOn' /\ Advances(rec, rec')
  <2>1. PICK q \in Record : job' = [op |-> "refresh", rec |-> q]
                            /\ HasRefund(q) /\ Advances(rec, q)
    BY <1>3, ReadsAdvance
  <2>2. rec' = rec /\ leg' = leg /\ upsets' = upsets /\ forged' = forged
    BY <1>3 DEF RefreshReads, side, chain
  <2> QED BY <1>1, <2>1, <2>2
          DEF GoesOn, HasRefund, FundingBound, Funded, Advances, ContractCommitted, Ended, Terminal
<1>4. ASSUME NEW readable \in BOOLEAN, Redeem(readable) \/ Refund(readable)
      PROVE  GoesOn' /\ Advances(rec, rec')
  <2>1. PICK q \in Record, op \in {"redeem", "refund"} :
           job' = [op |-> op, rec |-> q] /\ HasRefund(q) /\ Advances(rec, q)
    BY <1>4, EndsAdvance
  <2>2. rec' = rec /\ leg' = leg /\ upsets' = upsets /\ forged' = forged
    BY <1>4 DEF Redeem, Refund, Put, side
  <2> QED BY <1>1, <2>1, <2>2
          DEF GoesOn, HasRefund, FundingBound, Funded, Advances, ContractCommitted, Ended, Terminal
<1>5. ASSUME NEW q \in Record, rec' = q, HasRefund(q), Advances(rec, q), job'.op = None,
             leg' = leg
      PROVE  GoesOn' /\ Advances(rec, rec')
  BY <1>5 DEF GoesOn, HasRefund, FundingBound, Funded
<1>6. ASSUME NEW spend \in Answer, NEW found \in BOOLEAN, RefreshSaves(spend, found)
      PROVE  GoesOn' /\ Advances(rec, rec')
  BY <1>2, <1>5, <1>6, SavesAdvance DEF RefreshSaves, side
<1>7. CASE SaveOutcome
  <2>1. job.rec \in Record /\ HasRefund(job.rec) /\ Advances(rec, job.rec) /\ rec' = job.rec
    BY <1>2, <1>7 DEF SaveOutcome, GoesOn, LegInv, TypeOK
  <2> QED BY <1>2, <1>5, <1>7, <2>1 DEF SaveOutcome, side
<1>8. CASE CallLost
  BY <1>1, <1>2, <1>5, <1>8 DEF CallLost, side
<1>9. CASE \/ \E k \in Contract : AdoptContract(k)
           \/ SetSecret \/ RecordHtlc \/ RecordFundingBroadcast
  <2>1. job'.op = None
    BY <1>9 DEF AdoptContract, SetSecret, RecordHtlc, RecordFundingBroadcast, Idle
  <2> QED BY <1>9, <2>1, DecisionsAdvance DEF GoesOn
<1> QED BY <1>3, <1>4, <1>6, <1>7, <1>8, <1>9, OthersGoOn DEF Next, Calls

LEMMA RecordGoesOn == Spec => []GoesOn
<1>1. Init => GoesOn
  BY DEF Init, GoesOn, HasRefund, FundingBound, Funded, NewRecord, NoFunding, NoJob
<1>2. LegInv /\ LegInv' /\ GoesOn /\ [Next]_vars => GoesOn'
  BY NextGoesOn
<1> QED BY <1>1, <1>2, LegInvariant, PTL DEF Spec

(***************************************************************************)
(* The theorems.                                                           *)
(***************************************************************************)

\* Every variable keeps its type.
THEOREM BtcLegTypeOK == Spec => []TypeOK
<1>1. LegInv => TypeOK
  BY DEF LegInv
<1> QED BY <1>1, LegInvariant, PTL

\* The pre-signed refund spends the output the record calls its funding, under
\* the contract that output pays (Refresh, Refund).
THEOREM RefundIsOfTheFunding == Spec => []RefundRecoversTheFunding
<1>1. LegInv => RefundRecoversTheFunding
  BY DEF LegInv, Sound, RefundIsOfFunding, BoundIsReal, RefundRecoversTheFunding
<1> QED BY <1>1, LegInvariant, PTL

\* A bound funding's script and amount are the chain's (bindFunding).
THEOREM BoundFundingStaysReal == Spec => []BoundFundingIsReal
<1>1. LegInv => BoundFundingIsReal
  BY DEF LegInv, Sound, BoundIsReal, BoundFundingIsReal
<1> QED BY <1>1, LegInvariant, PTL

\* A terminal state is of a transaction that was broadcast, and is on the chain
\* until that takes something back, or of one that a node made up for this very
\* output (absorbSpend, saveOutcome).
THEOREM OutcomeStaysReal == Spec => []OutcomeIsReal
<1>1. ASSUME LegInv, NEW kind \in Kind, Ended(rec, kind),
             <<rec.funding.out, kind>> \notin forged
      PROVE  /\ <<rec.funding.out, kind>> \in broadcasts
             /\ upsets = 0 => spent[rec.funding.out].kind = kind
  <2>1. <<rec.funding.out, kind>> \in broadcasts
    BY <1>1 DEF LegInv, Sound, EndIsReal, Ended, Kind
  <2>2. rec.funding.out \in Output
    BY <1>1, <2>1 DEF LegInv, TypeOK
  <2> QED BY <1>1, <2>1, <2>2 DEF LegInv, Chain
<1>2. LegInv => OutcomeIsReal
  BY <1>1 DEF OutcomeIsReal
<1> QED BY <1>2, LegInvariant, PTL

\* A redeemed record holds the secret (absorbSpend, Redeem).
THEOREM RedeemedHoldsTheSecret == Spec => []RedeemedMeansSecretKnown
<1>1. LegInv => RedeemedMeansSecretKnown
  BY DEF LegInv, Sound, EndIsReal, RedeemedMeansSecretKnown
<1> QED BY <1>1, LegInvariant, PTL

\* The initiator's secret is never published for less than was agreed (Redeem).
THEOREM SecretIsNotSoldShort == Spec => []SecretNotSoldShort
<1>1. LegInv => SecretNotSoldShort
  BY DEF LegInv
<1> QED BY <1>1, LegInvariant, PTL

\* No record is stored with its funding bound and neither the refund of it nor
\* the reason why there is none (Refresh, Refund).
THEOREM MissingRefundsAreSaid == Spec => []MissingRefundIsSaid
<1>1. GoesOn => MissingRefundIsSaid
  BY DEF GoesOn, HasRefund, MissingRefundIsSaid
<1> QED BY <1>1, RecordGoesOn, PTL

\* No save undoes what the record held: the secret, a staked contract, a funding,
\* an end of the swap's own that stands (Store.Save by Refresh, Redeem, Refund and the rest).
THEOREM RecordsOnlyAdvance == Spec => RecordOnlyAdvances
<1>1. LegInv /\ LegInv' /\ GoesOn /\ [Next]_vars => [Advances(rec, rec')]_vars
  BY NextGoesOn
<1> QED BY <1>1, LegInvariant, RecordGoesOn, PTL DEF Spec, RecordOnlyAdvances
=============================================================================
