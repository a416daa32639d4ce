-------------------------- MODULE ZenonLeg_proofs ---------------------------
(***************************************************************************)
(* Theorems about ZenonLeg, for any tabs, entries, accounts, and number of *)
(* times the wallet's settings are changed.                                *)
(*                                                                         *)
(* What makes the properties inductive is what a block carries from the    *)
(* plan to the chain (CardHolds): an unlock on a card is for an entry that *)
(* passed and that the block's signer may unlock; what an entry once was   *)
(* it stays (EntriesHold), and whose it is (Whose); and, in order, a       *)
(* create is on one card only, as long as no lot was locked (LotHolds).    *)
(***************************************************************************)
EXTENDS ZenonLeg, FiniteSetTheorems, TLAPS

\* An entry that holds what was agreed and pays who it should.
Sound(h) == /\ entry[h].state # "none" /\ ~entry[h].short
            /\ IF ZenonHtlcIsOurs THEN entry[h].to = Peer ELSE entry[h].to \in Accounts

\* Only this side's own creates are on their way; what was reclaimed had expired.
EntriesHold ==
    \A h \in Id : /\ entry[h].state \in {"sent", "elsewhere"} => ZenonHtlcIsOurs
                  /\ entry[h].state = "reclaimed" => h \in expired

\* Whose the entries are: on the side that locks ZNN they are this user's, on the
\* other the counterparty's.  None runs out before it was made.
Whose == \A h \in Id :
    /\ entry[h].state = "none" => entry[h].by \notin Accounts /\ h \notin expired
    /\ entry[h].state # "none" => (entry[h].by \in Accounts <=> ZenonHtlcIsOurs)

\* The strengthening of VerdictCoversTheTerms.
VerdictOf(r) == r.verified => /\ r.read \in Id /\ Sound(r.read)
                              /\ Orderly => r.id = r.read
VerdictHolds == VerdictOf(Loaded(rec))

\* The published block is not the one that was proposed.
Departs(c) == c.by # c.signer \/ c.strayed

\* The strengthening of UnlocksWhatWasAgreed and UnlocksAreReal.
UnlockOf(c) ==
    c.action = "unlock" /\ Built(c) =>
        /\ c.id \in Id /\ Sound(c.id) /\ ~ZenonHtlcIsOurs
        /\ entry[c.id].to = c.signer \/ entry[c.id].to \notin denied
        /\ c.phase = "published" =>
             c.by \in Accounts /\ (~Departs(c) => PreimagePublic \/ expired # {})
CardHolds == \A t \in Tabs : UnlockOf(card[t])

\* A create is of the side that locks ZNN, and made a lot when published.
CreateOf(c) ==
    Creating(c) =>
        ZenonHtlcIsOurs /\ (c.phase = "published" => c.made \in Lots)
CreateHolds == \A t \in Tabs : CreateOf(card[t])

\* The strengthening of OneLot.
LotHolds ==
    Orderly =>
        /\ \A t, u \in Tabs : Creating(card[t]) /\ Creating(card[u]) => t = u
        /\ Lots # {} =>
             /\ \E h \in Id : Lots = {h}
             /\ \/ \E t \in Tabs : Creating(card[t]) /\ card[t].phase = "published"
                \/ rec.id # NoId /\ \A t \in Tabs : ~Creating(card[t])

ZenonInv == /\ TypeOK /\ EntriesHold /\ Whose /\ VerdictHolds /\ CardHolds /\ CreateHolds
            /\ UnlocksAreReal /\ LotHolds

----------------------------------------------------------------------------
(* The operators on a record. *)

LEMMA LoadedIsTyped == ASSUME NEW r \in Record PROVE Loaded(r) \in Record
BY DEF Record, Loaded

\* Loading withdraws a verdict and changes nothing else.
LEMMA LoadedKeeps ==
    ASSUME NEW r \in Record
    PROVE  /\ Loaded(r).id = r.id /\ Loaded(r).self = r.self /\ Loaded(r).read = r.read
           /\ Loaded(r).secret = r.secret /\ Loaded(r).unlockHash = r.unlockHash
BY DEF Record, Loaded

LEMMA JudgedIsTyped ==
    ASSUME NEW r \in Record, NEW h \in Id \cup {NoId}, NEW v
    PROVE  Judged(r, h, v) \in Record
<1>1. (v = "passed") \in BOOLEAN /\ (v = "incomplete") \in BOOLEAN
  OBVIOUS
<1> QED
  BY <1>1 DEF Record, Judged

LEMMA VerifyResultsAreTyped ==
    ASSUME NEW r \in Record, NEW h \in Id \cup {NoId}, NEW s \in VerifyResults(r, h)
    PROVE  s \in Record
<1>1. CASE \E b \in BOOLEAN : s = Judged(r, h, Verify(r, h, b))
  BY <1>1, JudgedIsTyped
<1>2. CASE s = [Recovered(r) EXCEPT !.id = h]
  BY <1>2 DEF Recovered, Record
<1> QED
  BY <1>1, <1>2 DEF VerifyResults

LEMMA RecordedCreateIsTyped ==
    ASSUME NEW r \in Record, NEW h \in Id \cup {NoId}, NEW from \in Accounts \cup {NoAddr},
           NEW s \in RecordedCreate(r, h, from)
    PROVE  s \in Record
<1> DEFINE noted == [r EXCEPT !.id = h, !.self = IF r.self = NoAddr THEN from ELSE r.self]
<1>1. noted \in Record
  BY DEF Record
<1>2. [noted EXCEPT !.pending = TRUE] \in Record
  BY <1>1 DEF Record
<1> HIDE DEF noted
<1>3. s \in {noted, [noted EXCEPT !.pending = TRUE]} \/ s \in VerifyResults(noted, h)
  BY DEF RecordedCreate, noted
<1> QED
  BY <1>1, <1>2, <1>3, VerifyResultsAreTyped

LEMMA CompletedIsTyped ==
    ASSUME NEW r \in Record, NEW self \in Accounts \cup {NoAddr}, NEW terms \in BOOLEAN
    PROVE  Completed(r, self, terms) \in Record
BY DEF Record, Completed

----------------------------------------------------------------------------
(* Type correctness. *)

LEMMA NoCardIsTyped == NoCard \in Card
BY DEF NoCard, Card, Action, Wallet, Disconnected

LEMMA InitTypeOK == Init => TypeOK
<1> SUFFICES ASSUME Init PROVE TypeOK
  OBVIOUS
<1>1. /\ role \in {"initiator", "participant"} /\ leg \in {"send", "receive"}
      /\ expired = {} /\ moves = 0 /\ buried = FALSE /\ slips = {}
      /\ wallet = [t \in Tabs |-> Disconnected] /\ card = [t \in Tabs |-> NoCard]
  BY DEF Init
<1>2. denied \in SUBSET Deniers
  BY DEF Init
<1>3. selected \in Wallet
  BY DEF Init, Wallet
<1>4. rec \in Record /\ entry \in [Id -> Entry]
  <2> DEFINE New(self, terms) == [BlankRecord EXCEPT !.self = self, !.terms = terms,
                                                     !.secret = role = "initiator"]
  <2>1. PICK self \in Accounts \cup {NoAddr}, terms \in BOOLEAN :
          \/ rec = New(self, terms) /\ entry = [h \in Id |-> NoEntry]
          \/ \E h \in Id, to \in Address :
               /\ rec = [New(self, terms) EXCEPT !.id = h, !.read = h, !.verified = TRUE]
               /\ entry = [i \in Id |-> IF i = h THEN Live(Peer, to, FALSE) ELSE NoEntry]
    BY Zenon DEF Init
  <2> DEFINE new == New(self, terms)
  <2>2. (role = "initiator") \in BOOLEAN
    OBVIOUS
  <2>3. new \in Record
    BY <2>2, NamesAssumption DEF BlankRecord, Record
  <2>4. NoEntry \in Entry /\ \A to \in Address : Live(Peer, to, FALSE) \in Entry
    BY DEF NoEntry, Entry, Live, Address
  <2>5. \A h \in Id : [new EXCEPT !.id = h, !.read = h, !.verified = TRUE] \in Record
    <3> HIDE DEF new
    <3> QED
      BY <2>3 DEF Record
  <2>6. CASE rec = new /\ entry = [h \in Id |-> NoEntry]
    <3> HIDE DEF new
    <3> QED
      BY <2>3, <2>4, <2>6
  <2>7. ASSUME NEW h \in Id, NEW to \in Address,
               rec = [new EXCEPT !.id = h, !.read = h, !.verified = TRUE],
               entry = [i \in Id |-> IF i = h THEN Live(Peer, to, FALSE) ELSE NoEntry]
        PROVE  rec \in Record /\ entry \in [Id -> Entry]
    <3> HIDE DEF new
    <3> QED
      BY <2>4, <2>5, <2>7
  <2> QED
    BY <2>1, <2>6, <2>7, Zenon
<1>5. moves \in 0..MaxMoves
  BY <1>1, NamesAssumption
<1>6. /\ slips \in SUBSET {"lost", "paired", "unseen"} /\ buried \in BOOLEAN
      /\ expired \in SUBSET Id /\ wallet \in [Tabs -> Wallet \cup {Disconnected}]
      /\ card \in [Tabs -> Card]
  BY <1>1, NoCardIsTyped
<1> QED
  BY <1>1, <1>2, <1>3, <1>4, <1>5, <1>6, Zenon DEF TypeOK

\* The calls of the engine write a record.
LEMMA EngineWritesRecords == ASSUME TypeOK, Engine PROVE rec' \in Record
<1>1. rec \in Record /\ Loaded(rec) \in Record
  BY LoadedIsTyped DEF TypeOK
<1>2. ASSUME NEW self \in Accounts \cup {NoAddr}, NEW terms \in BOOLEAN,
             SetZenonTerms(self, terms)
      PROVE  rec' \in Record
  BY <1>1, <1>2, CompletedIsTyped DEF SetZenonTerms, Save
<1>3. ASSUME NEW h \in Id, VerifyZenon(h) PROVE rec' \in Record
  BY <1>1, <1>3, VerifyResultsAreTyped DEF VerifyZenon, Save
<1>4. ASSUME NEW h \in Id, FindZenonHtlc(h) PROVE rec' \in Record
  BY <1>1, <1>4, JudgedIsTyped DEF FindZenonHtlc, Save
<1>5. ASSUME NEW b \in BOOLEAN, HeartbeatVerifies(b) PROVE rec' \in Record
  <2>1. rec.id \in Id
    BY <1>1, <1>5 DEF HeartbeatVerifies, verifyDue, Record
  <2> QED
    BY <1>1, <1>5, <2>1, JudgedIsTyped DEF HeartbeatVerifies, Save
<1>6. CASE RefreshFindsPreimage
  BY <1>1, <1>6 DEF RefreshFindsPreimage, Save, Recovered, Record
<1>7. CASE SetSecret
  BY <1>1, <1>7 DEF SetSecret, Save, Record
<1>8. CASE AuditContract
  BY <1>1, <1>8 DEF AuditContract, Save, Record
<1> QED
  BY <1>2, <1>3, <1>4, <1>5, <1>6, <1>7, <1>8 DEF Engine

\* Cards of every phase are cards.
LEMMA CardChangesAreTyped ==
    ASSUME NEW c \in Card
    PROVE  BackOnCard(c) \in Card /\ DropsBlock(c) \in Card
<1>1. [c EXCEPT !.phase = "planned", !.asked = Disconnected, !.by = NoAddr,
                !.strayed = FALSE] \in Card
  BY ZenonT(30) DEF Card
<1>2. BackOnCard(c) \in Card
  BY <1>1, NoCardIsTyped, Zenon DEF BackOnCard
<1>3. (c.phase = "checking") \in BOOLEAN
  OBVIOUS
<1>4. [c EXCEPT !.moved = c.phase = "checking", !.dropped = TRUE] \in Card
  <2>1. ASSUME NEW m \in BOOLEAN PROVE [c EXCEPT !.moved = m, !.dropped = TRUE] \in Card
    BY DEF Card
  <2> QED
    BY <1>3, <2>1
<1>5. DropsBlock(c) \in Card
  BY <1>4, NoCardIsTyped, Zenon DEF DropsBlock
<1> QED
  BY <1>2, <1>5

LEMMA PageIsTyped ==
    ASSUME TypeOK, NEW t \in Tabs, Page(t)
    PROVE  /\ rec' \in Record /\ card' \in [Tabs -> Card]
           /\ wallet' \in [Tabs -> Wallet \cup {Disconnected}]
           /\ entry' \in [Id -> Entry] /\ slips' \in SUBSET {"lost", "paired", "unseen"}
           /\ UNCHANGED <<swap, expired, settings, buried>>
<1> DEFINE Typed == /\ rec' \in Record /\ card' \in [Tabs -> Card]
                    /\ wallet' \in [Tabs -> Wallet \cup {Disconnected}]
                    /\ entry' \in [Id -> Entry] /\ slips' \in SUBSET {"lost", "paired", "unseen"}
                    /\ UNCHANGED <<swap, expired, settings, buried>>
           Steady == UNCHANGED <<swap, chain, settings, rec, buried, slips>>
           c == card[t]
<1>0. /\ rec \in Record /\ c \in Card /\ card \in [Tabs -> Card]
      /\ wallet \in [Tabs -> Wallet \cup {Disconnected}] /\ wallet[t] \in Wallet \cup {Disconnected}
      /\ entry \in [Id -> Entry] /\ slips \in SUBSET {"lost", "paired", "unseen"}
      /\ selected \in Wallet
  BY DEF TypeOK
<1>1. ASSUME NEW d \in Card, SetCard(t, d) PROVE card' \in [Tabs -> Card]
  BY <1>0, <1>1 DEF SetCard
<1>2. ASSUME Steady, NEW d \in Card, SetCard(t, d),
             wallet' \in {wallet, [wallet EXCEPT ![t] = selected]}
      PROVE  Typed
  BY <1>0, <1>1, <1>2 DEF chain
<1>3. [c EXCEPT !.dropped = TRUE] \in Card /\ [c EXCEPT !.phase = "inWallet"] \in Card
  BY <1>0 DEF Card
<1>4. BackOnCard(c) \in Card /\ DropsBlock(c) \in Card /\ NoCard \in Card
  BY <1>0, NoCardIsTyped, CardChangesAreTyped
<1>5. CASE PageReadsWallet(t)
  BY <1>2, <1>4, <1>5 DEF PageReadsWallet
<1>6. CASE Reload(t)
  <2>1. (IF c.phase = "planned" THEN NoCard ELSE [c EXCEPT !.dropped = TRUE]) \in Card
    BY <1>3, <1>4
  <2> QED BY <1>2, <1>6, <2>1 DEF Reload
<1>7. ASSUME NEW a \in Action, Prepare(t, a) PROVE Typed
  <2>1. [NoCard EXCEPT !.phase = "preparing", !.action = a, !.asked = selected] \in Card
    BY <1>0, <1>4 DEF Card
  <2> QED BY <1>2, <1>7, <2>1 DEF Prepare
<1>8. CASE WalletBlock(t)
  <2> DEFINE d == [NoCard EXCEPT !.phase = "planned", !.action = c.action,
                                 !.signer = c.asked.account, !.id = rec.id]
  <2>1. c.asked.account \in Accounts /\ rec.id \in Id \cup {NoId}
    BY <1>0, <1>8 DEF WalletBlock, SyncOk, Card, Wallet, Disconnected, Record
  <2>2. d \in Card
    BY <1>0, <1>4, <2>1 DEF Card
  <2>3. SetCard(t, d) /\ UNCHANGED <<swap, chain, rec, settings, wallet, buried>>
    BY <1>8 DEF WalletBlock
  <2>4. slips' \in {slips, slips \cup {"paired"}}
    BY <1>8 DEF WalletBlock
  <2>5. slips' \in SUBSET {"lost", "paired", "unseen"}
    BY <1>0, <2>4
  <2> HIDE DEF d
  <2> QED BY <1>0, <1>1, <2>2, <2>3, <2>5 DEF chain
<1>9. CASE PlanRefused(t)
  BY <1>2, <1>4, <1>9 DEF PlanRefused
<1>10. CASE Sign(t)
  <2>1. [c EXCEPT !.phase = "checking", !.asked = wallet[t]] \in Card
    BY <1>0 DEF Card
  <2> QED BY <1>2, <1>10, <2>1 DEF Sign
<1>11. CASE Checked(t)
  <2>1. ASSUME NEW phase \in {"clearing", "inWallet"}
        PROVE  [c EXCEPT !.asked = Disconnected, !.phase = phase] \in Card
    BY <1>0 DEF Card
  <2>2. PICK phase \in {"clearing", "inWallet"} :
          SetCard(t, [c EXCEPT !.asked = Disconnected, !.phase = phase])
    BY <1>11 DEF Checked
  <2> QED BY <1>2, <1>11, <2>1, <2>2 DEF Checked
<1>12. CASE CheckRefuses(t)
  <2>1. (IF SameWallet(t) THEN BackOnCard(c) ELSE NoCard) \in Card
    BY <1>4
  <2> QED BY <1>2, <1>12, <2>1 DEF CheckRefuses
<1>13. ASSUME NEW b \in BOOLEAN, FundingChecked(t, b) PROVE Typed
  <2>1. (IF b THEN [c EXCEPT !.phase = "inWallet"] ELSE NoCard) \in Card
    BY <1>3, <1>4
  <2> QED BY <1>2, <1>13, <2>1 DEF FundingChecked
<1>14. Published(c) \in Card
  <2>1. selected.account \in Accounts /\ (~selected.here) \in BOOLEAN
    BY <1>0 DEF Wallet
  <2>2. ASSUME NEW strayed \in BOOLEAN
        PROVE  [c EXCEPT !.phase = "published", !.by = selected.account, !.strayed = strayed]
                 \in Card
    BY <1>0, <2>1 DEF Card
  <2> QED
    BY <2>1, <2>2 DEF Published
<1>15. ASSUME NEW h \in Id, PublishCreate(t, h) PROVE Typed
  <2>1. UNCHANGED <<swap, expired, rec, settings, wallet, buried, slips>>
    BY <1>15 DEF PublishCreate
  <2>2. [Published(c) EXCEPT !.made = h] \in Card
    BY <1>14 DEF Card
  <2>3. [by |-> selected.account, to |-> Peer, short |-> FALSE,
         state |-> IF selected.here THEN "sent" ELSE "elsewhere"] \in Entry
    BY <1>0 DEF Entry, Address, Wallet
  <2>4. entry' \in [Id -> Entry]
    BY <1>0, <1>15, <2>3 DEF PublishCreate
  <2>5. card' \in [Tabs -> Card]
    BY <1>1, <1>15, <2>2 DEF PublishCreate
  <2> QED
    BY <1>0, <2>1, <2>4, <2>5
<1>16. CASE PublishCall(t)
  <2>1. UNCHANGED <<swap, expired, rec, settings, wallet, buried, slips>>
    BY <1>16 DEF PublishCall
  <2>2. entry' \in [Id -> Entry]
    BY <1>0, <1>16 DEF PublishCall, Becomes, Entry
  <2>3. card' \in [Tabs -> Card]
    BY <1>1, <1>14, <1>16 DEF PublishCall
  <2> QED
    BY <1>0, <2>1, <2>2, <2>3
<1>17. CASE WalletDeclines(t)
  BY <1>2, <1>4, <1>17 DEF WalletDeclines
<1>18. ASSUME NEW a, WalletSent(t, a) PROVE Typed
  <2>1. UNCHANGED <<swap, chain, settings, wallet, buried>> /\ SetCard(t, NoCard)
    BY <1>18 DEF WalletSent
  <2>2. Loaded(rec) \in Record
    BY <1>0, LoadedIsTyped
  <2>3. slips' \in SUBSET {"lost", "paired", "unseen"}
    <3>1. slips' \in {slips, slips \cup {"unseen"}}
      BY <1>18 DEF WalletSent
    <3> QED BY <1>0, <3>1
  <2>4. rec' \in Record
    <3>1. ASSUME NEW s \in RecordedCreate(Loaded(rec), c.made, wallet[t].account), rec' = s
          PROVE  rec' \in Record
      <4>1. c.made \in Id \cup {NoId} /\ wallet[t].account \in Accounts \cup {NoAddr}
        BY <1>0 DEF Card, Wallet, Disconnected
      <4> QED BY <2>2, <3>1, <4>1, RecordedCreateIsTyped
    <3>2. \/ \E s \in RecordedCreate(Loaded(rec), c.made, wallet[t].account) : rec' = s
          \/ rec' = [Loaded(rec) EXCEPT !.unlockHash = TRUE]
          \/ rec' = Loaded(rec)
      BY <1>18 DEF WalletSent, Save
    <3>3. [Loaded(rec) EXCEPT !.unlockHash = TRUE] \in Record
      BY <2>2 DEF Record
    <3> QED BY <2>2, <3>1, <3>2, <3>3
  <2> QED
    BY <1>0, <1>1, <1>4, <2>1, <2>3, <2>4 DEF chain
<1>19. Loses(c) => slips' \in SUBSET {"lost", "paired", "unseen"}
  BY <1>0 DEF Loses
<1>20. ASSUME NEW a, MismatchSent(t, a) PROVE Typed
  <2>1. UNCHANGED <<swap, chain, settings, wallet, buried>> /\ SetCard(t, BackOnCard(c)) /\ Loses(c)
    BY <1>20 DEF MismatchSent
  <2>2. Loaded(rec) \in Record /\ rec' = [Loaded(rec) EXCEPT !.self = c.by]
    BY <1>0, <1>20, LoadedIsTyped DEF MismatchSent, Save
  <2>3. c.by \in Accounts \cup {NoAddr}
    BY <1>0 DEF Card
  <2>4. rec' \in Record
    BY <2>2, <2>3 DEF Record
  <2> QED
    BY <1>0, <1>1, <1>4, <1>19, <2>1, <2>4 DEF chain
<1>21. ASSUME NEW b \in BOOLEAN, AnswerLost(t, b) PROVE Typed
  <2>1. UNCHANGED <<swap, chain, settings, rec, wallet, buried>> /\ Loses(c)
    BY <1>21 DEF AnswerLost
  <2>2. (IF b THEN NoCard ELSE BackOnCard(c)) \in Card
    BY <1>4
  <2>3. card' \in [Tabs -> Card]
    BY <1>1, <1>21, <2>2 DEF AnswerLost
  <2> QED
    BY <1>0, <1>19, <2>1, <2>3 DEF chain
<1> QED
  BY <1>5, <1>6, <1>7, <1>8, <1>9, <1>10, <1>11, <1>12, <1>13, <1>15, <1>16, <1>17, <1>18,
     <1>20, <1>21 DEF Page

LEMMA NextTypeOK == TypeOK /\ [Next]_vars => TypeOK'
<1> SUFFICES ASSUME TypeOK, [Next]_vars PROVE TypeOK'
  OBVIOUS
<1>1. CASE Engine
  <2>1. rec' \in Record
    BY <1>1, EngineWritesRecords
  <2>2. UNCHANGED <<swap, chain, settings, wallet, card, buried, slips>>
    BY <1>1 DEF Engine, SetZenonTerms, VerifyZenon, FindZenonHtlc, HeartbeatVerifies,
                AuditContract, RefreshFindsPreimage, SetSecret
  <2> QED
    BY <2>1, <2>2 DEF TypeOK, swap, chain, settings
<1>2. ASSUME NEW t \in Tabs, Page(t) PROVE TypeOK'
  BY <1>2, PageIsTyped DEF TypeOK, swap, settings
<1>3. CASE WalletMoves
  <2>1. selected' \in Wallet /\ moves' = moves + 1 /\ moves < MaxMoves
    BY <1>3 DEF WalletMoves
  <2>2. moves' \in 0..MaxMoves
    BY <2>1, NamesAssumption DEF TypeOK
  <2>3. UNCHANGED <<swap, chain, rec, wallet, card, buried, slips>>
    BY <1>3 DEF WalletMoves
  <2> QED
    BY <2>1, <2>2, <2>3 DEF TypeOK, swap, chain
<1>4. ASSUME NEW h \in Id, Confirm(h) \/ PeerCreates(h) \/ PeerSettles(h) \/ Expires(h)
      PROVE  TypeOK'
  <2>1. UNCHANGED <<swap, settings, rec, wallet, card, slips>> /\ buried' \in BOOLEAN
    BY <1>4 DEF Confirm, PeerCreates, PeerSettles, Expires, TypeOK
  <2>2. \A to \in Accounts, short \in BOOLEAN : Live(Peer, to, short) \in Entry
    BY DEF Live, Entry, Address
  <2>3. \A state \in {"live", "unlocked", "reclaimed"} :
          Becomes(h, state) => entry' \in [Id -> Entry]
    BY DEF TypeOK, Becomes, Entry
  <2>4. entry' \in [Id -> Entry] /\ expired' \in SUBSET Id
    BY <1>4, <2>2, <2>3 DEF TypeOK, Confirm, PeerCreates, PeerSettles, Expires
  <2> QED
    BY <2>1, <2>4 DEF TypeOK, swap, settings
<1>5. CASE UNCHANGED vars
  BY <1>5 DEF TypeOK, vars, swap, chain, settings
<1>6. CASE Bury
  BY <1>6 DEF Bury, TypeOK, swap, chain, settings
<1> QED
  BY <1>1, <1>2, <1>3, <1>4, <1>5, <1>6 DEF Next, World

\* Every variable of the Zenon leg keeps its type, for any entries and accounts.
THEOREM ZenonLegTypeOK == Spec => []TypeOK
<1> QED
  BY InitTypeOK, NextTypeOK, PTL DEF Spec

----------------------------------------------------------------------------
(* What a step may do to the chain, to the record and to the card. *)


\* What an entry is it stays, for as long as it is known; an unlock is for good.
Stays == /\ UNCHANGED swap /\ expired \subseteq expired'
         /\ \A h \in Id : entry[h].state # "none" =>
               /\ entry'[h].state # "none" /\ entry'[h].to = entry[h].to
               /\ entry'[h].short = entry[h].short /\ entry'[h].by = entry[h].by
         /\ \A h \in Id : entry[h].state = "unlocked" => entry'[h].state = "unlocked"

\* The steps of a page that publish nothing, and those of the rest of the world.
LEMMA QuietPages ==
    ASSUME NEW t \in Tabs, Page(t), ~PublishCall(t), ~\E h \in Id : PublishCreate(t, h)
    PROVE  UNCHANGED <<swap, chain>>
BY DEF Page, PageReadsWallet, Reload, Prepare, WalletBlock, PlanRefused, Sign, Checked,
       CheckRefuses, FundingChecked, WalletDeclines, WalletSent, MismatchSent, AnswerLost

LEMMA EngineIsQuiet ==
    ASSUME Engine
    PROVE  UNCHANGED <<swap, chain, settings, wallet, card, buried, slips>>
BY DEF Engine, SetZenonTerms, VerifyZenon, FindZenonHtlc, HeartbeatVerifies, AuditContract,
       RefreshFindsPreimage, SetSecret

LEMMA WorldIsQuiet ==
    ASSUME World
    PROVE  UNCHANGED <<swap, rec, wallet, card, slips>>
BY DEF World, WalletMoves, Bury, Confirm, PeerCreates, PeerSettles, Expires

LEMMA EntriesStay == TypeOK /\ [Next]_vars => Stays
<1> SUFFICES ASSUME TypeOK, [Next]_vars PROVE Stays
  OBVIOUS
<1>1. CASE UNCHANGED <<swap, chain>>
  BY <1>1 DEF Stays, chain
<1>2. ASSUME NEW h \in Id,
             entry' = [entry EXCEPT ![h].state = "live"]
               \/ entry' = [entry EXCEPT ![h].state = "unlocked"]
               \/ entry' = [entry EXCEPT ![h].state = "reclaimed"],
             entry[h].state # "unlocked", UNCHANGED <<swap, expired>>
      PROVE  Stays
  BY <1>2 DEF Stays, TypeOK, Entry
<1>3. ASSUME NEW h \in Id, entry[h].state = "none", UNCHANGED <<swap, expired>>,
             NEW e, entry' = [entry EXCEPT ![h] = e]
      PROVE  Stays
  BY <1>3 DEF Stays, TypeOK
<1>4. CASE Engine
  BY <1>1, <1>4, EngineIsQuiet
<1>5. ASSUME NEW t \in Tabs, NEW h \in Id, PublishCreate(t, h) PROVE Stays
  BY <1>3, <1>5 DEF PublishCreate
<1>6. ASSUME NEW t \in Tabs, PublishCall(t) PROVE Stays
  <2> DEFINE h == card[t].id
  <2>1. UNCHANGED <<swap, expired>>
    BY <1>6 DEF PublishCall
  <2>2. CASE UNCHANGED entry
    BY <1>1, <2>1, <2>2 DEF chain
  <2>3. ASSUME Readable(h), Becomes(h, "unlocked") \/ Becomes(h, "reclaimed")
        PROVE  Stays
    <3>1. CASE h \in Id
      BY <1>2, <2>1, <2>3, <3>1 DEF Readable, Becomes
    <3>2. CASE h \notin Id
      <4>1. entry' = entry
        BY <2>3, <3>2 DEF Becomes, TypeOK
      <4> QED
        BY <2>2, <4>1
    <3> QED
      BY <3>1, <3>2
  <2> QED
    BY <1>6, <2>2, <2>3 DEF PublishCall, ContractUnlocks, ContractReclaims
<1>7. ASSUME NEW t \in Tabs, Page(t) PROVE Stays
  BY <1>1, <1>5, <1>6, <1>7, QuietPages
<1>8. ASSUME NEW h \in Id, Confirm(h) \/ PeerSettles(h) PROVE Stays
  BY <1>2, <1>8 DEF Confirm, PeerSettles, Becomes, Readable
<1>9. ASSUME NEW h \in Id, PeerCreates(h) PROVE Stays
  BY <1>3, <1>9 DEF PeerCreates
<1>10. ASSUME NEW h \in Id, Expires(h) PROVE Stays
  BY <1>10 DEF Expires, Stays
<1>11. CASE WalletMoves \/ Bury \/ UNCHANGED vars
  BY <1>1, <1>11 DEF WalletMoves, Bury, vars
<1> QED
  BY <1>4, <1>7, <1>8, <1>9, <1>10, <1>11 DEF Next, World

LEMMA SoundStays ==
    ASSUME Stays, NEW h \in Id, Sound(h)
    PROVE  Sound(h)'
BY DEF Stays, Sound, ZenonHtlcIsOurs, swap

LEMMA UnlockStays ==
    ASSUME Stays, PreimagePublic \/ expired # {}
    PROVE  (PreimagePublic \/ expired # {})'
BY DEF Stays, PreimagePublic

\* What went wrong is not forgotten.
LEMMA SlipsStay == ASSUME [Next]_vars PROVE slips \subseteq slips'
<1>1. ASSUME NEW t \in Tabs, Page(t) PROVE slips \subseteq slips'
  BY <1>1 DEF Page, PageReadsWallet, Reload, Prepare, WalletBlock, PlanRefused, Sign, Checked,
       CheckRefuses, FundingChecked, PublishCreate, PublishCall, WalletDeclines, WalletSent,
       MismatchSent, AnswerLost, Loses
<1> QED
  BY <1>1, EngineIsQuiet, WorldIsQuiet DEF Next, vars

LEMMA OrderlyWas == ASSUME [Next]_vars, Orderly' PROVE Orderly
BY SlipsStay DEF Orderly

LEMMA PassedIsSound ==
    ASSUME TypeOK, NEW r \in Record, NEW h \in Id, NEW b \in BOOLEAN,
           Readable(h), Verify(r, h, b) = "passed"
    PROVE  Sound(h) /\ (~ZenonHtlcIsOurs => entry[h].to = r.self)
<1>1. b = TRUE /\ ~MissingZenonTerms(r) /\ PartiesMatch(r, h) /\ ~(b /\ entry[h].short)
  BY DEF Verify
<1>2. ~entry[h].short
  BY <1>1
<1>3. r.self \in Accounts \cup {NoAddr}
  BY DEF Record
<1> QED
  BY <1>1, <1>2, <1>3 DEF Sound, PartiesMatch, MissingZenonTerms, Readable

\* What a call that writes r may have learned of unlocks.
Learns(r) == /\ r.unlockHash => rec.unlockHash
             /\ SecretArrivesOnZenon /\ r.secret => rec.secret \/ PreimagePublic
             /\ rec.id # NoId => r.id # NoId
             /\ rec.secret => r.secret

\* In order, the entry that an id of this side's can be is the one of the verdict:
\* there is one lot.
LEMMA OneLotOneVerdict ==
    ASSUME LotHolds, Whose, Orderly, NEW h \in Lots, NEW g \in Id, Sound(g)
    PROVE  ZenonHtlcIsOurs => g = h
<1>1. \E i \in Id : Lots = {i}
  BY DEF LotHolds
<1>2. ZenonHtlcIsOurs => g \in Lots
  BY DEF Whose, Sound, Lots
<1> QED BY <1>1, <1>2

LEMMA VerifyResultsJudge ==
    ASSUME TypeOK, LotHolds, Whose, NEW r \in Record, NEW h \in Id,
           NEW s \in VerifyResults(r, h), VerdictOf(r),
           r.unlockHash => rec.unlockHash, r.secret = rec.secret
    PROVE  VerdictOf(s) /\ Learns(s) /\ s.id = h
<1>1. ASSUME NEW b \in BOOLEAN, s = Judged(r, h, Verify(r, h, b)), Readable(h)
      PROVE  VerdictOf(s) /\ Learns(s) /\ s.id = h
  <2>1. s.id = h /\ s.read = h /\ s.unlockHash = r.unlockHash /\ s.secret = r.secret
    BY <1>1 DEF Judged, Record
  <2>2. s.verified = (Verify(r, h, b) = "passed")
    BY <1>1 DEF Judged, Record
  <2>3. VerdictOf(s)
    BY <1>1, <2>1, <2>2, PassedIsSound DEF VerdictOf
  <2>4. Learns(s)
    BY <2>1, NamesAssumption DEF Learns
  <2> QED
    BY <2>1, <2>3, <2>4
<1>2. ASSUME s = [Recovered(r) EXCEPT !.id = h], PreimageFound(r), Gone(h)
      PROVE  VerdictOf(s) /\ Learns(s) /\ s.id = h
  <2>1. /\ s.id = h /\ s.unlockHash = r.unlockHash /\ s.verified = r.verified /\ s.secret
        /\ s.read = r.read
    BY <1>2 DEF Recovered, Record
  <2>2. ZenonHtlcIsOurs /\ PreimagePublic
    BY <1>2 DEF PreimageFound, SecretArrivesOnZenon, ZenonHtlcIsOurs
  <2>3. h \in Lots
    BY <1>2, <2>2 DEF Gone, Whose, Lots
  <2>4. VerdictOf(s)
    BY <2>1, <2>2, <2>3, OneLotOneVerdict DEF VerdictOf
  <2> QED
    BY <2>1, <2>2, <2>4, NamesAssumption DEF Learns
<1> QED
  BY <1>1, <1>2 DEF VerifyResults

\* What a load of the record keeps of it.
LEMMA LoadedLearns ==
    ASSUME TypeOK, VerdictHolds
    PROVE  /\ Loaded(rec) \in Record /\ VerdictOf(Loaded(rec)) /\ Learns(Loaded(rec))
           /\ Loaded(rec).unlockHash = rec.unlockHash /\ Loaded(rec).secret = rec.secret
           /\ Loaded(rec).id = rec.id
BY LoadedIsTyped, LoadedKeeps DEF TypeOK, VerdictHolds, Learns

\* A change of the record that is none of the verdict's.
LEMMA VerdictKept ==
    ASSUME NEW r, NEW s, VerdictOf(r), s.verified => r.verified, s.read = r.read, s.id = r.id
    PROVE  VerdictOf(s)
BY DEF VerdictOf

LEMMA EngineLearns ==
    ASSUME ZenonInv, Engine
    PROVE  VerdictOf(rec') /\ Learns(rec')
<1> DEFINE r == Loaded(rec)
<1>0. /\ rec \in Record /\ r \in Record /\ VerdictOf(r) /\ Learns(r)
      /\ r.unlockHash = rec.unlockHash /\ r.secret = rec.secret /\ r.id = rec.id
      /\ TypeOK /\ LotHolds /\ Whose
  BY LoadedLearns DEF TypeOK, ZenonInv
<1> HIDE DEF r
<1>1. ASSUME NEW self \in Accounts \cup {NoAddr}, NEW terms \in BOOLEAN,
             SetZenonTerms(self, terms)
      PROVE  VerdictOf(rec') /\ Learns(rec')
  <2>1. rec' = Completed(r, self, terms)
    BY <1>1 DEF SetZenonTerms, Save, r
  <2>2. /\ rec'.id = r.id /\ rec'.unlockHash = r.unlockHash /\ rec'.secret = r.secret
        /\ rec'.read = r.read /\ (rec'.verified => r.verified)
    BY <1>0, <2>1 DEF Completed, Record
  <2> QED
    BY <1>0, <2>2, VerdictKept DEF Learns
<1>2. ASSUME NEW h \in Id, VerifyZenon(h) PROVE VerdictOf(rec') /\ Learns(rec')
  <2>1. rec' \in VerifyResults(r, h)
    BY <1>2 DEF VerifyZenon, Save, r
  <2> QED
    BY <1>0, <2>1, VerifyResultsJudge
<1>3. ASSUME NEW h \in Id, FindZenonHtlc(h) PROVE VerdictOf(rec') /\ Learns(rec')
  <2>1. Readable(h) /\ \E b \in BOOLEAN : rec' = Judged(r, h, Verify(r, h, b))
    BY <1>3 DEF FindZenonHtlc, Save, r
  <2>2. rec' \in VerifyResults(r, h)
    BY <2>1 DEF VerifyResults
  <2> QED
    BY <1>0, <2>2, VerifyResultsJudge
<1>4. ASSUME NEW b \in BOOLEAN, HeartbeatVerifies(b) PROVE VerdictOf(rec') /\ Learns(rec')
  <2>1. rec.id \in Id /\ ~rec.verified /\ Readable(rec.id)
    BY <1>0, <1>4 DEF HeartbeatVerifies, verifyDue, Record
  <2>2. rec' \in VerifyResults(rec, rec.id)
    BY <1>4, <2>1 DEF HeartbeatVerifies, Save, VerifyResults
  <2>3. VerdictOf(rec)
    BY <2>1 DEF VerdictOf
  <2> QED
    BY <1>0, <2>1, <2>2, <2>3, VerifyResultsJudge
<1>5. CASE RefreshFindsPreimage
  <2>1. rec' = Recovered(r) /\ PreimagePublic
    BY <1>5 DEF RefreshFindsPreimage, Save, PreimageFound, r
  <2>2. /\ rec'.id = r.id /\ rec'.unlockHash = r.unlockHash /\ rec'.verified = r.verified
        /\ rec'.read = r.read /\ rec'.secret
    BY <1>0, <2>1 DEF Recovered, Record
  <2> QED
    BY <1>0, <2>1, <2>2, VerdictKept DEF Learns
<1>6. CASE SetSecret
  <2>1. rec' = [r EXCEPT !.secret = TRUE] /\ leg = "send"
    BY <1>6 DEF SetSecret, Save, r
  <2>2. /\ rec'.id = r.id /\ rec'.unlockHash = r.unlockHash /\ rec'.verified = r.verified
        /\ rec'.read = r.read /\ rec'.secret
    BY <1>0, <2>1 DEF Record
  <2> QED
    BY <1>0, <2>1, <2>2, VerdictKept DEF Learns, SecretArrivesOnZenon
<1>7. CASE AuditContract
  <2>1. rec' = [r EXCEPT !.contract = TRUE]
    BY <1>7 DEF AuditContract, Save, r
  <2>2. /\ rec'.id = r.id /\ rec'.unlockHash = r.unlockHash /\ rec'.verified = r.verified
        /\ rec'.read = r.read /\ rec'.secret = r.secret
    BY <1>0, <2>1 DEF Record
  <2> QED
    BY <1>0, <2>1, <2>2, VerdictKept DEF Learns
<1> QED
  BY <1>1, <1>2, <1>3, <1>4, <1>5, <1>6, <1>7 DEF Engine

\* A report of a create puts its id on the record.
LEMMA CreateIsRecorded ==
    ASSUME ZenonInv, NEW h \in Lots, NEW from \in Accounts \cup {NoAddr}, ZenonHtlcIsOurs,
           NEW s \in RecordedCreate(Loaded(rec), h, from)
    PROVE  VerdictOf(s) /\ Learns(s) /\ s.id = h
<1> DEFINE r == Loaded(rec)
           noted == [r EXCEPT !.id = h, !.self = IF r.self = NoAddr THEN from ELSE r.self]
<1>0. /\ r \in Record /\ VerdictOf(r) /\ Learns(r) /\ h \in Id
      /\ r.unlockHash = rec.unlockHash /\ r.secret = rec.secret
      /\ TypeOK /\ LotHolds /\ Whose
  BY LoadedLearns DEF ZenonInv, Lots
<1> HIDE DEF r
<1>1. /\ noted \in Record /\ noted.id = h /\ noted.verified = r.verified
      /\ noted.unlockHash = r.unlockHash /\ noted.secret = r.secret /\ noted.read = r.read
  BY <1>0 DEF Record
<1>2. s \in {noted, [noted EXCEPT !.pending = TRUE]} \/ s \in VerifyResults(noted, h)
  BY DEF RecordedCreate, r
<1> HIDE DEF noted
<1>3. VerdictOf(noted)
  BY <1>0, <1>1, OneLotOneVerdict DEF VerdictOf
<1>4. CASE s \in {noted, [noted EXCEPT !.pending = TRUE]}
  <2>1. /\ s.id = h /\ s.verified = noted.verified /\ s.unlockHash = noted.unlockHash
        /\ s.secret = noted.secret /\ s.read = noted.read
    BY <1>1, <1>4 DEF Record
  <2> QED
    BY <1>0, <1>1, <1>3, <2>1, VerdictKept, NamesAssumption DEF Learns
<1>5. CASE s \in VerifyResults(noted, h)
  BY <1>0, <1>1, <1>3, <1>5, VerifyResultsJudge
<1> QED
  BY <1>2, <1>4, <1>5

\* A report of an unlock, of a block not known to depart from the proposal.
UnlockReported(t) ==
    /\ card[t].action = "unlock" /\ card[t].phase = "published"
    /\ Departs(card[t]) => "unseen" \in slips'

LEMMA ReportsLearn ==
    ASSUME ZenonInv, NEW t \in Tabs, NEW a, WalletSent(t, a) \/ MismatchSent(t, a)
    PROVE  /\ VerdictOf(rec')
           /\ Learns(rec') \/ (UnlockReported(t) /\ Learns([rec' EXCEPT !.unlockHash = FALSE]))
<1> DEFINE r == Loaded(rec)
           c == card[t]
<1>0. /\ r \in Record /\ VerdictOf(r) /\ Learns(r)
      /\ r.unlockHash = rec.unlockHash /\ r.secret = rec.secret /\ r.id = rec.id
      /\ c \in Card /\ wallet[t].account \in Accounts \cup {NoAddr}
  BY LoadedLearns DEF ZenonInv, TypeOK, Wallet, Disconnected
<1> HIDE DEF r
<1>1. CASE MismatchSent(t, a)
  <2>1. rec' = [r EXCEPT !.self = c.by]
    BY <1>1 DEF MismatchSent, Save, r
  <2>2. /\ rec'.id = r.id /\ rec'.verified = r.verified /\ rec'.unlockHash = r.unlockHash
        /\ rec'.secret = r.secret /\ rec'.read = r.read
    BY <1>0, <2>1 DEF Record
  <2> QED
    BY <1>0, <2>2, VerdictKept DEF Learns
<1>2. CASE WalletSent(t, a) /\ c.action = "create"
  <2>1. c.made \in Lots /\ ZenonHtlcIsOurs
    BY <1>2 DEF WalletSent, ZenonInv, CreateHolds, CreateOf, Creating, Built
  <2>2. rec' \in RecordedCreate(Loaded(rec), c.made, wallet[t].account)
    BY <1>2 DEF WalletSent, Save
  <2> QED
    BY <1>0, <2>1, <2>2, CreateIsRecorded
<1>3. CASE WalletSent(t, a) /\ c.action = "unlock"
  <2>1. rec' = [r EXCEPT !.unlockHash = TRUE] /\ c.phase = "published" /\ ~Mismatch(c, a)
    BY <1>3 DEF WalletSent, Save, r
  <2>2. /\ rec'.id = r.id /\ rec'.verified = r.verified /\ rec'.secret = r.secret
        /\ rec'.read = r.read /\ rec' \in Record
    BY <1>0, <2>1 DEF Record
  <2>3. Departs(c) => Unseen(c, a)
    <3>1. c.by \in Accounts
      BY <1>3, <2>1 DEF ZenonInv, CardHolds, UnlockOf, Built
    <3> QED
      BY <2>1, <3>1, NamesAssumption DEF Departs, Unseen, Mismatch
  <2>4. UnlockReported(t)
    BY <1>3, <2>1, <2>3 DEF WalletSent, UnlockReported
  <2>5. Learns([rec' EXCEPT !.unlockHash = FALSE])
    BY <1>0, <2>2 DEF Learns, Record
  <2> QED
    BY <1>0, <2>2, <2>4, <2>5, VerdictKept
<1>4. CASE WalletSent(t, a) /\ c.action = "reclaim"
  <2>1. rec' = r
    BY <1>4 DEF WalletSent, Save, r
  <2> QED
    BY <1>0, <2>1
<1> QED
  BY <1>1, <1>2, <1>3, <1>4 DEF WalletSent

\* What the record may become, in a step.
LEMMA StepsLearn ==
    ASSUME ZenonInv, [Next]_vars
    PROVE  \/ rec' = rec
           \/ VerdictOf(rec') /\ Learns(rec')
           \/ /\ VerdictOf(rec') /\ \E t \in Tabs : UnlockReported(t)
              /\ Learns([rec' EXCEPT !.unlockHash = FALSE])
<1>1. CASE Engine
  BY <1>1, EngineLearns
<1>2. ASSUME NEW t \in Tabs, NEW a, WalletSent(t, a) \/ MismatchSent(t, a)
      PROVE  \/ VerdictOf(rec') /\ Learns(rec')
             \/ /\ VerdictOf(rec') /\ UnlockReported(t)
                /\ Learns([rec' EXCEPT !.unlockHash = FALSE])
  BY <1>2, ReportsLearn
<1>3. ASSUME NEW t \in Tabs, Page(t)
      PROVE  rec' = rec \/ \E a \in Answers(card[t]) : WalletSent(t, a) \/ MismatchSent(t, a)
  BY <1>3 DEF Page, PageReadsWallet, Reload, Prepare, WalletBlock, PlanRefused, Sign, Checked,
       CheckRefuses, FundingChecked, PublishCreate, PublishCall, WalletDeclines, AnswerLost
<1>4. CASE World \/ UNCHANGED vars
  BY <1>4, WorldIsQuiet DEF vars
<1> QED
  BY <1>1, <1>2, <1>3, <1>4 DEF Next

\* The block on the card of t goes on, unpublished or reported again.
Carried(t) ==
    LET c == card[t]
        d == card'[t]
    IN /\ d.action = c.action /\ d.id = c.id /\ d.signer = c.signer
       /\ Built(c)
       /\ d.phase = "published" =>
            /\ c.phase = "published" /\ d.by = c.by /\ d.strayed = c.strayed
            /\ d.made = c.made

\* There is no block on the card of t.
Cleared(t) == card'[t].phase \in {"empty", "preparing"}

LEMMA CardSet ==
    ASSUME TypeOK, NEW t \in Tabs, NEW c, SetCard(t, c)
    PROVE  card'[t] = c /\ \A u \in Tabs \ {t} : card'[u] = card[u]
BY DEF TypeOK, SetCard

LEMMA CardSteps ==
    ASSUME TypeOK, [Next]_vars, NEW t \in Tabs
    PROVE  \/ Cleared(t) \/ Carried(t) \/ WalletBlock(t) \/ PublishCall(t)
           \/ \E h \in Id : PublishCreate(t, h)
<1> DEFINE c == card[t]
<1>0. c \in Card /\ NoCard.phase = "empty"
  BY DEF TypeOK, NoCard
<1>1. CASE card'[t] = c
  BY <1>0, <1>1 DEF Cleared, Carried, Built, Card
<1>2. CASE card'[t] = NoCard
  BY <1>0, <1>2 DEF Cleared
<1>3. CASE card'[t] = BackOnCard(c) /\ Built(c)
  BY <1>0, <1>3 DEF BackOnCard, Cleared, Carried, Card
<1>4. CASE PageReadsWallet(t)
  <2>1. card'[t] = DropsBlock(c)
    BY <1>4, CardSet DEF PageReadsWallet
  <2> QED
    BY <1>0, <1>1, <1>2, <2>1 DEF DropsBlock, Carried, Built, Card
<1>5. CASE Reload(t)
  <2>1. /\ card'[t] = IF c.phase = "planned" THEN NoCard ELSE [c EXCEPT !.dropped = TRUE]
        /\ Built(c)
    BY <1>5, CardSet DEF Reload
  <2> QED
    BY <1>0, <1>2, <2>1 DEF Carried, Built, Card
<1>6. ASSUME NEW a \in Action, Prepare(t, a) PROVE Cleared(t)
  <2>1. card'[t] = [NoCard EXCEPT !.phase = "preparing", !.action = a, !.asked = selected]
    BY <1>6, CardSet DEF Prepare
  <2>2. card'[t].phase = "preparing"
    BY <2>1, NoCardIsTyped DEF Card
  <2> QED
    BY <2>2 DEF Cleared
<1>7. CASE Sign(t) \/ Checked(t)
  <2>1. c.phase \in {"planned", "checking"}
    BY <1>7 DEF Sign, Checked
  <2>2. \/ card'[t] = [c EXCEPT !.phase = "checking", !.asked = wallet[t]]
        \/ card'[t] = [c EXCEPT !.asked = Disconnected, !.phase = "clearing"]
        \/ card'[t] = [c EXCEPT !.asked = Disconnected, !.phase = "inWallet"]
    BY <1>7, CardSet DEF Sign, Checked
  <2> QED
    BY <1>0, <2>1, <2>2 DEF Carried, Built, Card
<1>8. ASSUME NEW b \in BOOLEAN, FundingChecked(t, b) PROVE Cleared(t) \/ Carried(t)
  <2>1. c.phase = "clearing" /\ card'[t] \in {[c EXCEPT !.phase = "inWallet"], NoCard}
    BY <1>8, CardSet DEF FundingChecked
  <2> QED
    BY <1>0, <2>1 DEF Cleared, Carried, Built, Card
<1>9. CASE PlanRefused(t) \/ \E a \in Answers(c) : WalletSent(t, a)
  BY <1>2, <1>9, CardSet DEF PlanRefused, WalletSent
<1>10. CASE \/ CheckRefuses(t) \/ WalletDeclines(t) \/ (\E a \in Answers(c) : MismatchSent(t, a))
            \/ (\E b \in BOOLEAN : AnswerLost(t, b))
  <2>1. Built(c)
    BY <1>10 DEF CheckRefuses, WalletDeclines, MismatchSent, AnswerLost, Built
  <2>2. card'[t] \in {BackOnCard(c), NoCard}
    BY <1>10, CardSet DEF CheckRefuses, WalletDeclines, MismatchSent, AnswerLost
  <2> QED
    BY <1>2, <1>3, <2>1, <2>2
<1>11. CASE Engine \/ World \/ UNCHANGED vars
  BY <1>1, <1>11, EngineIsQuiet, WorldIsQuiet DEF vars
<1>12. ASSUME NEW u \in Tabs \ {t}, Page(u) PROVE card'[t] = c
  <2>1. (\E d : SetCard(u, d)) => card'[t] = c
    BY CardSet
  <2>2. \E d : SetCard(u, d)
    BY <1>12 DEF Page, PageReadsWallet, Reload, Prepare, WalletBlock, PlanRefused, Sign, Checked,
         CheckRefuses, FundingChecked, PublishCreate, PublishCall, WalletDeclines, WalletSent,
         MismatchSent, AnswerLost
  <2> QED BY <2>1, <2>2
<1>13. CASE Page(t)
  BY <1>4, <1>5, <1>6, <1>7, <1>8, <1>9, <1>10, <1>13 DEF Page
<1> QED
  BY <1>1, <1>11, <1>12, <1>13 DEF Next

\* A block as the engine builds it.
LEMMA BlockIsForTheRecord ==
    ASSUME TypeOK, NEW t \in Tabs, WalletBlock(t)
    PROVE  /\ card'[t].phase = "planned" /\ card'[t].action = card[t].action
           /\ card'[t].signer = card[t].asked.account /\ card'[t].id = rec.id
           /\ card[t].action \in Action
<1>1. card'[t] = [NoCard EXCEPT !.phase = "planned", !.action = card[t].action,
                                !.signer = card[t].asked.account, !.id = rec.id]
  BY CardSet DEF WalletBlock
<1>2. card[t].action \in Action
  BY DEF WalletBlock, Action
<1> QED
  BY <1>1, <1>2, NoCardIsTyped DEF Card

----------------------------------------------------------------------------
(* The invariant is inductive. *)

\* The records a swap starts with.
LEMMA InitRecords ==
    ASSUME Init
    PROVE  /\ rec.unlockHash = FALSE /\ rec.secret = (role = "initiator")
           /\ rec.verified => leg = "send" /\ rec.self = NoAddr
           /\ \A h \in Id : \/ entry[h].state = "none"
                            \/ entry[h].state = "live" /\ leg = "send"
           /\ \A h \in Id : entry[h].by \notin Accounts
<1> DEFINE New(self, terms) == [BlankRecord EXCEPT !.self = self, !.terms = terms,
                                                   !.secret = role = "initiator"]
<1>1. PICK self \in Accounts \cup {NoAddr}, terms \in BOOLEAN :
        \/ rec = New(self, terms) /\ entry = [h \in Id |-> NoEntry]
        \/ /\ leg = "send" /\ self = NoAddr
           /\ \E h \in Id, to \in Address :
                /\ rec = [New(self, terms) EXCEPT !.id = h, !.read = h, !.verified = TRUE]
                /\ entry = [i \in Id |-> IF i = h THEN Live(Peer, to, FALSE) ELSE NoEntry]
  BY Zenon DEF Init
<1> DEFINE new == New(self, terms)
<1>2. (role = "initiator") \in BOOLEAN
  OBVIOUS
<1>3. /\ new \in Record /\ new.unlockHash = FALSE /\ new.verified = FALSE
      /\ new.secret = (role = "initiator") /\ new.self = self
  BY <1>2, NamesAssumption DEF BlankRecord, Record
<1>4. NoEntry.state = "none" /\ NoEntry.by \notin Accounts
  BY NamesAssumption DEF NoEntry
<1>5. \A to : Live(Peer, to, FALSE).state = "live" /\ Live(Peer, to, FALSE).by \notin Accounts
  BY NamesAssumption DEF Live
<1>6. CASE rec = new /\ entry = [h \in Id |-> NoEntry]
  <2> HIDE DEF new
  <2> QED
    BY <1>3, <1>4, <1>6
<1>7. ASSUME leg = "send", self = NoAddr, NEW h \in Id, NEW to \in Address,
             rec = [new EXCEPT !.id = h, !.read = h, !.verified = TRUE],
             entry = [i \in Id |-> IF i = h THEN Live(Peer, to, FALSE) ELSE NoEntry]
      PROVE  /\ rec.unlockHash = FALSE /\ rec.secret = (role = "initiator")
             /\ rec.verified => leg = "send" /\ rec.self = NoAddr
             /\ \A i \in Id : entry[i].state \in {"none", "live"} /\ entry[i].by \notin Accounts
  <2> HIDE DEF new
  <2>1. /\ rec.unlockHash = FALSE /\ rec.secret = (role = "initiator") /\ rec.self = NoAddr
    BY <1>3, <1>7 DEF Record
  <2>2. \A i \in Id : entry[i].state \in {"none", "live"} /\ entry[i].by \notin Accounts
    BY <1>4, <1>5, <1>7
  <2> QED
    BY <1>7, <2>1, <2>2
<1> HIDE DEF New
<1> QED
  BY <1>1, <1>6, <1>7

LEMMA InitInv == Init => ZenonInv
<1> SUFFICES ASSUME Init PROVE ZenonInv
  OBVIOUS
<1>1. TypeOK
  BY InitTypeOK
<1>2. expired = {} /\ slips = {} /\ \A t \in Tabs : card[t] = NoCard /\ ~Built(card[t])
  BY DEF Init, Built, NoCard
<1>3. ~Loaded(rec).verified
  BY <1>1, InitRecords DEF Loaded, MissingZenonTerms, ZenonHtlcIsOurs, TypeOK, Record
<1>4. Lots = {}
  BY InitRecords DEF Lots
<1>5. Whose
  BY <1>2, InitRecords DEF Whose, ZenonHtlcIsOurs, Init
<1> QED
  BY <1>1, <1>2, <1>3, <1>4, <1>5, InitRecords
  DEF ZenonInv, EntriesHold, VerdictHolds, VerdictOf, CardHolds, UnlockOf, CreateHolds, CreateOf,
      Creating, UnlocksAreReal, LotHolds, SecretArrivesOnZenon

\* What publishing a create leaves.
LEMMA CreateLocks ==
    ASSUME ZenonInv, NEW t \in Tabs, NEW h \in Id, PublishCreate(t, h)
    PROVE  /\ entry[h].state = "none" /\ ZenonHtlcIsOurs
           /\ entry'[h].by \in Accounts /\ entry'[h].state \in {"sent", "elsewhere"}
           /\ \A i \in Id \ {h} : entry'[i] = entry[i]
           /\ card'[t].action = "create" /\ card'[t].phase = "published" /\ card'[t].made = h
           /\ UNCHANGED <<swap, expired, rec, slips>>
<1>1. /\ card[t].phase = "inWallet" /\ card[t].action = "create" /\ entry[h].state = "none"
      /\ UNCHANGED <<swap, expired, rec, slips>>
  BY DEF PublishCreate
<1>2. ZenonHtlcIsOurs
  BY <1>1 DEF ZenonInv, CreateHolds, CreateOf, Creating, Built
<1>3. selected.account \in Accounts /\ card[t] \in Card
  BY DEF ZenonInv, TypeOK, Wallet
<1> DEFINE e == [by |-> selected.account, to |-> Peer, short |-> FALSE,
                 state |-> IF selected.here THEN "sent" ELSE "elsewhere"]
<1>4. entry' = [entry EXCEPT ![h] = e]
  BY DEF PublishCreate
<1>5. e.by \in Accounts /\ e.state \in {"sent", "elsewhere"}
  BY <1>3
<1>6. card'[t] = [Published(card[t]) EXCEPT !.made = h]
  BY CardSet DEF PublishCreate, ZenonInv
<1>7. card'[t].action = "create" /\ card'[t].phase = "published" /\ card'[t].made = h
  BY <1>1, <1>3, <1>6 DEF Published, Card
<1> HIDE DEF e
<1> QED BY <1>1, <1>2, <1>4, <1>5, <1>7 DEF ZenonInv, TypeOK

\* What the counterparty makes is none of this user's lots.
LEMMA PeersEntry ==
    ASSUME TypeOK, NEW h \in Id, PeerCreates(h)
    PROVE  /\ ~ZenonHtlcIsOurs /\ entry'[h].by \notin Accounts
           /\ entry'[h].state \notin {"none", "sent", "elsewhere", "reclaimed"}
           /\ \A i \in Id \ {h} : entry'[i] = entry[i]
           /\ UNCHANGED expired
<1>1. \A to, short : Live(Peer, to, short).by \notin Accounts /\ Live(Peer, to, short).state = "live"
  BY NamesAssumption DEF Live
<1> QED BY <1>1 DEF PeerCreates, TypeOK

\* An entry h moves on to a state, and nothing else changes of the chain.
Goes(h, state) == Becomes(h, state) /\ UNCHANGED expired

LEMMA GoesChangesOne ==
    ASSUME TypeOK, NEW h \in Id, NEW state, Goes(h, state)
    PROVE  /\ entry'[h].state = state /\ expired' = expired
           /\ \A i \in Id : entry'[i].by = entry[i].by
           /\ \A i \in Id \ {h} : entry'[i] = entry[i]
           /\ Lots' = Lots
BY DEF Goes, Becomes, TypeOK, Entry, Lots

\* What a step does to the chain.
ChainMoves ==
    \/ \E h \in Id : entry[h].state = "sent" /\ Goes(h, "live")
    \/ \E h \in Id : Readable(h) /\ h \notin expired /\ Goes(h, "unlocked")
    \/ \E h \in Id : Readable(h) /\ h \in expired /\ Goes(h, "reclaimed")
    \/ \E h \in Id : PeerCreates(h) \/ Expires(h) \/ \E t \in Tabs : PublishCreate(t, h)

LEMMA ChainSteps ==
    ASSUME TypeOK, [Next]_vars
    PROVE  /\ UNCHANGED chain \/ (ChainMoves /\ UNCHANGED <<rec, slips>>)
           /\ UNCHANGED swap
<1>1. CASE Engine
  BY <1>1, EngineIsQuiet
<1>2. ASSUME NEW t \in Tabs, Page(t), ~PublishCall(t), ~\E h \in Id : PublishCreate(t, h)
      PROVE  UNCHANGED <<swap, chain>>
  BY <1>2, QuietPages
<1>3. ASSUME NEW t \in Tabs, NEW h \in Id, PublishCreate(t, h)
      PROVE  ChainMoves /\ UNCHANGED <<swap, rec, slips>>
  BY <1>3 DEF ChainMoves, PublishCreate
<1>4. ASSUME NEW t \in Tabs, PublishCall(t)
      PROVE  UNCHANGED swap /\ (UNCHANGED chain \/ (ChainMoves /\ UNCHANGED <<rec, slips>>))
  <2> DEFINE h == card[t].id
  <2>1. UNCHANGED <<swap, expired, rec, slips>>
    BY <1>4 DEF PublishCall
  <2>2. \/ UNCHANGED entry
        \/ Readable(h) /\ h \notin expired /\ Goes(h, "unlocked")
        \/ Readable(h) /\ h \in expired /\ Goes(h, "reclaimed")
    BY <1>4, <2>1 DEF PublishCall, ContractUnlocks, ContractReclaims, Goes
  <2>3. h \notin Id => ~Goes(h, "unlocked") \/ UNCHANGED entry
    BY DEF Goes, Becomes, TypeOK
  <2>4. h \notin Id => ~Goes(h, "reclaimed") \/ UNCHANGED entry
    BY DEF Goes, Becomes, TypeOK
  <2> QED BY <2>1, <2>2, <2>3, <2>4 DEF ChainMoves, chain
<1>5. ASSUME NEW h \in Id, Confirm(h) \/ PeerCreates(h) \/ PeerSettles(h) \/ Expires(h)
      PROVE  ChainMoves /\ UNCHANGED <<swap, rec, slips>>
  BY <1>5 DEF ChainMoves, Goes, Confirm, PeerCreates, PeerSettles, Expires
<1>6. CASE WalletMoves \/ Bury \/ UNCHANGED vars
  BY <1>6 DEF WalletMoves, Bury, vars
<1> QED BY <1>1, <1>2, <1>3, <1>4, <1>5, <1>6 DEF Next, World

LEMMA NextEntries == ASSUME ZenonInv, [Next]_vars PROVE EntriesHold' /\ Whose'
<1>0. TypeOK /\ EntriesHold /\ Whose /\ (ZenonHtlcIsOurs' <=> ZenonHtlcIsOurs)
  BY ChainSteps DEF ZenonInv, ZenonHtlcIsOurs, swap
<1>1. CASE UNCHANGED chain
  BY <1>0, <1>1 DEF Whose, EntriesHold, chain
<1>2. ASSUME NEW h \in Id, NEW state \in {"live", "unlocked", "reclaimed"}, Goes(h, state),
             entry[h].state # "none", state = "reclaimed" => h \in expired
      PROVE  EntriesHold' /\ Whose'
  BY <1>0, <1>2, GoesChangesOne DEF Whose, EntriesHold
<1>3. ASSUME NEW t \in Tabs, NEW h \in Id, PublishCreate(t, h) PROVE EntriesHold' /\ Whose'
  BY <1>0, <1>3, CreateLocks DEF Whose, EntriesHold
<1>4. ASSUME NEW h \in Id, PeerCreates(h) PROVE EntriesHold' /\ Whose'
  BY <1>0, <1>4, PeersEntry DEF Whose, EntriesHold
<1>5. ASSUME NEW h \in Id, Expires(h) PROVE EntriesHold' /\ Whose'
  BY <1>0, <1>5 DEF Whose, EntriesHold, Expires
<1> QED BY <1>0, <1>1, <1>2, <1>3, <1>4, <1>5, ChainSteps DEF ChainMoves, Readable

LEMMA NextVerdict == ASSUME ZenonInv, [Next]_vars PROVE VerdictHolds'
<1>1. Stays /\ rec' \in Record /\ rec \in Record
  BY EntriesStay, NextTypeOK DEF ZenonInv, TypeOK
<1>2. PICK r : r = rec'
  OBVIOUS
<1>3. Loaded(rec)' = Loaded(r)
  BY <1>1, <1>2 DEF Loaded, MissingZenonTerms, ZenonHtlcIsOurs, Stays, swap
<1>4. Loaded(r).verified => r.verified /\ r.read \in Id /\ Sound(r.read)' /\ (Orderly' => r.id = r.read)
  <2>1. CASE r = rec
    <3>1. Loaded(r).verified => /\ r.verified /\ r.read \in Id /\ Sound(r.read)
                                /\ (Orderly => r.id = r.read)
      BY <1>1, <2>1, LoadedKeeps DEF ZenonInv, VerdictHolds, VerdictOf, Loaded, Record
    <3> QED BY <1>1, <3>1, SoundStays, OrderlyWas
  <2>2. CASE VerdictOf(r)
    <3>1. Loaded(r).verified => r.verified
      BY <1>1, <1>2 DEF Loaded, Record
    <3>2. r.verified => r.read \in Id /\ Sound(r.read) /\ (Orderly => r.id = r.read)
      BY <2>2 DEF VerdictOf
    <3> QED BY <1>1, <3>1, <3>2, SoundStays, OrderlyWas
  <2> QED BY <1>2, <2>1, <2>2, StepsLearn
<1>5. Loaded(r).id = r.id /\ Loaded(r).read = r.read
  BY <1>1, <1>2, LoadedKeeps
<1> QED BY <1>3, <1>4, <1>5 DEF VerdictHolds, VerdictOf

LEMMA NextUnlocksAreReal == ASSUME ZenonInv, [Next]_vars PROVE UnlocksAreReal'
<1>1. Stays /\ rec' \in Record
  BY EntriesStay, NextTypeOK DEF ZenonInv, TypeOK
<1>2. SecretArrivesOnZenon' => SecretArrivesOnZenon
  BY <1>1 DEF SecretArrivesOnZenon, Stays, swap
<1>3. PreimagePublic => PreimagePublic'
  BY <1>1 DEF Stays, PreimagePublic
<1>4. "unseen" \notin slips' => "unseen" \notin slips
  BY SlipsStay
<1>5. CASE rec' = rec \/ Learns(rec')
  BY <1>1, <1>2, <1>3, <1>4, <1>5, UnlockStays DEF ZenonInv, UnlocksAreReal, Learns
<1>6. ASSUME NEW t \in Tabs, UnlockReported(t), Learns([rec' EXCEPT !.unlockHash = FALSE])
      PROVE  UnlocksAreReal'
  <2>1. SecretArrivesOnZenon /\ rec'.secret => PreimagePublic
    BY <1>1, <1>6 DEF ZenonInv, UnlocksAreReal, Learns, Record
  <2>2. "unseen" \notin slips' => PreimagePublic \/ expired # {}
    BY <1>6 DEF ZenonInv, UnlockReported, CardHolds, UnlockOf, Built
  <2> QED
    BY <1>1, <1>2, <1>3, <2>1, <2>2, UnlockStays DEF UnlocksAreReal
<1> QED
  BY <1>5, <1>6, StepsLearn

\* An unlock that goes on, published or not, stays for what it was for.
LEMMA UnlockGoesOn ==
    ASSUME Stays, NEW c, NEW d, UnlockOf(c), d.action = c.action, d.id = c.id,
           d.signer = c.signer, Built(c),
           d.phase = "published" =>
               d.by \in Accounts /\ (~Departs(d) => (PreimagePublic \/ expired # {})')
    PROVE  UnlockOf(d)'
<1> SUFFICES ASSUME d.action = "unlock"
             PROVE  /\ d.id \in Id /\ Sound(d.id)' /\ ~ZenonHtlcIsOurs'
                    /\ entry'[d.id].to = d.signer \/ entry'[d.id].to \notin denied'
                    /\ d.phase = "published" =>
                         d.by \in Accounts /\ (~Departs(d) => (PreimagePublic \/ expired # {})')
  BY DEF UnlockOf, Departs
<1>1. /\ c.id \in Id /\ Sound(c.id) /\ ~ZenonHtlcIsOurs
      /\ entry[c.id].to = c.signer \/ entry[c.id].to \notin denied
  BY DEF UnlockOf
<1>2. Sound(c.id)' /\ ~ZenonHtlcIsOurs' /\ denied' = denied /\ entry'[c.id].to = entry[c.id].to
  BY <1>1, SoundStays DEF Stays, ZenonHtlcIsOurs, swap, Sound
<1> QED BY <1>1, <1>2

\* An unlock is built for an entry that passed just now, with a signer the
\* contract lets unlock it.
LEMMA UnlockIsBuiltRight ==
    ASSUME ZenonInv, [Next]_vars, NEW t \in Tabs, WalletBlock(t), card[t].action = "unlock",
           NEW d, d = card'[t]
    PROVE  UnlockOf(d)'
<1> DEFINE r == Loaded(rec)
<1>0. TypeOK /\ r \in Record /\ r.id = rec.id /\ r.self = rec.self
  BY LoadedIsTyped, LoadedKeeps DEF ZenonInv, TypeOK
<1> HIDE DEF r
<1>1. UNCHANGED <<swap, chain>>
  BY DEF WalletBlock
<1>2. d.phase = "planned" /\ d.signer = card[t].asked.account /\ d.id = rec.id
  BY <1>0, BlockIsForTheRecord
<1>3. planUnlock(r) /\ SyncOk("unlock", card[t].asked)
  BY DEF WalletBlock, r
<1>4. r.id \in Id /\ ~ZenonHtlcIsOurs
  BY <1>0, <1>3 DEF planUnlock, Record
<1>5. Sound(r.id) /\ entry[r.id].to = r.self
  BY <1>0, <1>3, <1>4, PassedIsSound DEF planUnlock
<1>6. r.self # NoAddr
  BY <1>3, <1>4 DEF planUnlock, MissingZenonTerms
<1>7. r.self = card[t].asked.account \/ r.self \notin denied
  BY <1>0, <1>3, <1>6 DEF SyncOk
<1> QED
  BY <1>0, <1>1, <1>2, <1>4, <1>5, <1>7
  DEF UnlockOf, Sound, ZenonHtlcIsOurs, swap, chain

\* Published by the account and on the chain it was built for, it unlocks,
\* unless the entry is gone or has run out.
LEMMA UnlockIsPublished ==
    ASSUME ZenonInv, [Next]_vars, NEW t \in Tabs, PublishCall(t), NEW d, d = card'[t]
    PROVE  UnlockOf(d)'
<1> DEFINE c == card[t]
<1>0. TypeOK /\ Stays /\ UnlockOf(c) /\ EntriesHold /\ c \in Card
      /\ selected.account \in Accounts
  BY EntriesStay DEF ZenonInv, CardHolds, TypeOK, Wallet
<1>1. d = Published(c) /\ c.phase = "inWallet"
  BY <1>0, CardSet DEF PublishCall
<1>2. /\ d.action = c.action /\ d.id = c.id /\ d.signer = c.signer
      /\ d.phase = "published" /\ d.by = selected.account /\ d.strayed = ~selected.here
  BY <1>0, <1>1 DEF Published, Card
<1>3. ASSUME c.action = "unlock", ~Departs(d) PROVE (PreimagePublic \/ expired # {})'
  <2>0. c.id \in Id /\ Sound(c.id)
    BY <1>0, <1>1, <1>3 DEF UnlockOf, Built
  <2>1. selected.here /\ selected.account = c.signer
        /\ (entry[c.id].to = c.signer \/ entry[c.id].to \notin denied)
    BY <1>0, <1>1, <1>2, <1>3 DEF Departs, UnlockOf, Built
  <2>2. CASE ContractUnlocks(c.id, selected.account)
    <3>1. Becomes(c.id, "unlocked")
      BY <1>3, <2>1, <2>2 DEF PublishCall
    <3>2. entry'[c.id].state = "unlocked"
      BY <1>0, <2>0, <3>1 DEF Becomes, TypeOK, Entry
    <3> QED
      BY <2>0, <3>2 DEF PreimagePublic
  <2>3. CASE ~ContractUnlocks(c.id, selected.account)
    <3>1. ~Readable(c.id) \/ c.id \in expired
      BY <2>1, <2>3 DEF ContractUnlocks
    <3>2. entry[c.id].state \in {"live", "unlocked", "reclaimed"}
      BY <1>0, <1>1, <1>3, <2>0 DEF EntriesHold, Sound, TypeOK, Entry, UnlockOf, Built
    <3>3. PreimagePublic \/ expired # {}
      BY <1>0, <2>0, <3>1, <3>2 DEF Readable, PreimagePublic, EntriesHold
    <3> QED
      BY <1>0, <3>3, UnlockStays
  <2> QED
    BY <2>2, <2>3
<1>4. CASE c.action # "unlock"
  BY <1>2, <1>4 DEF UnlockOf
<1>5. CASE c.action = "unlock"
  <2>1. Built(c)
    BY <1>1 DEF Built
  <2> HIDE DEF c
  <2> QED
    BY <1>0, <1>2, <1>3, <1>5, <2>1, UnlockGoesOn
<1> QED
  BY <1>4, <1>5

LEMMA NextCard == ASSUME ZenonInv, [Next]_vars PROVE CardHolds'
<1> SUFFICES ASSUME NEW t \in Tabs, NEW d, d = card'[t] PROVE UnlockOf(d)'
  BY DEF CardHolds
<1>0. TypeOK /\ Stays /\ UnlockOf(card[t])
  BY EntriesStay DEF ZenonInv, CardHolds
<1>1. CASE Cleared(t)
  BY <1>1 DEF Cleared, UnlockOf, Built
<1>2. CASE Carried(t)
  <2> PICK c : c = card[t]
    OBVIOUS
  <2>1. /\ d.action = c.action /\ d.id = c.id /\ d.signer = c.signer /\ Built(c) /\ UnlockOf(c)
        /\ d.phase = "published" => c.phase = "published" /\ d.by = c.by /\ d.strayed = c.strayed
    BY <1>0, <1>2 DEF Carried
  <2>2. CASE d.action # "unlock"
    BY <2>2 DEF UnlockOf
  <2>3. CASE d.action = "unlock"
    <3>1. d.phase = "published" =>
            d.by \in Accounts /\ (~Departs(d) => PreimagePublic \/ expired # {})
      BY <2>1, <2>3 DEF UnlockOf, Departs
    <3>2. d.phase = "published" =>
            d.by \in Accounts /\ (~Departs(d) => (PreimagePublic \/ expired # {})')
      BY <1>0, <3>1, UnlockStays
    <3> QED
      BY <1>0, <2>1, <3>2, UnlockGoesOn
  <2> QED
    BY <2>2, <2>3
<1>3. CASE WalletBlock(t)
  <2>1. d.action = card[t].action
    BY <1>0, <1>3, BlockIsForTheRecord
  <2>2. CASE card[t].action # "unlock"
    BY <2>1, <2>2 DEF UnlockOf
  <2> QED
    BY <1>3, <2>2, UnlockIsBuiltRight
<1>4. CASE PublishCall(t)
  BY <1>4, UnlockIsPublished
<1>5. ASSUME NEW h \in Id, PublishCreate(t, h) PROVE UnlockOf(d)'
  BY <1>5, CreateLocks DEF UnlockOf
<1> QED
  BY <1>0, <1>1, <1>2, <1>3, <1>4, <1>5, CardSteps

\* What a step does to the lots: only a create of this user's adds one.
LEMMA LotsGrowByCreates ==
    ASSUME ZenonInv, [Next]_vars
    PROVE  /\ \/ Lots' \subseteq Lots
              \/ \E t \in Tabs, h \in Id : PublishCreate(t, h) /\ Lots' \subseteq Lots \cup {h}
           /\ Lots \subseteq Lots'
<1>0. TypeOK /\ Whose
  BY DEF ZenonInv
<1>1. CASE UNCHANGED chain
  BY <1>1 DEF Lots, chain
<1>2. ASSUME NEW h \in Id, NEW state, Goes(h, state) PROVE Lots' = Lots
  BY <1>0, <1>2, GoesChangesOne
<1>3. ASSUME NEW t \in Tabs, NEW h \in Id, PublishCreate(t, h)
      PROVE  Lots' \subseteq Lots \cup {h} /\ Lots \subseteq Lots'
  BY <1>3, CreateLocks DEF Lots
<1>4. ASSUME NEW h \in Id, PeerCreates(h) PROVE Lots' = Lots
  <2>1. entry[h].by \notin Accounts
    BY <1>0, <1>4 DEF PeerCreates, Whose
  <2> QED BY <1>0, <1>4, <2>1, PeersEntry DEF Lots
<1>5. ASSUME NEW h \in Id, Expires(h) PROVE Lots' = Lots
  BY <1>5 DEF Expires, Lots
<1> QED
  BY <1>0, <1>1, <1>2, <1>3, <1>4, <1>5, ChainSteps DEF ChainMoves

LEMMA CallIsNoCreate ==
    ASSUME TypeOK, NEW t \in Tabs, PublishCall(t) PROVE card'[t].action # "create"
<1>1. PICK c \in Card : c = card[t]
  BY DEF TypeOK
<1>2. c.action \in {"unlock", "reclaim"} /\ card'[t] = Published(c)
  BY <1>1, CardSet DEF PublishCall
<1>3. Published(c).action = c.action
  BY DEF Published, Card
<1> QED BY <1>2, <1>3

LEMMA NextCreate == ASSUME ZenonInv, [Next]_vars PROVE CreateHolds'
<1> SUFFICES ASSUME NEW t \in Tabs, NEW d, d = card'[t], Creating(d)
             PROVE  ZenonHtlcIsOurs' /\ (d.phase = "published" => d.made \in Lots')
  BY DEF CreateHolds, CreateOf, Creating, Built
<1>0. TypeOK /\ CreateOf(card[t]) /\ Lots \subseteq Lots'
      /\ (ZenonHtlcIsOurs => ZenonHtlcIsOurs')
  BY ChainSteps, LotsGrowByCreates DEF ZenonInv, CreateHolds, ZenonHtlcIsOurs, swap
<1>1. ~Cleared(t)
  BY DEF Cleared, Creating, Built
<1>2. CASE Carried(t)
  BY <1>0, <1>2 DEF Carried, CreateOf, Creating
<1>3. CASE WalletBlock(t)
  <2>1. d.phase = "planned" /\ card[t].action = "create"
    BY <1>0, <1>3, BlockIsForTheRecord DEF Creating
  <2>2. ZenonHtlcIsOurs
    BY <1>3, <2>1 DEF WalletBlock, planCreate
  <2> QED
    BY <1>0, <2>1, <2>2
<1>4. ~PublishCall(t)
  BY <1>0, CallIsNoCreate DEF Creating
<1>5. ASSUME NEW h \in Id, PublishCreate(t, h)
      PROVE  ZenonHtlcIsOurs' /\ d.made \in Lots'
  BY <1>0, <1>5, CreateLocks DEF Lots
<1> QED
  BY <1>0, <1>1, <1>2, <1>3, <1>4, <1>5, CardSteps

\* A create comes onto a card only by the engine's plan, and then no other card
\* changes.
LEMMA CreatesBegin ==
    ASSUME TypeOK, [Next]_vars
    PROVE  \/ \A u \in Tabs : Creating(card'[u]) => Creating(card[u])
           \/ \E t \in Tabs : /\ WalletBlock(t) /\ card[t].action = "create"
                              /\ \A u \in Tabs \ {t} : card'[u] = card[u]
<1> SUFFICES ASSUME NEW u \in Tabs, Creating(card'[u]), ~Creating(card[u])
             PROVE  /\ WalletBlock(u) /\ card[u].action = "create"
                    /\ \A v \in Tabs \ {u} : card'[v] = card[v]
  OBVIOUS
<1>1. ~Cleared(u) /\ ~Carried(u)
  BY DEF Cleared, Carried, Creating, Built
<1>2. ~PublishCall(u)
  BY CallIsNoCreate DEF Creating
<1>3. ~\E h \in Id : PublishCreate(u, h)
  BY DEF PublishCreate, Creating, Built
<1>4. WalletBlock(u)
  BY <1>1, <1>2, <1>3, CardSteps
<1>5. card[u].action = "create"
  BY <1>4, BlockIsForTheRecord DEF Creating
<1> QED
  BY <1>4, <1>5, CardSet DEF WalletBlock

\* A create that was published stays so until its id is recorded or lost.
LEMMA PublishedCreateIsRecorded ==
    ASSUME ZenonInv, [Next]_vars, Orderly', NEW t \in Tabs, card[t].action = "create",
           card[t].phase = "published"
    PROVE  \/ card'[t].action = "create" /\ card'[t].phase = "published"
           \/ /\ rec'.id # NoId /\ card'[t] = NoCard
              /\ \A u \in Tabs \ {t} : card'[u] = card[u]
<1> DEFINE c == card[t]
<1>0. TypeOK /\ c \in Card /\ c.made \in Lots /\ wallet[t].account \in Accounts \cup {NoAddr}
      /\ ZenonHtlcIsOurs
  BY DEF ZenonInv, TypeOK, CreateHolds, CreateOf, Creating, Built, Wallet, Disconnected
<1>1. CASE card'[t] = c
  BY <1>1
<1>2. CASE PageReadsWallet(t) \/ Reload(t)
  <2>1. \/ card'[t] = [c EXCEPT !.moved = c.phase = "checking", !.dropped = TRUE]
        \/ card'[t] = [c EXCEPT !.dropped = TRUE]
    BY <1>0, <1>2, CardSet DEF PageReadsWallet, Reload, DropsBlock
  <2> QED
    BY <1>0, <2>1 DEF Card
<1>3. ASSUME NEW a, WalletSent(t, a)
      PROVE  rec'.id # NoId /\ card'[t] = NoCard /\ \A u \in Tabs \ {t} : card'[u] = card[u]
  <2>1. rec' \in RecordedCreate(Loaded(rec), c.made, wallet[t].account)
    BY <1>3 DEF WalletSent, Save
  <2>2. rec'.id = c.made
    BY <1>0, <2>1, CreateIsRecorded
  <2>3. card'[t] = NoCard /\ \A u \in Tabs \ {t} : card'[u] = card[u]
    BY <1>0, <1>3, CardSet DEF WalletSent
  <2> QED
    BY <1>0, <2>2, <2>3, NamesAssumption DEF Lots
<1>4. ~((\E a : MismatchSent(t, a)) \/ (\E b \in BOOLEAN : AnswerLost(t, b)))
  BY DEF MismatchSent, AnswerLost, Loses, Orderly
<1>5. CASE Engine \/ World \/ UNCHANGED vars
  BY <1>1, <1>5, EngineIsQuiet, WorldIsQuiet DEF vars
<1>6. ASSUME NEW u \in Tabs \ {t}, Page(u) PROVE card'[t] = c
  <2>1. (\E d : SetCard(u, d)) => card'[t] = c
    BY <1>0, CardSet
  <2>2. \E d : SetCard(u, d)
    BY <1>6 DEF Page, PageReadsWallet, Reload, Prepare, WalletBlock, PlanRefused, Sign, Checked,
         CheckRefuses, FundingChecked, PublishCreate, PublishCall, WalletDeclines, WalletSent,
         MismatchSent, AnswerLost
  <2> QED BY <2>1, <2>2
<1>7. CASE Page(t)
  <2>1. ~(\/ WalletBlock(t) \/ PlanRefused(t) \/ Sign(t) \/ Checked(t) \/ CheckRefuses(t)
          \/ PublishCall(t) \/ WalletDeclines(t) \/ (\E a \in Action : Prepare(t, a))
          \/ (\E h \in Id : PublishCreate(t, h)) \/ (\E b \in BOOLEAN : FundingChecked(t, b)))
    BY DEF WalletBlock, PlanRefused, Sign, Checked, CheckRefuses, PublishCall, WalletDeclines,
           Prepare, PublishCreate, FundingChecked
  <2> QED
    BY <1>2, <1>3, <1>4, <1>7, <2>1 DEF Page
<1> QED
  BY <1>1, <1>5, <1>6, <1>7 DEF Next

\* In order, no two cards have a create.
LEMMA NextOneCreate ==
    ASSUME ZenonInv, [Next]_vars, Orderly', NEW t \in Tabs, NEW u \in Tabs,
           Creating(card'[t]), Creating(card'[u])
    PROVE  t = u
<1>0. TypeOK /\ \A v, w \in Tabs : Creating(card[v]) /\ Creating(card[w]) => v = w
  BY OrderlyWas DEF ZenonInv, LotHolds
<1>1. CASE \A v \in Tabs : Creating(card'[v]) => Creating(card[v])
  BY <1>0, <1>1
<1>2. ASSUME NEW v \in Tabs, WalletBlock(v), card[v].action = "create",
             \A w \in Tabs \ {v} : card'[w] = card[w]
      PROVE  t = u
  <2>1. \A w \in Tabs \ {v} : ~Creating(card[w])
    BY <1>2 DEF WalletBlock, Orderly
  <2> QED
    BY <1>2, <2>1
<1> QED
  BY <1>0, <1>1, <1>2, CreatesBegin

LEMMA NextLot == ASSUME ZenonInv, [Next]_vars PROVE LotHolds'
<1> SUFFICES ASSUME Orderly', Lots' # {}
             PROVE  /\ \E h \in Id : Lots' = {h}
                    /\ \/ \E t \in Tabs : Creating(card'[t]) /\ card'[t].phase = "published"
                       \/ rec'.id # NoId /\ \A t \in Tabs : ~Creating(card'[t])
  BY NextOneCreate DEF LotHolds, Creating, Built
<1>0. TypeOK /\ Orderly /\ LotHolds
  BY OrderlyWas DEF ZenonInv
<1>1. ASSUME NEW t \in Tabs, NEW h \in Id, PublishCreate(t, h), Lots' \subseteq Lots \cup {h}
      PROVE  Lots' = {h} /\ Creating(card'[t]) /\ card'[t].phase = "published"
  <2>1. Creating(card[t]) /\ card[t].phase = "inWallet"
    BY <1>1 DEF PublishCreate, Creating, Built
  <2>2. Lots = {}
    BY <1>0, <2>1 DEF LotHolds
  <2>3. Creating(card'[t]) /\ card'[t].phase = "published"
    BY <1>1, CreateLocks DEF Creating, Built
  <2> QED
    BY <1>1, <2>2, <2>3
<1>2. CASE Lots' \subseteq Lots
  <2>1. Lots # {} /\ \E h \in Id : Lots' = {h}
    BY <1>0, <1>2 DEF LotHolds
  <2>2. ASSUME NEW t \in Tabs, Creating(card[t]), card[t].phase = "published"
        PROVE  \/ Creating(card'[t]) /\ card'[t].phase = "published"
               \/ rec'.id # NoId /\ \A u \in Tabs : ~Creating(card'[u])
    <3>1. \A u \in Tabs \ {t} : ~Creating(card[u])
      BY <1>0, <2>2 DEF LotHolds
    <3>2. ~Creating(NoCard)
      BY DEF NoCard, Creating, Built
    <3>3. card[t].action = "create"
      BY <2>2 DEF Creating
    <3> QED
      BY <2>2, <3>1, <3>2, <3>3, PublishedCreateIsRecorded DEF Creating, Built
  <2>3. ASSUME rec.id # NoId, \A t \in Tabs : ~Creating(card[t])
        PROVE  rec'.id # NoId /\ \A t \in Tabs : ~Creating(card'[t])
    <3>1. rec'.id # NoId
      <4>1. rec' \in Record
        BY NextTypeOK DEF ZenonInv, TypeOK
      <4> QED
        BY <2>3, <4>1, StepsLearn DEF Learns, Record
    <3>2. ~\E t \in Tabs : WalletBlock(t) /\ card[t].action = "create"
      BY <1>0, <2>3, LoadedLearns DEF WalletBlock, planCreate, ZenonInv
    <3> QED
      BY <1>0, <2>3, <3>1, <3>2, CreatesBegin
  <2> QED
    BY <1>0, <2>1, <2>2, <2>3 DEF LotHolds
<1> QED
  BY <1>1, <1>2, LotsGrowByCreates

LEMMA ZenonInvariant == Spec => []ZenonInv
<1>1. ZenonInv /\ [Next]_vars => ZenonInv'
  BY NextTypeOK, NextEntries, NextVerdict, NextCard, NextCreate, NextUnlocksAreReal, NextLot
  DEF ZenonInv
<1> QED
  BY <1>1, InitInv, PTL DEF Spec

----------------------------------------------------------------------------
(* The theorems. *)

\* Whatever the wallets and the counterparty do, a record is read as verified
\* only where the entry last read is all that was agreed, by the terms of the
\* record as they stand; and as long as every published create was recorded and
\* no two tabs had one in hand, that entry is the one the record names.
THEOREM VerdictsCoverTheTerms == Spec => []VerdictCoversTheTerms
<1>1. ASSUME ZenonInv, Loaded(rec).verified
      PROVE  /\ AsAgreed(Loaded(rec), Loaded(rec).read)
             /\ Orderly => Loaded(rec).id = Loaded(rec).read
  <2>1. /\ Loaded(rec).read \in Id /\ Sound(Loaded(rec).read)
        /\ Orderly => Loaded(rec).id = Loaded(rec).read
    BY <1>1 DEF ZenonInv, VerdictHolds, VerdictOf
  <2>2. ~MissingZenonTerms(Loaded(rec))
    BY <1>1 DEF ZenonInv, TypeOK, Loaded, Record
  <2> QED
    BY <2>1, <2>2 DEF AsAgreed, Sound
<1>2. ZenonInv => VerdictCoversTheTerms
  BY <1>1 DEF VerdictCoversTheTerms
<1> QED
  BY <1>2, ZenonInvariant, PTL

\* No block that publishes the preimage is, on any tab's card, for an entry that
\* holds less than was agreed or pays anyone else, however often the account was
\* switched.
THEOREM UnlocksAreAsAgreed == Spec => []UnlocksWhatWasAgreed
<1>1. ASSUME ZenonInv, NEW t \in Tabs, card[t].action = "unlock", Built(card[t])
      PROVE  /\ entry[card[t].id].state # "none" /\ ~entry[card[t].id].short
             /\ entry[card[t].id].to \in Accounts
  <2>1. Sound(card[t].id) /\ ~ZenonHtlcIsOurs
    BY <1>1 DEF ZenonInv, CardHolds, UnlockOf
  <2> QED
    BY <2>1 DEF Sound
<1>2. ZenonInv => UnlocksWhatWasAgreed
  BY <1>1 DEF UnlocksWhatWasAgreed
<1> QED
  BY <1>2, ZenonInvariant, PTL

\* As long as the id of every published create reached the record, and no two
\* tabs had one in hand at once, this user has locked one lot of ZNN at most.
THEOREM OneLotIsLocked == Spec => []OneLot
<1>1. ASSUME ZenonInv, Orderly PROVE Cardinality(Lots) <= 1
  <2>1. Lots = {} \/ \E h \in Id : Lots = {h}
    BY <1>1 DEF ZenonInv, LotHolds
  <2>2. Cardinality(Lots) = 0 \/ Cardinality(Lots) = 1
    BY <2>1, FS_EmptySet, FS_Singleton
  <2> QED
    BY <2>2
<1>2. ZenonInv => OneLot
  BY <1>1 DEF OneLot, Lots
<1> QED
  BY <1>2, ZenonInvariant, PTL

\* The record holds the secret of the counterparty's unlock only when there was
\* one; it holds this user's only when there was one, an entry ran out first, or
\* a wallet departed from the block and did not say so.
THEOREM UnlocksStayReal == Spec => []UnlocksAreReal
<1>1. ZenonInv => UnlocksAreReal
  BY DEF ZenonInv
<1> QED
  BY <1>1, ZenonInvariant, PTL

----------------------------------------------------------------------------
(* The user's own ZNN is an escrow. *)

\* A step that keeps the promise and does not touch the chain may teach the secret.
LEMMA ReadingLearns ==
    ASSUME ZenonInv, UnlocksAreReal', [Next]_vars, UNCHANGED chain, Orderly, Orderly'
    PROVE  Held!Next \/ UNCHANGED <<Lot, Learned>>
<1>1. Lot' = Lot
  BY DEF Lot, Lots, chain
<1>2. SecretArrivesOnZenon' <=> SecretArrivesOnZenon
  BY ChainSteps DEF ZenonInv, SecretArrivesOnZenon, swap
<1>3. rec.secret => rec'.secret
  BY StepsLearn DEF ZenonInv, Learns
<1>4. Learned \in BOOLEAN /\ Learned' \in BOOLEAN /\ (Learned => Learned')
  BY <1>2, <1>3 DEF Learned
<1>5. CASE ~Learned /\ Learned'
  <2>1. PICK h \in Id : entry[h].state = "unlocked"
    BY <1>5 DEF Learned, UnlocksAreReal, PreimagePublic, chain
  <2>2. h \in Lots
    BY <1>2, <1>5, <2>1 DEF Learned, SecretArrivesOnZenon, ZenonHtlcIsOurs, ZenonInv, Whose, Lots
  <2>3. Lot = "unlocked"
    BY <2>1, <2>2 DEF Lot
  <2>4. Learned' = TRUE
    BY <1>4, <1>5
  <2>5. Held!Learn
    BY <1>1, <2>3, <2>4 DEF Held!Learn
  <2> QED BY <2>5 DEF Held!Next
<1>6. CASE Learned = Learned'
  BY <1>1, <1>6
<1> QED BY <1>4, <1>5, <1>6

\* Where there is a lot, it is the only one, and the escrow is in its state.
LEMMA LotIsTheEntrys ==
    ASSUME LotHolds, Orderly, NEW g \in Lots
    PROVE  /\ Lots = {g} /\ g \in Id
           /\ Lot = IF entry[g].state \in {"unlocked", "reclaimed"} THEN entry[g].state
                    ELSE IF g \in expired THEN "over" ELSE "open"
<1>1. Lots = {g} /\ g \in Id
  BY DEF LotHolds, Lots
<1>2. Lots # {}
  BY <1>1
<1> QED BY <1>1, <1>2 DEF Lot

\* A step of the chain, as the escrow sees it.
LEMMA ChainMovesTheLot ==
    ASSUME ZenonInv, LotHolds', ChainMoves, UNCHANGED swap, UNCHANGED <<rec, slips>>, Orderly
    PROVE  Held!Next \/ UNCHANGED <<Lot, Learned>>
<1>0. TypeOK /\ LotHolds /\ Whose /\ Orderly' /\ Learned' = Learned
  BY DEF ZenonInv, Orderly, Learned, SecretArrivesOnZenon, swap
<1>1. Lots = {} => Lot = "none"
  BY DEF Lot
<1>2. Lots' = {} => Lot' = "none"
  BY <1>0 DEF Lot
<1>3. ASSUME NEW g \in Lots'
      PROVE  /\ Lots' = {g} /\ g \in Id
             /\ Lot' = IF entry'[g].state \in {"unlocked", "reclaimed"} THEN entry'[g].state
                       ELSE IF g \in expired' THEN "over" ELSE "open"
  <2>1. Lots' = {g} /\ g \in Id
    BY <1>0 DEF LotHolds, Lots
  <2> QED BY <1>0, <2>1 DEF Lot
\* An entry that is not a lot, or whose outcome and expiry stay.
<1>4. ASSUME Lots' = Lots, \A g \in Lots : /\ g \in expired' <=> g \in expired
                                           /\ \/ entry'[g].state = entry[g].state
                                              \/ /\ entry[g].state \notin {"unlocked", "reclaimed"}
                                                 /\ entry'[g].state \notin {"unlocked", "reclaimed"}
      PROVE  Lot' = Lot
  <2>1. CASE Lots = {}
    BY <1>1, <1>2, <1>4, <2>1
  <2>2. ASSUME NEW g \in Lots PROVE Lot' = Lot
    BY <1>0, <1>3, <1>4, <2>2, LotIsTheEntrys
  <2> QED BY <2>1, <2>2
<1>5. ASSUME NEW h \in Id, entry[h].state = "sent", Goes(h, "live")
      PROVE  Lot' = Lot
  BY <1>0, <1>4, <1>5, GoesChangesOne DEF Lots
<1>6. ASSUME NEW h \in Id, Readable(h), h \notin expired, Goes(h, "unlocked")
      PROVE  Lot' = Lot \/ Held!Next
  <2>1. CASE h \in Lots
    <3>1. Lot = "open"
      BY <1>0, <1>6, <2>1, LotIsTheEntrys DEF Readable
    <3>2. h \in Lots' /\ entry'[h].state = "unlocked"
      BY <1>0, <1>6, <2>1, GoesChangesOne
    <3>3. Lot' = "unlocked"
      BY <1>3, <3>2
    <3> QED BY <1>0, <3>1, <3>3 DEF Held!Next, Held!Unlock
  <2>2. CASE h \notin Lots
    BY <1>0, <1>4, <1>6, <2>2, GoesChangesOne DEF Lots
  <2> QED BY <2>1, <2>2
<1>7. ASSUME NEW h \in Id, Readable(h), h \in expired, Goes(h, "reclaimed")
      PROVE  Lot' = Lot \/ Held!Next
  <2>1. CASE h \in Lots
    <3>1. Lot = "over"
      BY <1>0, <1>7, <2>1, LotIsTheEntrys DEF Readable
    <3>2. h \in Lots' /\ entry'[h].state = "reclaimed"
      BY <1>0, <1>7, <2>1, GoesChangesOne
    <3>3. Lot' = "reclaimed"
      BY <1>3, <3>2
    <3> QED BY <1>0, <3>1, <3>3 DEF Held!Next, Held!Reclaim
  <2>2. CASE h \notin Lots
    BY <1>0, <1>4, <1>7, <2>2, GoesChangesOne DEF Lots
  <2> QED BY <2>1, <2>2
<1>8. ASSUME NEW t \in Tabs, NEW h \in Id, PublishCreate(t, h)
      PROVE  Held!Next
  <2>1. Lots = {}
    <3>1. Creating(card[t]) /\ card[t].phase = "inWallet"
      BY <1>8 DEF PublishCreate, Creating, Built
    <3> QED BY <1>0, <3>1 DEF LotHolds
  <2>2. h \in Lots' /\ entry'[h].state \in {"sent", "elsewhere"} /\ h \notin expired'
    <3>1. /\ entry[h].state = "none" /\ UNCHANGED expired
          /\ entry'[h].by \in Accounts /\ entry'[h].state \in {"sent", "elsewhere"}
      BY <1>8, CreateLocks
    <3> QED BY <1>0, <3>1 DEF Lots, Whose
  <2>3. Lot' = "open"
    BY <1>3, <2>2
  <2> QED BY <1>0, <1>1, <2>1, <2>3 DEF Held!Next, Held!Lock
<1>9. ASSUME NEW h \in Id, PeerCreates(h)
      PROVE  Lot' = Lot
  <2>1. Lots = {}
    BY <1>0, <1>9, PeersEntry DEF Whose, Lots
  <2>2. Lots' = {}
    BY <1>0, <1>9, <2>1, PeersEntry DEF Lots
  <2> QED BY <1>1, <1>2, <2>1, <2>2
<1>10. ASSUME NEW h \in Id, Expires(h)
       PROVE  Lot' = Lot \/ Held!Next
  <2>1. /\ entry' = entry /\ expired' = expired \cup {h} /\ h \notin expired
        /\ entry[h].state \in {"sent", "live"} /\ Lots' = Lots
    BY <1>10 DEF Expires, Lots
  <2>2. CASE h \in Lots
    <3>1. Lot = "open"
      BY <1>0, <2>1, <2>2, LotIsTheEntrys
    <3>2. Lot' = "over"
      BY <1>3, <2>1, <2>2
    <3> QED BY <1>0, <3>1, <3>2 DEF Held!Next, Held!RunsOut
  <2>3. CASE h \notin Lots
    BY <1>4, <2>1, <2>3
  <2> QED BY <2>2, <2>3
<1> QED BY <1>0, <1>5, <1>6, <1>7, <1>8, <1>9, <1>10 DEF ChainMoves

LEMMA StepIsTheEscrows ==
    ASSUME ZenonInv, ZenonInv', [Next]_vars
    PROVE  Held!Next \/ UNCHANGED <<Lot, Learned>>
<1>1. CASE ~Orderly'
  <2>1. Lot' = "lapsed" /\ Learned' = FALSE
    BY <1>1 DEF Lot, Learned
  <2> QED BY <2>1 DEF Held!Next, Held!Lapse
<1>2. CASE Orderly'
  <2>1. Orderly /\ TypeOK /\ UnlocksAreReal' /\ LotHolds'
    BY <1>2, OrderlyWas DEF ZenonInv
  <2> QED BY <1>2, <2>1, ChainSteps, ReadingLearns, ChainMovesTheLot
<1> QED BY <1>1, <1>2

LEMMA InitHeld == Init => Held!Init
<1> SUFFICES ASSUME Init PROVE Held!Init
  OBVIOUS
<1>1. Lots = {}
  BY InitRecords DEF Lots
<1>2. Orderly /\ UnlocksAreReal
  BY InitInv DEF Init, Orderly, ZenonInv
<1>3. Learned = FALSE
  <2>1. SecretArrivesOnZenon => ~PreimagePublic
    BY InitRecords DEF PreimagePublic, SecretArrivesOnZenon
  <2>2. ~(SecretArrivesOnZenon /\ rec.secret)
    BY <1>2, <2>1 DEF UnlocksAreReal
  <2> QED BY <2>2 DEF Learned
<1> QED BY <1>1, <1>2, <1>3 DEF Held!Init, Lot

\* This user's ZNN is an escrow, for any tabs, entries, accounts and moves of the
\* wallet, as long as its creates are orderly: locked once, then taken in time for
\* a preimage that is learned, or taken back after it ran out, and never both
\* (walletblock.go, manager.go VerifyZenon, znn).
THEOREM LotStaysInEscrow == Spec => LotIsHeldInEscrow
<1>1. ZenonInv /\ ZenonInv' /\ [Next]_vars => [Held!Next]_<<Lot, Learned>>
  BY StepIsTheEscrows
<1> QED BY <1>1, InitHeld, ZenonInvariant, PTL
        DEF Spec, LotIsHeldInEscrow, Held!Spec
=============================================================================
