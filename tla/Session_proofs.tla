--------------------------- MODULE Session_proofs ---------------------------
(***************************************************************************)
(* Theorems about Session, for any budget of what goes wrong, any number   *)
(* of presses, and whichever sides stake.                                  *)
(*                                                                         *)
(* The argument is side by side and key by key.  What a side remembers as  *)
(* sent is what its list shows, or nothing, and its list is never ahead of *)
(* its record (Steady); so a claim is dropped, or stands with the message  *)
(* that is being sealed or with an event of the present reason (Backed),   *)
(* and every hand-off said or being sealed has used up a reason (Tallied). *)
(* All that publishOwed does, and the rest of its loop after an await, is  *)
(* a Round: one lemma carries all three through it, for whoever calls it.  *)
(***************************************************************************)
EXTENDS Session, FiniteSetTheorems, TLAPS

\* The hand-offs of one key among messages, and those b said.
OfKey(k, m) == {x \in m : x.type = k}
Said(b, k) == {e \in sent : e.by = b /\ e.type = k}

\* What is counted is finite.
Finite == IsFiniteSet(sent) /\ \A b \in Side : IsFiniteSet(sealing[b])

Tab == [here : BOOLEAN, attached : BOOLEAN]
Rec == [made : BOOLEAN, got : 0..2, staked : BOOLEAN]

----------------------------------------------------------------------------
(* Types. *)

\* TypeOK, but for the numbers of the requests.
Types ==
    /\ initiator \in Side
    /\ tab \in [Side -> Tab]
    /\ rec \in [Side -> Rec]
    /\ late \in BOOLEAN
    /\ shown \in [Side -> Owings] /\ published \in [Side -> Owings]
    /\ sealing \in [Side -> SUBSET Message]
    /\ sent \in SUBSET Event
    /\ served \in SUBSET sent
    /\ seen \in [Side -> SUBSET sent]
    /\ applied \in [Side -> Nat]
    /\ offered \in BOOLEAN /\ asked \in BOOLEAN
    /\ spent \in 0..Budget /\ presses \in 0..MaxPresses
    /\ reasons \in [Side -> Nat]

Typed == Types /\ Finite

LEMMA NothingIsOwed == Nothing \in Owings /\ Nothing.terms = 0 /\ Nothing.stake = 0
BY DEF Nothing, Owings

LEMMA OwedIsTyped == ASSUME Types, NEW b \in Side PROVE Owed(b) \in Owings
<1>1. rec[b] \in Rec
  BY DEF Types
<1> QED
  BY <1>1 DEF Owed, Owings, Rec

\* One key of what is owed is set, and the other stays.
LEMMA ClaimSets ==
    ASSUME NEW c \in Owings, NEW k \in Key, NEW v \in 0..2, k = "stake" => v \in 0..1
    PROVE  /\ Claim(k, v, c) \in Owings
           /\ Claim(k, v, c)[k] = v
           /\ \A j \in Key \ {k} : Claim(k, v, c)[j] = c[j]
<1>1. CASE k = "terms"
  BY <1>1 DEF Claim, Owings, Key
<1>2. CASE k = "stake"
  BY <1>2 DEF Claim, Owings, Key
<1> QED
  BY <1>1, <1>2 DEF Key

LEMMA KeysOf ==
    ASSUME NEW c \in Owings
    PROVE  /\ c.terms \in 0..2 /\ c.stake \in 0..1
           /\ \A k \in Key : c[k] \in 0..2
           /\ c["terms"] = c.terms /\ c["stake"] = c.stake
BY DEF Owings, Key

LEMMA SealedIsAnEvent ==
    ASSUME Typed, NEW b \in Side, NEW m \in Message
    PROVE  Sealed(b, m) \in Event
<1>1. IsFiniteSet({e \in sent : e.by = b /\ e.type = m.type})
  BY FS_Subset DEF Typed, Finite
<1>2. Cardinality({e \in sent : e.by = b /\ e.type = m.type}) \in Nat
  BY <1>1, FS_CardinalityType
<1>3. \A k \in Key : Owed(b)[k] \in 0..2
  BY OwedIsTyped, KeysOf DEF Typed
<1> QED
  BY <1>2, <1>3 DEF Sealed, Message, Event

LEMMA ConstantMessages ==
    /\ Offer \in Message /\ Resync \in Message
    /\ Offer.type \notin Key /\ Resync.type \notin Key /\ Resync.type = "resync" /\ Offer.type = "offer"
    /\ Resync.rest = 0
BY DEF Offer, Resync, Message, Type, Key

LEMMA SaysIsAMessage ==
    ASSUME NEW k \in Key, NEW v \in 0..2, NEW n \in Nat, NEW rest \in 0..1
    PROVE  /\ Says(k, v, n, rest) \in Message
           /\ Says(k, v, n, rest).type = k /\ Says(k, v, n, rest).value = v
           /\ Says(k, v, n, rest).reason = n /\ Says(k, v, n, rest).rest = rest
BY DEF Says, Message, Type, Key

LEMMA KeepsIsTyped ==
    ASSUME Typed, NEW b \in Side, NEW c \in Owings, NEW m \in SUBSET Message, IsFiniteSet(m),
           Keeps(b, c, m)
    PROVE  /\ published' \in [Side -> Owings] /\ sealing' \in [Side -> SUBSET Message]
           /\ \A a \in Side : IsFiniteSet(sealing'[a])
           /\ \A a \in Side \ {b} : published'[a] = published[a] /\ sealing'[a] = sealing[a]
           /\ published'[b] = c /\ sealing'[b] = m
<1>1. published \in [Side -> Owings] /\ sealing \in [Side -> SUBSET Message]
  BY DEF Typed, Types
<1>2. \A a \in Side : IsFiniteSet(sealing[a])
  BY DEF Typed, Finite
<1> QED
  BY <1>1, <1>2 DEF Keeps

\* What a round of publishOwed over a list may do to the claims and the messages m,
\* for reason n: nothing, or one hand-off; the terms before the stake, and only in
\* the room.
HandsOff(b, list, c, m, n, k, x) ==
    /\ tab[b].here
    /\ list[k] \notin {0, c[k]} /\ (k = "terms" \/ list.terms \in {0, c.terms})
    /\ x.type = k /\ x.reason = n
    /\ k = "terms" => x.value # 0
    /\ x.rest \in {0, list.stake}
    /\ Keeps(b, Claim(k, list[k], c), m \cup {x})

Round(b, list, c, m, n) ==
    \/ list.terms \in {0, c.terms} /\ Keeps(b, c, m)
    \/ \E k \in Key, x \in Message : HandsOff(b, list, c, m, n, k, x)

LEMMA PublishOwedIsARound ==
    ASSUME NEW b \in Side, NEW list \in Owings, NEW c \in Owings, NEW m, NEW n \in Nat,
           PublishOwed(b, list, c, m, n), tab[b].here
    PROVE  Round(b, list, c, m, n)
<1>1. /\ list.terms \in 0..2 /\ list.stake \in 0..1 /\ "terms" \in Key /\ "stake" \in Key
      /\ list["terms"] = list.terms /\ list["stake"] = list.stake
      /\ c["terms"] = c.terms /\ c["stake"] = c.stake
  BY KeysOf DEF Key
<1>2. CASE Due(list, c, "terms")
  <2> DEFINE x == Says("terms", list.terms, n, list.stake)
  <2>1. Keeps(b, Claim("terms", list.terms, c), m \cup {x})
    BY <1>2 DEF PublishOwed
  <2>2. /\ x \in Message /\ x.type = "terms" /\ x.reason = n /\ x.value = list.terms
        /\ x.rest = list.stake
    BY <1>1, SaysIsAMessage
  <2>3. list.terms \notin {0, c.terms}
    BY <1>1, <1>2 DEF Due
  <2> HIDE DEF x
  <2>4. HandsOff(b, list, c, m, n, "terms", x)
    BY <1>1, <2>1, <2>2, <2>3 DEF HandsOff
  <2> QED
    BY <1>1, <2>2, <2>4 DEF Round
<1>3. CASE ~Due(list, c, "terms") /\ Due(list, c, "stake")
  <2> DEFINE x == Says("stake", list.stake, n, 0)
  <2>1. Keeps(b, Claim("stake", list.stake, c), m \cup {x})
    BY <1>3 DEF PublishOwed
  <2>2. x \in Message /\ x.type = "stake" /\ x.reason = n /\ x.rest = 0
    BY <1>1, SaysIsAMessage
  <2>3. list.stake \notin {0, c.stake} /\ list.terms \in {0, c.terms}
    BY <1>1, <1>3 DEF Due
  <2> HIDE DEF x
  <2>4. HandsOff(b, list, c, m, n, "stake", x)
    BY <1>1, <2>1, <2>2, <2>3 DEF HandsOff
  <2> QED
    BY <1>1, <2>2, <2>4 DEF Round
<1>4. CASE ~Due(list, c, "terms") /\ ~Due(list, c, "stake")
  <2>1. list.terms \in {0, c.terms}
    BY <1>1, <1>4 DEF Due
  <2> QED
    BY <1>4, <2>1 DEF PublishOwed, Round
<1> QED
  BY <1>2, <1>3, <1>4

\* The list that the end of a send goes by: the page's, or what is left of the round.
Left(b, m) == IF m = Resync /\ InSession(b) THEN shown[b] ELSE [terms |-> 0, stake |-> m.rest]

LEMMA EndsIsARound ==
    ASSUME Typed, NEW b \in Side, NEW m \in sealing[b], NEW c \in Owings, Ends(b, m, c)
    PROVE  Left(b, m) \in Owings /\ Round(b, Left(b, m), c, sealing[b] \ {m}, reasons[b])
<1>1. /\ shown[b] \in Owings /\ reasons[b] \in Nat /\ m \in Message
  BY DEF Typed, Types
<1>2. m.rest \in 0..1
  BY <1>1 DEF Message
<1>3. CASE m = Resync /\ InSession(b)
  <2>1. PublishOwed(b, shown[b], c, sealing[b] \ {m}, reasons[b]) /\ tab[b].here
    BY <1>3 DEF Ends, InSession
  <2>2. Left(b, m) = shown[b]
    BY <1>3 DEF Left
  <2> QED
    BY <1>1, <2>1, <2>2, PublishOwedIsARound
<1>4. CASE ~(m = Resync /\ InSession(b))
  <2> DEFINE list == [terms |-> 0, stake |-> m.rest]
  <2>1. Left(b, m) = list
    BY <1>4 DEF Left
  <2>2. list \in Owings /\ list.terms = 0 /\ list.stake = m.rest /\ list["stake"] = m.rest
    BY <1>2 DEF Owings
  <2>3. "stake" \in Key /\ c["stake"] = c.stake
    BY DEF Key
  <2> HIDE DEF list
  <2>4. CASE m.type = "terms" /\ m.rest \notin {0, c.stake} /\ tab[b].here
    <3> DEFINE x == Says("stake", IF tab[b].attached THEN m.rest ELSE 0, reasons[b], 0)
    <3>1. Keeps(b, Claim("stake", m.rest, c), (sealing[b] \ {m}) \cup {x})
      BY <1>4, <2>4 DEF Ends
    <3>2. x \in Message /\ x.type = "stake" /\ x.reason = reasons[b] /\ x.rest = 0
      BY <1>1, <1>2, <2>3, SaysIsAMessage
    <3> HIDE DEF x
    <3>3. HandsOff(b, list, c, sealing[b] \ {m}, reasons[b], "stake", x)
      BY <2>2, <2>3, <2>4, <3>1, <3>2 DEF HandsOff
    <3> QED
      BY <2>1, <2>2, <2>3, <3>2, <3>3 DEF Round
  <2>5. CASE ~(m.type = "terms" /\ m.rest \notin {0, c.stake} /\ tab[b].here)
    <3>1. Keeps(b, c, sealing[b] \ {m})
      BY <1>4, <2>5 DEF Ends
    <3> QED
      BY <2>1, <2>2, <3>1 DEF Round
  <2> QED
    BY <2>4, <2>5
<1> QED
  BY <1>3, <1>4

LEMMA RoundIsTyped ==
    ASSUME Typed, NEW b \in Side, NEW list \in Owings, NEW c \in Owings,
           NEW m \in SUBSET Message, IsFiniteSet(m), NEW n \in Nat, Round(b, list, c, m, n)
    PROVE  /\ published' \in [Side -> Owings] /\ sealing' \in [Side -> SUBSET Message]
           /\ \A a \in Side : IsFiniteSet(sealing'[a])
           /\ \A a \in Side \ {b} : published'[a] = published[a] /\ sealing'[a] = sealing[a]
<1>1. CASE Keeps(b, c, m)
  BY <1>1, KeepsIsTyped
<1>2. ASSUME NEW k \in Key, NEW x \in Message, HandsOff(b, list, c, m, n, k, x)
      PROVE  /\ published' \in [Side -> Owings] /\ sealing' \in [Side -> SUBSET Message]
             /\ \A a \in Side : IsFiniteSet(sealing'[a])
             /\ \A a \in Side \ {b} : published'[a] = published[a] /\ sealing'[a] = sealing[a]
  <2>1. list[k] \in 0..2 /\ (k = "stake" => list[k] \in 0..1)
    BY KeysOf
  <2>2. Claim(k, list[k], c) \in Owings
    BY <2>1, ClaimSets
  <2>3. m \cup {x} \in SUBSET Message /\ IsFiniteSet(m \cup {x})
    BY FS_AddElement
  <2>4. Keeps(b, Claim(k, list[k], c), m \cup {x})
    BY <1>2 DEF HandsOff
  <2> QED
    BY <2>2, <2>3, <2>4, KeepsIsTyped
<1> QED
  BY <1>1, <1>2 DEF Round

\* The part of the type that the browsers' actions change in their own ways.
BrowserTyped ==
    /\ tab \in [Side -> Tab]
    /\ rec \in [Side -> Rec]
    /\ late \in BOOLEAN
    /\ shown \in [Side -> Owings] /\ published \in [Side -> Owings]
    /\ sealing \in [Side -> SUBSET Message]
    /\ \A b \in Side : IsFiniteSet(sealing[b])

NetworkTyped ==
    /\ sent \in SUBSET Event /\ IsFiniteSet(sent)
    /\ served \in SUBSET sent
    /\ seen \in [Side -> SUBSET sent]

RestTyped ==
    /\ initiator \in Side
    /\ applied \in [Side -> Nat]
    /\ offered \in BOOLEAN /\ asked \in BOOLEAN
    /\ spent \in 0..Budget /\ presses \in 0..MaxPresses
    /\ reasons \in [Side -> Nat]

LEMMA TypedInParts == Typed <=> BrowserTyped /\ NetworkTyped /\ RestTyped
BY DEF Typed, Types, Finite, BrowserTyped, NetworkTyped, RestTyped

LEMMA PartsAreTyped ==
    ASSUME BrowserTyped', NetworkTyped', RestTyped' PROVE Typed'
BY DEF Typed, Types, Finite, BrowserTyped, NetworkTyped, RestTyped

LEMMA InitTyped == ASSUME Init PROVE Typed
<1>1. IsFiniteSet({})
  BY FS_EmptySet
<1>2. BrowserTyped
  <2>1. tab \in [Side -> Tab]
    BY DEF Init, Tab
  <2>2. rec \in [Side -> Rec]
    BY DEF Init, Rec
  <2> QED
    BY <1>1, <2>1, <2>2, NothingIsOwed DEF Init, BrowserTyped
<1>3. NetworkTyped
  BY <1>1 DEF Init, NetworkTyped
<1>4. RestTyped
  <2>1. offered \in BOOLEAN /\ asked \in BOOLEAN
    BY DEF Init
  <2> QED
    BY <2>1, BoundsAssumption DEF Init, RestTyped
<1> QED
  BY <1>2, <1>3, <1>4, TypedInParts

LEMMA SpendIsTyped ==
    ASSUME Typed, NEW n \in Nat, Spend(n) PROVE spent' \in 0..Budget
BY BoundsAssumption DEF Typed, Types, Spend

LEMMA FaultIsTyped ==
    ASSUME Typed, Fault \/ Slip PROVE spent' \in 0..Budget /\ asked' \in BOOLEAN
<1>1. spent' \in 0..Budget
  BY SpendIsTyped DEF Fault, Slip
<1>2. asked' = FALSE
  BY DEF Fault, Slip
<1> QED
  BY <1>1, <1>2

LEMMA JoinTyped == ASSUME Typed, NEW b \in Side, Join(b) PROVE Typed'
<1>1. tab' \in [Side -> Tab]
  BY DEF Join, Typed, Types, Tab
<1>2. BrowserTyped'
  BY <1>1, NothingIsOwed, TypedInParts DEF Join, BrowserTyped
<1>3. NetworkTyped'
  BY TypedInParts DEF Join, NetworkTyped, network
<1>4. RestTyped'
  BY TypedInParts DEF Join, RestTyped
<1> QED
  BY <1>2, <1>3, <1>4, PartsAreTyped

LEMMA LeaveTyped ==
    ASSUME Typed, NEW b \in Side, NEW reloaded \in BOOLEAN, Leave(b, reloaded)
    PROVE  Typed'
<1>0. /\ tab \in [Side -> Tab] /\ shown \in [Side -> Owings]
      /\ published \in [Side -> Owings] /\ sealing \in [Side -> SUBSET Message]
      /\ \A c \in Side : IsFiniteSet(sealing[c])
  BY TypedInParts DEF BrowserTyped
<1>1. tab' \in [Side -> Tab]
  <2>1. \A keeps \in BOOLEAN : [tab EXCEPT ![b].here = FALSE, ![b].attached = keeps]
                                 \in [Side -> Tab]
    BY <1>0 DEF Tab
  <2>2. (tab[b].attached /\ ~reloaded) \in BOOLEAN
    OBVIOUS
  <2> QED
    BY <2>1, <2>2, Zenon DEF Leave
<1>2. shown' \in [Side -> Owings]
  BY <1>0, OwedIsTyped DEF Leave, Typed
<1>3. sealing' \in [Side -> SUBSET Message]
  BY <1>0 DEF Leave
<1>4. \A c \in Side : IsFiniteSet(sealing'[c])
  <2>1. \A c \in Side : sealing'[c] \in {{}, sealing[c]}
    BY <1>0 DEF Leave
  <2> QED
    BY <1>0, <2>1, FS_EmptySet
<1>5. BrowserTyped'
  BY <1>0, <1>1, <1>2, <1>3, <1>4, NothingIsOwed, TypedInParts DEF Leave, BrowserTyped
<1>6. NetworkTyped' /\ RestTyped'
  BY FaultIsTyped, TypedInParts DEF Leave, NetworkTyped, RestTyped, network, inbox
<1> QED
  BY <1>5, <1>6, PartsAreTyped

LEMMA AttachedIsTyped ==
    ASSUME Typed, NEW b \in Side, tab' = Attached(b)
    PROVE  tab' \in [Side -> Tab]
BY DEF Typed, Types, Attached, Tab

\* What the creator of a swap has of the other's, and owes.
Had(b) == IF b = "funds" /\ b # initiator THEN 2 ELSE 0
Owes(b) == [terms |-> IF b = "receives" THEN 2 ELSE Had(b), stake |-> 0]

LEMMA CreateSwapDoes ==
    ASSUME Typed, NEW b \in Side, CreateSwap(b)
    PROVE  /\ tab[b].here /\ ~rec[b].made /\ tab' = Attached(b) /\ tab'[b].here /\ tab'[b].attached
           /\ b # initiator => rec[initiator].made
           /\ rec' \in [Side -> Rec] /\ \A c \in Side \ {b} : rec'[c] = rec[c] /\ tab'[c] = tab[c]
           /\ rec'[b].made /\ rec'[b].got = Had(b) /\ rec'[b].staked = rec[b].staked
           /\ Owes(b) \in Owings /\ shown' = [shown EXCEPT ![b] = Owes(b)]
           /\ Round(b, Owes(b), published[b], sealing[b], reasons[b])
           /\ reasons' = reasons
<1>1. /\ tab \in [Side -> Tab] /\ rec \in [Side -> Rec] /\ published[b] \in Owings
      /\ reasons[b] \in Nat
  BY DEF Typed, Types
<1>2. Had(b) \in 0..2 /\ Owes(b) \in Owings
  BY DEF Had, Owes, Owings
<1>3. /\ tab[b].here /\ ~rec[b].made /\ tab' = Attached(b) /\ (b # initiator => rec[initiator].made)
      /\ rec' = [rec EXCEPT ![b].made = TRUE, ![b].got = Had(b)]
      /\ shown' = [shown EXCEPT ![b] = Owes(b)] /\ reasons' = reasons
      /\ PublishOwed(b, Owes(b), published[b], sealing[b], reasons[b])
  BY DEF CreateSwap, Had, Owes, ghosts
<1>4. /\ rec' \in [Side -> Rec] /\ \A c \in Side \ {b} : rec'[c] = rec[c]
      /\ rec'[b].made /\ rec'[b].got = Had(b) /\ rec'[b].staked = rec[b].staked
  BY <1>1, <1>2, <1>3 DEF Rec
<1>5. tab'[b].here /\ tab'[b].attached /\ \A c \in Side \ {b} : tab'[c] = tab[c]
  BY <1>1, <1>3 DEF Attached, Tab
<1>6. Round(b, Owes(b), published[b], sealing[b], reasons[b])
  BY <1>1, <1>2, <1>3, PublishOwedIsARound
<1> QED
  BY <1>2, <1>3, <1>4, <1>5, <1>6

LEMMA CreateSwapTyped == ASSUME Typed, NEW b \in Side, CreateSwap(b) PROVE Typed'
<1>1. /\ published[b] \in Owings /\ sealing[b] \in SUBSET Message /\ reasons[b] \in Nat
      /\ IsFiniteSet(sealing[b]) /\ shown \in [Side -> Owings]
  BY DEF Typed, Types, Finite
<1>2. shown' \in [Side -> Owings] /\ rec' \in [Side -> Rec]
  BY <1>1, CreateSwapDoes
<1>3. tab' \in [Side -> Tab]
  BY CreateSwapDoes, AttachedIsTyped
<1>4. /\ published' \in [Side -> Owings] /\ sealing' \in [Side -> SUBSET Message]
      /\ \A a \in Side : IsFiniteSet(sealing'[a])
  BY <1>1, CreateSwapDoes, RoundIsTyped
<1>6. BrowserTyped'
  BY <1>2, <1>3, <1>4, TypedInParts DEF BrowserTyped, CreateSwap
<1>7. NetworkTyped'
  <2>1. Sealed(b, Offer) \in Event
    BY SealedIsAnEvent, ConstantMessages
  <2>2. IsFiniteSet(sent \cup {Sealed(b, Offer)})
    BY FS_AddElement DEF Typed, Finite
  <2>3. sent' \in {sent, sent \cup {Sealed(b, Offer)}}
    BY DEF CreateSwap
  <2> QED
    BY <2>1, <2>2, <2>3, TypedInParts DEF CreateSwap, NetworkTyped, inbox
<1>8. RestTyped'
  BY TypedInParts DEF CreateSwap, RestTyped, inbox, ghosts
<1> QED
  BY <1>6, <1>7, <1>8, PartsAreTyped

LEMMA AttachDoes ==
    ASSUME Typed, NEW b \in Side, Attach(b)
    PROVE  /\ tab[b].here /\ rec[b].made /\ ~tab[b].attached
           /\ tab' \in [Side -> Tab] /\ tab'[b].here /\ tab'[b].attached
           /\ \A c \in Side \ {b} : tab'[c] = tab[c]
           /\ rec' = rec /\ shown' = shown /\ reasons' = reasons /\ sent' = sent
           /\ Round(b, shown[b], published[b], sealing[b], reasons[b])
<1>1. /\ tab \in [Side -> Tab] /\ shown[b] \in Owings /\ published[b] \in Owings
      /\ reasons[b] \in Nat
  BY DEF Typed, Types
<1>2. /\ tab[b].here /\ rec[b].made /\ ~tab[b].attached /\ tab' = Attached(b)
      /\ rec' = rec /\ shown' = shown /\ reasons' = reasons /\ sent' = sent
      /\ PublishOwed(b, shown[b], published[b], sealing[b], reasons[b])
  BY DEF Attach, network, ghosts
<1>3. /\ tab' \in [Side -> Tab] /\ tab'[b].here /\ tab'[b].attached
      /\ \A c \in Side \ {b} : tab'[c] = tab[c]
  BY <1>1, <1>2 DEF Attached, Tab
<1> QED
  BY <1>1, <1>2, <1>3, PublishOwedIsARound

LEMMA AttachTyped == ASSUME Typed, NEW b \in Side, Attach(b) PROVE Typed'
<1>1. /\ published[b] \in Owings /\ sealing[b] \in SUBSET Message /\ reasons[b] \in Nat
      /\ IsFiniteSet(sealing[b]) /\ shown[b] \in Owings
  BY DEF Typed, Types, Finite
<1>2. /\ published' \in [Side -> Owings] /\ sealing' \in [Side -> SUBSET Message]
      /\ \A a \in Side : IsFiniteSet(sealing'[a])
  BY <1>1, AttachDoes, RoundIsTyped
<1>3. BrowserTyped'
  BY <1>2, AttachDoes, TypedInParts DEF Attach, BrowserTyped
<1>4. NetworkTyped' /\ RestTyped'
  BY TypedInParts DEF Attach, NetworkTyped, RestTyped, network, inbox, ghosts
<1> QED
  BY <1>3, <1>4, PartsAreTyped

LEMMA ListReloadsDoes ==
    ASSUME Typed, NEW b \in Side, ListReloads(b)
    PROVE  /\ Owed(b) \in Owings /\ shown' = [shown EXCEPT ![b] = Owed(b)]
           /\ tab' = tab /\ rec' = rec /\ reasons' = reasons /\ sent' = sent
           /\ IF InSession(b) THEN Round(b, Owed(b), published[b], sealing[b], reasons[b])
                              ELSE published' = published /\ sealing' = sealing
<1>1. published[b] \in Owings /\ reasons[b] \in Nat /\ Owed(b) \in Owings
  BY OwedIsTyped DEF Typed, Types
<1> QED
  BY <1>1, PublishOwedIsARound DEF ListReloads, InSession, network, ghosts

LEMMA ListReloadsTyped == ASSUME Typed, NEW b \in Side, ListReloads(b) PROVE Typed'
<1>1. /\ published[b] \in Owings /\ sealing[b] \in SUBSET Message /\ reasons[b] \in Nat
      /\ IsFiniteSet(sealing[b]) /\ shown \in [Side -> Owings]
  BY DEF Typed, Types, Finite
<1>2. shown' \in [Side -> Owings]
  BY <1>1, ListReloadsDoes
<1>3. /\ published' \in [Side -> Owings] /\ sealing' \in [Side -> SUBSET Message]
      /\ \A a \in Side : IsFiniteSet(sealing'[a])
  <2>1. CASE InSession(b)
    BY <1>1, <2>1, ListReloadsDoes, RoundIsTyped
  <2>2. CASE ~InSession(b)
    BY <2>2, ListReloadsDoes DEF Typed, Types, Finite
  <2> QED
    BY <2>1, <2>2
<1>4. BrowserTyped'
  BY <1>2, <1>3, TypedInParts DEF ListReloads, BrowserTyped
<1>5. NetworkTyped' /\ RestTyped'
  BY TypedInParts DEF ListReloads, NetworkTyped, RestTyped, network, inbox, ghosts
<1> QED
  BY <1>4, <1>5, PartsAreTyped

LEMMA PressTyped == ASSUME Typed, NEW b \in Side, Press(b) PROVE Typed'
<1>1. IsFiniteSet(sealing[b] \cup {Resync})
  BY FS_AddElement DEF Typed, Finite
<1>2. BrowserTyped'
  BY <1>1, ConstantMessages, NothingIsOwed, TypedInParts DEF Press, BrowserTyped, Forgotten
<1>3. asked' \in BOOLEAN
  <2>1. tab[Other(b)] \in Tab
    BY DEF Typed, Types, Other, Side
  <2> QED
    BY <2>1 DEF Press, InSession, Tab
<1>4. spent' \in 0..Budget
  BY SpendIsTyped DEF Press
<1>5. NetworkTyped' /\ RestTyped'
  BY <1>3, <1>4, BoundsAssumption, TypedInParts DEF Press, NetworkTyped, RestTyped, network, inbox
<1> QED
  BY <1>2, <1>5, PartsAreTyped

\* The end of a send, for a message being sealed.
LEMMA EndsIsTyped ==
    ASSUME Typed, NEW b \in Side, NEW m \in sealing[b], NEW c \in Owings, Ends(b, m, c)
    PROVE  /\ published' \in [Side -> Owings] /\ sealing' \in [Side -> SUBSET Message]
           /\ \A a \in Side : IsFiniteSet(sealing'[a])
           /\ \A a \in Side \ {b} : published'[a] = published[a] /\ sealing'[a] = sealing[a]
<1>1. /\ sealing[b] \ {m} \in SUBSET Message /\ IsFiniteSet(sealing[b] \ {m}) /\ reasons[b] \in Nat
  BY FS_RemoveElement DEF Typed, Types, Finite
<1> QED
  BY <1>1, EndsIsARound, RoundIsTyped

LEMMA SentTyped ==
    ASSUME Typed, NEW b \in Side, NEW m \in sealing[b], Sent(b, m)
    PROVE  Typed'
<1>1. published[b] \in Owings /\ m \in Message
  BY DEF Typed, Types
<1>2. BrowserTyped'
  BY <1>1, EndsIsTyped, TypedInParts DEF Sent, BrowserTyped
<1>3. NetworkTyped'
  <2>1. Sealed(b, m) \in Event
    BY <1>1, SealedIsAnEvent
  <2>2. IsFiniteSet(sent \cup {Sealed(b, m)})
    BY FS_AddElement DEF Typed, Finite
  <2>3. sent' = sent \cup {Sealed(b, m)} /\ served' \in SUBSET sent' /\ seen' = seen
    BY TypedInParts DEF Sent, NetworkTyped, inbox
  <2> QED
    BY <2>1, <2>2, <2>3, TypedInParts DEF NetworkTyped
<1>4. RestTyped'
  BY TypedInParts DEF Sent, RestTyped, inbox, ghosts
<1> QED
  BY <1>2, <1>3, <1>4, PartsAreTyped

\* The claims that the end of a send that failed goes by.
Kept(b, m) == IF m.type \in Key THEN GivenBack(m.type, published[b]) ELSE published[b]

LEMMA KeptClaims ==
    ASSUME Typed, NEW b \in Side, NEW m \in sealing[b]
    PROVE  /\ Kept(b, m) \in Owings
           /\ \A k \in Key : Kept(b, m)[k] = IF m.type = k THEN 0 ELSE published[b][k]
<1>1. published[b] \in Owings
  BY DEF Typed, Types
<1>2. CASE m.type \notin Key
  BY <1>1, <1>2 DEF Kept
<1>3. CASE m.type \in Key
  <2>1. PICK k \in Key : m.type = k
    BY <1>3
  <2>2. Kept(b, m) = Claim(k, 0, published[b])
    BY <1>3, <2>1 DEF Kept, GivenBack, Claim
  <2>3. /\ Claim(k, 0, published[b]) \in Owings /\ Claim(k, 0, published[b])[k] = 0
        /\ \A j \in Key \ {k} : Claim(k, 0, published[b])[j] = published[b][j]
    <3>1. 0 \in 0..2 /\ 0 \in 0..1
      OBVIOUS
    <3>2. \A c \in Owings : /\ Claim(k, 0, c) \in Owings /\ Claim(k, 0, c)[k] = 0
                            /\ \A j \in Key \ {k} : Claim(k, 0, c)[j] = c[j]
      BY <3>1, ClaimSets
    <3> QED
      BY <1>1, <3>2
  <2>4. ASSUME NEW j \in Key
        PROVE  Kept(b, m)[j] = IF m.type = j THEN 0 ELSE published[b][j]
    <3>1. CASE j = k
      BY <2>1, <2>2, <2>3, <3>1
    <3>2. CASE j # k
      <4>1. Claim(k, 0, published[b])[j] = published[b][j]
        BY <2>3, <3>2
      <4> QED
        BY <2>1, <2>2, <3>2, <4>1
    <3> QED
      BY <3>1, <3>2
  <2> QED
    BY <2>2, <2>3, <2>4
<1> QED
  BY <1>2, <1>3

LEMMA NotSentTyped ==
    ASSUME Typed, NEW b \in Side, NEW m \in sealing[b], NotSent(b, m)
    PROVE  Typed'
<1>1. Ends(b, m, Kept(b, m))
  BY DEF NotSent, Kept
<1>2. BrowserTyped'
  BY <1>1, KeptClaims, EndsIsTyped, TypedInParts DEF NotSent, BrowserTyped
<1>3. NetworkTyped'
  BY TypedInParts DEF NotSent, NetworkTyped, network, inbox
<1>4. RestTyped'
  BY FaultIsTyped, TypedInParts DEF NotSent, RestTyped, inbox
<1> QED
  BY <1>2, <1>3, <1>4, PartsAreTyped

LEMMA OpenedIsTyped ==
    ASSUME Typed, NEW b \in Side, NEW e \in sent, Opened(b, e), UNCHANGED sent
    PROVE  seen' \in [Side -> SUBSET sent']
BY DEF Typed, Types, Opened

\* What a side is refused, and what its record takes.
Refused(b, v) == IF b = "funds" THEN rec[b].staked ELSE v # 2 \/ (late /\ rec[b].got # v)

LEMMA TakenSets ==
    ASSUME Typed, NEW b \in Side, NEW v \in 0..2
    PROVE  /\ Taken(b, v) \in [Side -> Rec]
           /\ \A c \in Side \ {b} : Taken(b, v)[c] = rec[c]
           /\ Taken(b, v)[b].made = rec[b].made /\ Taken(b, v)[b].staked = rec[b].staked
           /\ Taken(b, v)[b].got = IF Refused(b, v) THEN rec[b].got ELSE v
           /\ Refused(b, v) => Taken(b, v) = rec
<1>1. rec \in [Side -> Rec]
  BY DEF Typed, Types
<1>2. CASE Refused(b, v)
  <2>1. Taken(b, v) = [rec EXCEPT ![b].got = rec[b].got]
    BY <1>2 DEF Taken, Refused
  <2>2. Taken(b, v) = rec
    BY <1>1, <2>1 DEF Rec
  <2> QED
    BY <1>1, <1>2, <2>2
<1>3. CASE ~Refused(b, v)
  <2>1. Taken(b, v) = [rec EXCEPT ![b].got = v]
    BY <1>3 DEF Taken, Refused
  <2> QED
    BY <1>1, <1>3, <2>1 DEF Rec
<1> QED
  BY <1>2, <1>3

LEMMA ReceivedIs ==
    ASSUME Typed, NEW b \in Side, Receives(b)
    PROVE  \E e \in sent : \/ Ignored(b, e) \/ OfferArrives(b, e) \/ ResyncArrives(b, e)
                           \/ \E stale \in 0..2 : ValueArrives(b, e, stale)
BY DEF Receives, Carried, Typed, Types

LEMMA ResyncArrivesDoes ==
    ASSUME Typed, NEW b \in Side, NEW e \in sent, ResyncArrives(b, e)
    PROVE  /\ Round(b, shown[b], Nothing, sealing[b], reasons[b] + 1)
           /\ reasons' = [reasons EXCEPT ![b] = @ + 1] /\ tab[b].here /\ tab[b].attached
           /\ tab' = tab /\ rec' = rec /\ shown' = shown /\ sent' = sent
<1>1. shown[b] \in Owings /\ reasons[b] + 1 \in Nat
  BY DEF Typed, Types
<1>2. /\ PublishOwed(b, shown[b], Nothing, sealing[b], reasons[b] + 1) /\ tab[b].here
      /\ reasons' = [reasons EXCEPT ![b] = @ + 1] /\ tab[b].attached
      /\ tab' = tab /\ rec' = rec /\ shown' = shown /\ sent' = sent
  BY DEF ResyncArrives, Opened, Forgotten, AnswersWith, network
<1> QED
  BY <1>1, <1>2, NothingIsOwed, PublishOwedIsARound

LEMMA ReceivesTyped == ASSUME Typed, NEW b \in Side, Receives(b) PROVE Typed'
<1>0. PICK e \in sent : \/ Ignored(b, e) \/ OfferArrives(b, e) \/ ResyncArrives(b, e)
                        \/ \E stale \in 0..2 : ValueArrives(b, e, stale)
  BY ReceivedIs
<1>1. CASE Ignored(b, e)
  <2>1. NetworkTyped'
    BY <1>1, OpenedIsTyped, TypedInParts DEF Ignored, NetworkTyped, network
  <2>2. BrowserTyped' /\ RestTyped'
    BY <1>1, TypedInParts DEF Ignored, BrowserTyped, RestTyped, browser, ghosts
  <2> QED
    BY <1>1, <2>1, <2>2, PartsAreTyped
<1>2. CASE OfferArrives(b, e)
  <2>1. NetworkTyped'
    BY <1>2, OpenedIsTyped, TypedInParts DEF OfferArrives, NetworkTyped, network
  <2>2. BrowserTyped' /\ RestTyped'
    BY <1>2, TypedInParts DEF OfferArrives, BrowserTyped, RestTyped, browser, ghosts
  <2> QED
    BY <1>2, <2>1, <2>2, PartsAreTyped
<1>3. CASE ResyncArrives(b, e)
  <2>1. NetworkTyped'
    BY <1>3, OpenedIsTyped, TypedInParts DEF ResyncArrives, NetworkTyped, network
  <2>2. /\ sealing[b] \in SUBSET Message /\ IsFiniteSet(sealing[b])
        /\ shown[b] \in Owings /\ reasons[b] + 1 \in Nat
    BY DEF Typed, Types, Finite
  <2>3. /\ published' \in [Side -> Owings] /\ sealing' \in [Side -> SUBSET Message]
        /\ \A a \in Side : IsFiniteSet(sealing'[a])
    BY <1>3, <2>2, NothingIsOwed, ResyncArrivesDoes, RoundIsTyped
  <2>4. BrowserTyped'
    BY <1>3, <2>3, TypedInParts DEF ResyncArrives, BrowserTyped
  <2>5. RestTyped'
    BY <1>3, TypedInParts DEF ResyncArrives, RestTyped
  <2> QED
    BY <2>1, <2>4, <2>5, PartsAreTyped
<1>4. CASE \E stale \in 0..2 : ValueArrives(b, e, stale)
  <2>0. PICK stale \in 0..2 : ValueArrives(b, e, stale)
    BY <1>4
  <2>1. NetworkTyped'
    BY <2>0, OpenedIsTyped, TypedInParts DEF ValueArrives, NetworkTyped, network
  <2>2. e.value \in 0..2
    BY DEF Typed, Types, Event
  <2>3. Taken(b, e.value) \in [Side -> Rec]
    BY <2>2, TakenSets
  <2>4. BrowserTyped'
    BY <2>0, <2>3, TypedInParts DEF ValueArrives, BrowserTyped
  <2>5. RestTyped'
    BY <2>0, FaultIsTyped, TypedInParts DEF ValueArrives, RestTyped
  <2> QED
    BY <2>1, <2>4, <2>5, PartsAreTyped
<1> QED
  BY <1>0, <1>1, <1>2, <1>3, <1>4

\* A mistyped hash, and a stake.
LEMMA MistypeHashDoes ==
    ASSUME Typed, MistypeHash
    PROVE  /\ "funds" \in Side /\ rec["funds"].made /\ shown["funds"].terms = 0
           /\ ~rec["funds"].staked /\ rec["funds"].got # 1 /\ rec' \in [Side -> Rec]
           /\ rec'["funds"].got = 1 /\ rec'["funds"].made = rec["funds"].made
           /\ rec'["funds"].staked = rec["funds"].staked
           /\ \A c \in Side \ {"funds"} : rec'[c] = rec[c]
<1>1. rec \in [Side -> Rec] /\ "funds" \in Side
  BY DEF Typed, Types, Side
<1>2. /\ rec["funds"].made /\ shown["funds"].terms = 0 /\ ~rec["funds"].staked
      /\ rec["funds"].got # 1 /\ rec' = [rec EXCEPT !["funds"].got = 1]
  BY DEF MistypeHash
<1>3. rec' \in [Side -> Rec]
  BY <1>1, <1>2 DEF Rec
<1>4. /\ rec'["funds"].got = 1 /\ rec'["funds"].made = rec["funds"].made
      /\ rec'["funds"].staked = rec["funds"].staked
      /\ \A c \in Side \ {"funds"} : rec'[c] = rec[c]
  BY <1>1, <1>2 DEF Rec
<1> QED
  BY <1>1, <1>2, <1>3, <1>4

LEMMA StakeDoes ==
    ASSUME Typed, NEW b \in Side, Stake(b)
    PROVE  /\ rec[b].made /\ ~rec[b].staked /\ (b = "funds" => rec[b].got # 0)
           /\ rec' \in [Side -> Rec] /\ rec'[b].got = rec[b].got /\ rec'[b].made = rec[b].made
           /\ rec'[b].staked /\ \A c \in Side \ {b} : rec'[c] = rec[c]
<1>1. rec \in [Side -> Rec]
  BY DEF Typed, Types
<1> QED
  BY <1>1 DEF Stake, Rec

LEMMA WorldTyped ==
    ASSUME Typed, \/ MistypeHash \/ TurnsLate \/ \E b \in Side : Stake(b)
                  \/ \E e \in served : RelaysLose(e)
    PROVE  Typed'
<1>1. CASE MistypeHash
  <2>1. BrowserTyped'
    BY <1>1, MistypeHashDoes, TypedInParts DEF MistypeHash, BrowserTyped
  <2>2. NetworkTyped' /\ RestTyped'
    BY <1>1, FaultIsTyped, TypedInParts DEF MistypeHash, NetworkTyped, RestTyped, network, inbox
  <2> QED
    BY <2>1, <2>2, PartsAreTyped
<1>2. CASE \E e \in served : RelaysLose(e)
  <2>1. BrowserTyped' /\ RestTyped'
    BY <1>2, FaultIsTyped, TypedInParts DEF RelaysLose, BrowserTyped, RestTyped, browser, inbox
  <2>2. NetworkTyped'
    BY <1>2, TypedInParts DEF RelaysLose, NetworkTyped, inbox
  <2> QED
    BY <2>1, <2>2, PartsAreTyped
<1>3. CASE TurnsLate
  <2>1. BrowserTyped'
    BY <1>3, TypedInParts DEF TurnsLate, BrowserTyped
  <2>2. NetworkTyped' /\ RestTyped'
    BY <1>3, FaultIsTyped, TypedInParts DEF TurnsLate, NetworkTyped, RestTyped, network, inbox
  <2> QED
    BY <2>1, <2>2, PartsAreTyped
<1>4. ASSUME NEW b \in Side, Stake(b) PROVE Typed'
  <2>1. BrowserTyped'
    BY <1>4, StakeDoes, TypedInParts DEF Stake, BrowserTyped
  <2>2. spent' \in 0..Budget
    BY <1>4, SpendIsTyped DEF Stake
  <2>3. NetworkTyped' /\ RestTyped'
    BY <1>4, <2>2, TypedInParts DEF Stake, NetworkTyped, RestTyped, network, inbox
  <2> QED
    BY <2>1, <2>3, PartsAreTyped
<1> QED
  BY <1>1, <1>2, <1>3, <1>4

LEMMA NextTyped == ASSUME Typed, [Next]_vars PROVE Typed'
<1>1. CASE UNCHANGED vars
  BY <1>1 DEF vars, browser, network, inbox, ghosts, Typed, Types, Finite
<1>2. CASE Next
  BY <1>2, WorldTyped, JoinTyped, CreateSwapTyped, AttachTyped, ListReloadsTyped, LeaveTyped,
     PressTyped, SentTyped, NotSentTyped, ReceivesTyped DEF Next, Seals
<1> QED
  BY <1>1, <1>2

----------------------------------------------------------------------------
(* Copies. *)

SeenValues(b) == {e \in seen[b] : e.type = "terms"}

LEMMA SeenIsFinite ==
    ASSUME Typed, NEW b \in Side
    PROVE  IsFiniteSet(seen[b]) /\ IsFiniteSet(SeenValues(b)) /\ Cardinality(SeenValues(b)) \in Nat
<1>1. seen[b] \in SUBSET sent /\ SeenValues(b) \in SUBSET sent
  BY DEF Typed, Types, SeenValues
<1>2. IsFiniteSet(seen[b]) /\ IsFiniteSet(SeenValues(b))
  BY <1>1, FS_Subset DEF Typed, Finite
<1> QED
  BY <1>2, FS_CardinalityType

\* A copy that is accepted was not seen, so one more event is seen, at most one
\* of them applied.
LEMMA OpenedCounts ==
    ASSUME Typed, NEW b \in Side, NEW e \in sent, Opened(b, e), Accepts(b, e)
    PROVE  /\ \A c \in Side \ {b} : SeenValues(c)' = SeenValues(c)
           /\ Cardinality(SeenValues(b)') =
                Cardinality(SeenValues(b)) + IF e.type = "terms" THEN 1 ELSE 0
<1>1. seen \in [Side -> SUBSET sent]
  BY DEF Typed, Types
<1>2. \A c \in Side \ {b} : SeenValues(c)' = SeenValues(c)
  BY <1>1 DEF Opened, SeenValues
<1>3. seen'[b] = seen[b] \cup {e} /\ e \notin seen[b]
  BY <1>1 DEF Opened, Accepts
<1>4. SeenValues(b)' = IF e.type = "terms" THEN SeenValues(b) \cup {e} ELSE SeenValues(b)
  BY <1>3 DEF SeenValues
<1>5. e \notin SeenValues(b)
  BY <1>3 DEF SeenValues
<1>6. Cardinality(SeenValues(b) \cup {e}) = Cardinality(SeenValues(b)) + 1
  BY <1>5, SeenIsFinite, FS_AddElement
<1> QED
  BY <1>2, <1>4, <1>6, SeenIsFinite

LEMMA CopiesInParts ==
    CopiesApplyOnce <=> \A b \in Side : applied[b] <= Cardinality(SeenValues(b))
BY DEF CopiesApplyOnce, SeenValues

LEMMA ReceivesCounts ==
    ASSUME Typed, NEW b \in Side, Receives(b), \A c \in Side : applied[c] <= Cardinality(SeenValues(c))
    PROVE  \A c \in Side : applied'[c] <= Cardinality(SeenValues(c)')
<1>1. PICK e \in sent : \/ Ignored(b, e) \/ OfferArrives(b, e) \/ ResyncArrives(b, e)
                        \/ \E stale \in 0..2 : ValueArrives(b, e, stale)
  BY ReceivedIs
<1>2. Opened(b, e) /\ Accepts(b, e)
  BY <1>1 DEF Ignored, OfferArrives, ResyncArrives, ValueArrives
<1>3. applied \in [Side -> Nat] /\ \A c \in Side : Cardinality(SeenValues(c)) \in Nat
  BY SeenIsFinite DEF Typed, Types
<1>4. \/ applied' = applied
      \/ e.type = "terms" /\ applied' = [applied EXCEPT ![b] = @ + 1]
  BY <1>1 DEF Ignored, OfferArrives, ResyncArrives, ValueArrives
<1> QED
  BY <1>2, <1>3, <1>4, OpenedCounts

\* The steps that receive nothing leave both counts, or begin them again.
LEMMA OthersCount ==
    ASSUME Typed, [Next]_vars, \A b \in Side : ~Receives(b),
           \A b \in Side : applied[b] <= Cardinality(SeenValues(b))
    PROVE  \A b \in Side : applied'[b] <= Cardinality(SeenValues(b)')
<1>1. CASE \E b \in Side : Join(b)
  <2>1. PICK b \in Side : Join(b)
    BY <1>1
  <2>2. /\ applied'[b] = 0 /\ seen'[b] = {}
        /\ \A c \in Side \ {b} : applied'[c] = applied[c] /\ seen'[c] = seen[c]
    BY <2>1 DEF Join, Typed, Types
  <2>3. SeenValues(b)' = {} /\ \A c \in Side \ {b} : SeenValues(c)' = SeenValues(c)
    BY <2>2 DEF SeenValues
  <2> QED
    BY <2>2, <2>3, FS_EmptySet
<1>2. CASE UNCHANGED <<applied, seen>>
  BY <1>2 DEF SeenValues
<1> QED
  BY <1>1, <1>2 DEF Next, Seals, Sent, NotSent, CreateSwap, Attach, ListReloads, Leave, Press,
     MistypeHash, TurnsLate, Stake, RelaysLose, vars, inbox

\* However many copies come, and however their verifications overlap, a value is
\* applied once in a stay (nostr.ts deliver, useSession.ts receive).
THEOREM CopiesAreAppliedOnce == Spec => []CopiesApplyOnce
<1>1. Init => \A b \in Side : applied[b] <= Cardinality(SeenValues(b))
  <2> SUFFICES ASSUME Init, NEW b \in Side PROVE applied[b] <= Cardinality(SeenValues(b))
    OBVIOUS
  <2>1. applied[b] = 0 /\ SeenValues(b) = {}
    BY DEF Init, SeenValues
  <2> QED
    BY <2>1, FS_EmptySet
<1>2. Typed /\ CopiesApplyOnce /\ [Next]_vars => CopiesApplyOnce'
  <2> SUFFICES ASSUME Typed, CopiesApplyOnce, [Next]_vars PROVE CopiesApplyOnce'
    OBVIOUS
  <2>1. \A b \in Side : applied[b] <= Cardinality(SeenValues(b))
    BY CopiesInParts
  <2>2. \A b \in Side : applied'[b] <= Cardinality(SeenValues(b)')
    BY <2>1, ReceivesCounts, OthersCount
  <2> QED
    BY <2>2 DEF CopiesApplyOnce, SeenValues
<1>3. Init => Typed /\ CopiesApplyOnce
  BY <1>1, InitTyped, CopiesInParts
<1>4. Typed /\ [Next]_vars => Typed'
  BY NextTyped
<1> QED
  BY <1>2, <1>3, <1>4, PTL DEF Spec

----------------------------------------------------------------------------
(* Claims. *)

\* What stands for a value v of key k that counts as sent by b: its message among m,
\* or an event of it, of its replacement, or without it, among those given, for
\* reason n.
Stands(b, k, v, m, n, events) ==
    \/ \E x \in OfKey(k, m) : x.reason = n
    \/ \E e \in events : /\ e.by = b /\ e.type = k /\ e.reason = n
                         /\ e.value >= v \/ (k = "stake" /\ e.value = 0)

Rebuilt(b, k) == IF b = "funds" /\ k = "terms" /\ shown[b].terms = 2 THEN 1 ELSE 0
Unclaimed(b, k) == IF tab[b].here /\ published[b][k] = 0 THEN 1 ELSE 0

\* A message that b is sealing is of a swap it has; its terms are in its list, and so
\* is the stake its round goes on to.
Grounded(b, m) ==
    /\ m.type \in Key => rec[b].made
    /\ m.type = "terms" => m.value # 0 /\ shown[b].terms # 0
    /\ m.rest \in {0, shown[b].stake}

\* Side b: what it remembers is what its list shows, or nothing; its list is never
\* ahead of its record; it remembers nothing outside the room, and of a swap that is
\* not attached at most a stake, which the rest of an older round claimed.
Steady(b) ==
    /\ tab[b].attached => rec[b].made
    /\ rec[b].staked => rec[b].made
    /\ \A k \in Key : published[b][k] \in {0, shown[b][k]} /\ shown[b][k] <= Owed(b)[k]
    /\ b = "receives" => shown[b].terms # 1
    /\ ~InSession(b) => published[b].terms = 0
    /\ ~tab[b].here => published[b].stake = 0
    /\ \A m \in sealing[b] : Grounded(b, m)

\* The strengthening of ClaimsWereSent and SaidOncePerReason: what is said and what
\* is about to be, and one that may still be where nothing is claimed, have their
\* reasons.
Backed(b, k) ==
    published[b][k] = 0 \/ Stands(b, k, published[b][k], sealing[b], reasons[b], sent)
Tallied(b, k) ==
    Cardinality(Said(b, k)) + Cardinality(OfKey(k, sealing[b])) + Unclaimed(b, k)
      <= reasons[b] + Rebuilt(b, k)

Holds(b) == Steady(b) /\ \A k \in Key : Backed(b, k) /\ Tallied(b, k)

\* The hash a side receives by is its own.
HashesAreRight == \A e \in sent : e.by = "receives" /\ e.type = "terms" => e.value = 2

SessionInv == Typed /\ HashesAreRight /\ \A b \in Side : Holds(b)

LEMMA AddingCounts ==
    ASSUME NEW S, NEW x, IsFiniteSet(S)
    PROVE  Cardinality(S \cup {x}) <= Cardinality(S) + 1 /\ Cardinality(S \cup {x}) \in Nat
<1>1. Cardinality(S) \in Nat
  BY FS_CardinalityType
<1> QED
  BY <1>1, FS_AddElement

LEMMA SaidIsFinite ==
    ASSUME Typed, NEW b \in Side, NEW k \in Key
    PROVE  IsFiniteSet(Said(b, k)) /\ Cardinality(Said(b, k)) \in Nat
<1>1. Said(b, k) \in SUBSET sent
  BY DEF Said
<1>2. IsFiniteSet(Said(b, k))
  BY <1>1, FS_Subset DEF Typed, Finite
<1> QED
  BY <1>2, FS_CardinalityType

LEMMA SaidStaysFinite ==
    ASSUME Typed', NEW b \in Side, NEW k \in Key
    PROVE  IsFiniteSet(Said(b, k)') /\ Cardinality(Said(b, k)') \in Nat
<1>1. Said(b, k)' \in SUBSET sent'
  BY DEF Said
<1>2. IsFiniteSet(Said(b, k)')
  BY <1>1, FS_Subset DEF Typed, Finite
<1> QED
  BY <1>2, FS_CardinalityType

LEMMA OfKeyIsFinite ==
    ASSUME NEW m, IsFiniteSet(m), NEW k
    PROVE  IsFiniteSet(OfKey(k, m)) /\ Cardinality(OfKey(k, m)) \in Nat
<1>1. OfKey(k, m) \in SUBSET m
  BY DEF OfKey
<1> QED
  BY <1>1, FS_Subset, FS_CardinalityType

\* A step that is about another side leaves this one's part of the invariant.
LEMMA UntouchedHolds ==
    ASSUME NEW b \in Side, Holds(b), tab'[b] = tab[b], rec'[b] = rec[b], shown'[b] = shown[b],
           published'[b] = published[b], sealing'[b] = sealing[b], reasons'[b] = reasons[b],
           sent \subseteq sent', \A k \in Key : Said(b, k)' = Said(b, k)
    PROVE  Holds(b)'
<1>1. Steady(b)'
  BY DEF Holds, Steady, Owed, InSession, Grounded
<1>2. ASSUME NEW k \in Key PROVE Backed(b, k)'
  BY <1>2 DEF Holds, Backed, Stands, OfKey
<1>3. ASSUME NEW k \in Key PROVE Tallied(b, k)'
  BY <1>3 DEF Holds, Tallied, OfKey, Unclaimed, Rebuilt
<1> QED
  BY <1>1, <1>2, <1>3 DEF Holds

\* What a round makes of one key.
LEMMA RoundByKey ==
    ASSUME Typed, NEW b \in Side, NEW list \in Owings, NEW c \in Owings,
           NEW m \in SUBSET Message, IsFiniteSet(m), NEW n \in Nat, Round(b, list, c, m, n),
           NEW k \in Key
    PROVE  \/ /\ published'[b][k] = c[k] /\ OfKey(k, sealing'[b]) = OfKey(k, m)
              /\ k = "terms" => list.terms \in {0, c.terms}
           \/ /\ list[k] \notin {0, c[k]} /\ published'[b][k] = list[k] /\ tab[b].here
              /\ \E x \in Message : x.type = k /\ x.reason = n
                                     /\ OfKey(k, sealing'[b]) = OfKey(k, m) \cup {x}
<1>1. CASE list.terms \in {0, c.terms} /\ Keeps(b, c, m)
  <2>1. published'[b] = c /\ sealing'[b] = m
    BY <1>1, KeepsIsTyped
  <2> QED
    BY <1>1, <2>1
<1>2. ASSUME NEW j \in Key, NEW x \in Message, HandsOff(b, list, c, m, n, j, x)
      PROVE  \/ /\ published'[b][k] = c[k] /\ OfKey(k, sealing'[b]) = OfKey(k, m)
                /\ k = "terms" => list.terms \in {0, c.terms}
             \/ /\ list[k] \notin {0, c[k]} /\ published'[b][k] = list[k] /\ tab[b].here
                /\ \E y \in Message : y.type = k /\ y.reason = n
                                       /\ OfKey(k, sealing'[b]) = OfKey(k, m) \cup {y}
  <2>1. /\ tab[b].here /\ list[j] \notin {0, c[j]} /\ (j = "terms" \/ list.terms \in {0, c.terms})
        /\ x.type = j /\ x.reason = n /\ Keeps(b, Claim(j, list[j], c), m \cup {x})
    BY <1>2 DEF HandsOff
  <2>2. list[j] \in 0..2 /\ (j = "stake" => list[j] \in 0..1)
    BY KeysOf
  <2>3. /\ Claim(j, list[j], c) \in Owings /\ Claim(j, list[j], c)[j] = list[j]
        /\ \A i \in Key \ {j} : Claim(j, list[j], c)[i] = c[i]
    BY <2>2, ClaimSets
  <2>4. m \cup {x} \in SUBSET Message /\ IsFiniteSet(m \cup {x})
    BY FS_AddElement
  <2>5. published'[b] = Claim(j, list[j], c) /\ sealing'[b] = m \cup {x}
    BY <2>1, <2>3, <2>4, KeepsIsTyped
  <2>6. CASE k = j
    <3>1. OfKey(k, sealing'[b]) = OfKey(k, m) \cup {x}
      BY <2>1, <2>5, <2>6 DEF OfKey
    <3> QED
      BY <2>1, <2>3, <2>5, <2>6, <3>1
  <2>7. CASE k # j
    <3>1. OfKey(k, sealing'[b]) = OfKey(k, m)
      BY <2>1, <2>5, <2>7 DEF OfKey
    <3>2. published'[b][k] = c[k]
      BY <2>3, <2>5, <2>7
    <3>3. k = "terms" => list.terms \in {0, c.terms}
      BY <2>1, <2>7
    <3> QED
      BY <3>1, <3>2, <3>3
  <2> QED
    BY <2>6, <2>7
<1> QED
  BY <1>1, <1>2 DEF Round

\* A round over a list that is what the page shows, or less, keeps the tally of a key
\* where its claim c has room for what the round may say.
Room(b, k, list, c, m, events, n, rebuilt) ==
    LET said == Cardinality({e \in events : e.by = b /\ e.type = k}) + Cardinality(OfKey(k, m))
    IN  \/ c[k] = 0 /\ said + (IF tab[b].here THEN 1 ELSE 0) <= n + rebuilt
        \/ c[k] # 0 /\ list[k] \in {0, c[k]} /\ said <= n + rebuilt
        \/ c[k] # 0 /\ list[k] = 2 /\ rebuilt = 1 /\ said <= n

LEMMA RoundTallies ==
    ASSUME Typed, Typed', NEW b \in Side, NEW list \in Owings, NEW c \in Owings,
           NEW m \in SUBSET Message, IsFiniteSet(m), Round(b, list, c, m, reasons'[b]),
           tab'[b].here = tab[b].here, NEW k \in Key,
           Room(b, k, list, c, m, sent', reasons'[b], Rebuilt(b, k)')
    PROVE  Tallied(b, k)'
<1> DEFINE S == Cardinality(Said(b, k)')
           V == Cardinality(OfKey(k, m))
           W == Cardinality(OfKey(k, sealing'[b]))
           R == Rebuilt(b, k)'
           n == reasons'[b]
<1>1. S \in Nat /\ IsFiniteSet(OfKey(k, m)) /\ V \in Nat
  BY SaidStaysFinite, OfKeyIsFinite
<1>2. n \in Nat /\ R \in {0, 1} /\ c[k] \in 0..2 /\ list[k] \in 0..2
  <2>1. n \in Nat
    BY DEF Typed, Types
  <2>2. R \in {0, 1}
    BY DEF Rebuilt
  <2> QED
    BY <2>1, <2>2, KeysOf
<1>3. \/ c[k] = 0 /\ S + V + (IF tab[b].here THEN 1 ELSE 0) <= n + R
      \/ c[k] # 0 /\ list[k] \in {0, c[k]} /\ S + V <= n + R
      \/ c[k] # 0 /\ list[k] = 2 /\ R = 1 /\ S + V <= n
  BY DEF Room, Said
<1>4. Unclaimed(b, k)' = IF tab[b].here /\ published'[b][k] = 0 THEN 1 ELSE 0
  BY DEF Unclaimed
<1>5. \/ published'[b][k] = c[k] /\ W = V
      \/ /\ list[k] \notin {0, c[k]} /\ published'[b][k] = list[k] /\ tab[b].here
         /\ W \in Nat /\ W <= V + 1
  <2>1. ASSUME NEW x, OfKey(k, sealing'[b]) = OfKey(k, m) \cup {x}
        PROVE  W \in Nat /\ W <= V + 1
    BY <1>1, <2>1, AddingCounts
  <2>2. n \in Nat
    BY <1>2
  <2>3. \/ /\ published'[b][k] = c[k] /\ OfKey(k, sealing'[b]) = OfKey(k, m)
           /\ k = "terms" => list.terms \in {0, c.terms}
        \/ /\ list[k] \notin {0, c[k]} /\ published'[b][k] = list[k] /\ tab[b].here
           /\ \E x \in Message : x.type = k /\ x.reason = n
                                  /\ OfKey(k, sealing'[b]) = OfKey(k, m) \cup {x}
    BY <2>2, RoundByKey
  <2> QED
    BY <2>1, <2>3
<1>6. S + W + Unclaimed(b, k)' <= n + R
  <2> HIDE DEF S, V, W, R, n
  <2>1. CASE published'[b][k] = c[k] /\ W = V
    BY <1>1, <1>2, <1>3, <1>4, <2>1
  <2>2. CASE /\ list[k] \notin {0, c[k]} /\ published'[b][k] = list[k] /\ tab[b].here
             /\ W \in Nat /\ W <= V + 1
    <3>1. Unclaimed(b, k)' = 0
      BY <1>4, <2>2
    <3> QED
      BY <1>1, <1>2, <1>3, <2>2, <3>1
  <2> QED
    BY <1>5, <2>1, <2>2
<1>7. OfKey(k, sealing[b])' = OfKey(k, sealing'[b])
  BY DEF OfKey
<1> QED
  BY <1>6, <1>7 DEF Tallied

\* A round keeps the whole of a side's part of the invariant, where the state it ends
\* in lets it: what it goes by, list, claims c and messages m, agrees with the page.
LEMMA RoundHolds ==
    ASSUME Typed, Typed', NEW b \in Side, NEW list \in Owings, NEW c \in Owings,
           NEW m \in SUBSET Message, IsFiniteSet(m), Round(b, list, c, m, reasons'[b]),
           tab'[b].here = tab[b].here,
           tab'[b].attached => rec'[b].made, rec'[b].staked => rec'[b].made,
           ~InSession(b)' => c.terms = 0 /\ list.terms = 0,
           ~tab'[b].here => c.stake = 0,
           \A k \in Key : shown'[b][k] <= Owed(b)'[k], b = "receives" => shown'[b].terms # 1,
           \A k \in Key : list[k] \in {0, shown'[b][k]},
           \A k \in Key : c[k] \in {0, shown'[b][k]} \/ (k = "terms" /\ list[k] \notin {0, c[k]}),
           \A x \in m : Grounded(b, x)',
           \A k \in Key : c[k] = 0 \/ Stands(b, k, c[k], m, reasons'[b], sent'),
           \A k \in Key : Room(b, k, list, c, m, sent', reasons'[b], Rebuilt(b, k)')
    PROVE  Holds(b)'
<1> DEFINE n == reasons'[b]
<1>1. n \in Nat /\ Owed(b)' \in Owings /\ shown'[b] \in Owings
  <2>1. rec'[b] \in Rec
    BY DEF Typed, Types
  <2> QED
    BY <2>1 DEF Typed, Types, Owed, Owings, Rec
<1>2. \A k \in Key :
        \/ /\ published'[b][k] = c[k] /\ OfKey(k, sealing'[b]) = OfKey(k, m)
           /\ k = "terms" => list.terms \in {0, c.terms}
        \/ /\ list[k] \notin {0, c[k]} /\ published'[b][k] = list[k] /\ tab[b].here
           /\ \E x \in Message : x.type = k /\ x.reason = n
                                  /\ OfKey(k, sealing'[b]) = OfKey(k, m) \cup {x}
  BY <1>1, RoundByKey
<1>3. \A k \in Key : list[k] \in 0..2 /\ c[k] \in 0..2 /\ shown'[b][k] \in 0..2
  BY <1>1, KeysOf
<1>4. "terms" \in Key /\ "stake" \in Key
  BY DEF Key
<1>5. /\ list["terms"] = list.terms /\ list["stake"] = list.stake
      /\ c["terms"] = c.terms /\ c["stake"] = c.stake
      /\ shown'[b]["terms"] = shown'[b].terms /\ shown'[b]["stake"] = shown'[b].stake
      /\ published'[b]["terms"] = published'[b].terms /\ published'[b]["stake"] = published'[b].stake
  OBVIOUS
\* A swap something is owed for is there.
<1>6. ASSUME NEW k \in Key, list[k] # 0 PROVE rec'[b].made
  <2>1. Owed(b)'[k] # 0
    <3>1. \A j \in Key : Owed(b)'[j] \in 0..2
      BY <1>1, KeysOf
    <3> QED
      BY <1>3, <1>6, <3>1
  <2> QED
    BY <1>6, <2>1 DEF Owed, Key
<1>7. \A k \in Key : published'[b][k] \in {0, shown'[b][k]}
  <2> SUFFICES ASSUME NEW k \in Key PROVE published'[b][k] \in {0, shown'[b][k]}
    OBVIOUS
  <2>1. CASE published'[b][k] = list[k]
    BY <2>1
  <2>2. CASE published'[b][k] = c[k] /\ (k = "terms" => list.terms \in {0, c.terms})
    BY <1>5, <2>2
  <2> QED
    BY <1>2, <2>1, <2>2
<1>8. \A x \in sealing'[b] : Grounded(b, x)'
  <2>1. CASE sealing'[b] = m
    BY <2>1
  <2>2. ASSUME NEW k \in Key, NEW x \in Message, HandsOff(b, list, c, m, n, k, x)
        PROVE  sealing'[b] = m \cup {x} /\ Grounded(b, x)'
    <3>1. /\ list[k] \notin {0, c[k]} /\ x.type = k /\ (k = "terms" => x.value # 0)
          /\ x.rest \in {0, list.stake} /\ Keeps(b, Claim(k, list[k], c), m \cup {x})
      BY <2>2 DEF HandsOff
    <3>2. sealing'[b] = m \cup {x}
      <4>1. sealing \in [Side -> SUBSET Message]
        BY DEF Typed, Types
      <4> QED
        BY <3>1, <4>1 DEF Keeps
    <3>3. rec'[b].made
      BY <1>6, <3>1
    <3>4. x.type = "terms" => x.value # 0 /\ shown'[b].terms # 0
      BY <1>4, <1>5, <3>1
    <3>5. x.rest \in {0, shown'[b].stake}
      BY <1>4, <1>5, <3>1
    <3> QED
      BY <3>2, <3>3, <3>4, <3>5 DEF Grounded
  <2>3. CASE Keeps(b, c, m)
    BY <2>1, <2>3, KeepsIsTyped
  <2> QED
    BY <2>2, <2>3 DEF Round
<1>9. ~InSession(b)' => published'[b].terms = 0
  BY <1>2, <1>4, <1>5
<1>10. ~tab'[b].here => published'[b].stake = 0
  BY <1>2, <1>4, <1>5
<1>11. Steady(b)'
  BY <1>7, <1>8, <1>9, <1>10 DEF Steady
<1>12. ASSUME NEW k \in Key PROVE Backed(b, k)'
  <2>1. CASE published'[b][k] = c[k] /\ OfKey(k, sealing'[b]) = OfKey(k, m)
    BY <2>1 DEF Backed, Stands
  <2>2. ASSUME NEW x, x.reason = n, OfKey(k, sealing'[b]) = OfKey(k, m) \cup {x}
        PROVE  Backed(b, k)'
    BY <2>2 DEF Backed, Stands
  <2> QED
    BY <1>2, <2>1, <2>2
<1>13. ASSUME NEW k \in Key PROVE Tallied(b, k)'
  BY <1>13, RoundTallies
<1> QED
  BY <1>11, <1>12, <1>13 DEF Holds

\* The facts of one side that its steps' proofs go by, and of one of its keys.
LEMMA SideFacts ==
    ASSUME SessionInv, NEW b \in Side
    PROVE  /\ Typed /\ Holds(b) /\ Steady(b) /\ \A k \in Key : Backed(b, k) /\ Tallied(b, k)
           /\ published[b] \in Owings /\ shown[b] \in Owings /\ Owed(b) \in Owings
           /\ reasons[b] \in Nat
           /\ sealing[b] \in SUBSET Message /\ IsFiniteSet(sealing[b])
           /\ tab \in [Side -> Tab] /\ rec \in [Side -> Rec]
           /\ published \in [Side -> Owings] /\ shown \in [Side -> Owings]
           /\ sealing \in [Side -> SUBSET Message] /\ reasons \in [Side -> Nat]
<1>1. Typed /\ Holds(b)
  BY DEF SessionInv
<1> QED
  BY <1>1, OwedIsTyped DEF Holds, Typed, Types, Finite

LEMMA KeyFacts ==
    ASSUME SessionInv, NEW b \in Side, NEW k \in Key
    PROVE  /\ published[b][k] \in 0..2 /\ shown[b][k] \in 0..2 /\ Owed(b)[k] \in 0..2
           /\ published[b][k] \in {0, shown[b][k]} /\ shown[b][k] <= Owed(b)[k]
           /\ reasons[b] \in Nat
           /\ Cardinality(Said(b, k)) \in Nat
           /\ IsFiniteSet(OfKey(k, sealing[b])) /\ Cardinality(OfKey(k, sealing[b])) \in Nat
           /\ Unclaimed(b, k) \in {0, 1} /\ Rebuilt(b, k) \in {0, 1}
           /\ Cardinality(Said(b, k)) + Cardinality(OfKey(k, sealing[b])) + Unclaimed(b, k)
                <= reasons[b] + Rebuilt(b, k)
<1>1. /\ Typed /\ Steady(b) /\ Tallied(b, k) /\ reasons[b] \in Nat /\ IsFiniteSet(sealing[b])
      /\ published[b] \in Owings /\ shown[b] \in Owings /\ Owed(b) \in Owings
  BY SideFacts
<1>2. published[b][k] \in 0..2 /\ shown[b][k] \in 0..2 /\ Owed(b)[k] \in 0..2
  BY <1>1, KeysOf
<1>3. published[b][k] \in {0, shown[b][k]} /\ shown[b][k] <= Owed(b)[k]
  BY <1>1 DEF Steady
<1>4. Unclaimed(b, k) \in {0, 1} /\ Rebuilt(b, k) \in {0, 1}
  BY DEF Unclaimed, Rebuilt
<1>5. Cardinality(Said(b, k)) \in Nat
  BY <1>1, SaidIsFinite
<1>6. IsFiniteSet(OfKey(k, sealing[b])) /\ Cardinality(OfKey(k, sealing[b])) \in Nat
  BY <1>1, OfKeyIsFinite
<1> QED
  BY <1>1, <1>2, <1>3, <1>4, <1>5, <1>6 DEF Tallied

\* What a list shows, the record still owes.
LEMMA ListIsOwed ==
    ASSUME SessionInv, NEW b \in Side
    PROVE  /\ shown[b].stake \in {0, Owed(b).stake}
           /\ shown[b].terms # 0 => Owed(b).terms # 0
           /\ shown[b].terms = 2 => Owed(b).terms = 2
           /\ b = "receives" => Owed(b).terms # 1
<1>1. /\ shown[b].stake \in 0..1 /\ Owed(b).stake \in 0..1
      /\ shown[b].terms \in 0..2 /\ Owed(b).terms \in 0..2
  BY SideFacts, KeysOf
<1>2. shown[b].stake <= Owed(b).stake /\ shown[b].terms <= Owed(b).terms
  <2>1. "stake" \in Key /\ "terms" \in Key
    BY DEF Key
  <2>2. shown[b]["stake"] <= Owed(b)["stake"] /\ shown[b]["terms"] <= Owed(b)["terms"]
    BY <2>1, KeyFacts
  <2> QED
    BY <2>2
<1>3. b = "receives" => Owed(b).terms # 1
  BY DEF Owed
<1> QED
  BY <1>1, <1>2, <1>3

\* What a swap that is not made shows, claims and seals: nothing.
LEMMA NothingBefore ==
    ASSUME SessionInv, NEW b \in Side, ~rec[b].made
    PROVE  /\ ~rec[b].staked /\ shown[b].terms = 0 /\ shown[b].stake = 0
           /\ \A k \in Key : published[b][k] = 0
<1>1. ~rec[b].staked
  BY SideFacts DEF Steady
<1>2. \A k \in Key : Owed(b)[k] = 0
  BY <1>1 DEF Owed, Key
<1>3. \A k \in Key : shown[b][k] = 0 /\ published[b][k] = 0
  <2> SUFFICES ASSUME NEW k \in Key PROVE shown[b][k] = 0 /\ published[b][k] = 0
    OBVIOUS
  <2>1. shown[b][k] \in 0..2 /\ shown[b][k] <= Owed(b)[k] /\ published[b][k] \in {0, shown[b][k]}
    BY KeyFacts
  <2> QED
    BY <1>2, <2>1
<1>4. shown[b]["terms"] = 0 /\ shown[b]["stake"] = 0
  BY <1>3 DEF Key
<1> QED
  BY <1>1, <1>3, <1>4

LEMMA GroundedAfter ==
    ASSUME NEW b, NEW x, Grounded(b, x), rec[b].made => rec'[b].made,
           shown[b].terms # 0 => shown'[b].terms # 0, shown[b].stake \in {0, shown'[b].stake}
    PROVE  Grounded(b, x)'
BY DEF Grounded

\* The room that a key's claim has where nothing was said or forgotten.
LEMMA RoomKept ==
    ASSUME SessionInv, NEW b \in Side, NEW k \in Key, NEW list,
           Said(b, k)' = Said(b, k), reasons'[b] = reasons[b],
           Rebuilt(b, k)' \in {0, 1}, Rebuilt(b, k) <= Rebuilt(b, k)',
           \/ published[b][k] = 0 \/ list[k] \in {0, published[b][k]}
           \/ list[k] = 2 /\ Rebuilt(b, k) = 0 /\ Rebuilt(b, k)' = 1
    PROVE  Room(b, k, list, published[b], sealing[b], sent', reasons'[b], Rebuilt(b, k)')
<1> DEFINE S == Cardinality(Said(b, k))
           W == Cardinality(OfKey(k, sealing[b]))
           R == Rebuilt(b, k)'
<1>1. /\ S \in Nat /\ W \in Nat /\ reasons[b] \in Nat /\ Rebuilt(b, k) \in {0, 1}
      /\ S + W + Unclaimed(b, k) <= reasons[b] + Rebuilt(b, k)
  BY KeyFacts
<1>2. Unclaimed(b, k) = IF tab[b].here /\ published[b][k] = 0 THEN 1 ELSE 0
  BY DEF Unclaimed
<1>3. Cardinality({e \in sent' : e.by = b /\ e.type = k}) = S
  BY DEF Said
<1> HIDE DEF S, W, R
<1>4. \/ published[b][k] = 0 /\ S + W + (IF tab[b].here THEN 1 ELSE 0) <= reasons[b] + R
      \/ published[b][k] # 0 /\ list[k] \in {0, published[b][k]} /\ S + W <= reasons[b] + R
      \/ published[b][k] # 0 /\ list[k] = 2 /\ R = 1 /\ S + W <= reasons[b]
  <2>0. R \in {0, 1} /\ Rebuilt(b, k) <= R
    BY DEF R
  <2>1. CASE published[b][k] = 0
    BY <1>1, <1>2, <2>0, <2>1
  <2>2. CASE published[b][k] # 0 /\ list[k] \in {0, published[b][k]}
    BY <1>1, <1>2, <2>0, <2>2
  <2>3. CASE published[b][k] # 0 /\ list[k] = 2 /\ Rebuilt(b, k) = 0 /\ R = 1
    BY <1>1, <1>2, <2>0, <2>3
  <2> QED
    BY <2>1, <2>2, <2>3 DEF R
<1> QED
  BY <1>3, <1>4 DEF Room, W, R

\* What one more event says, and for whom.
LEMMA SealedSays ==
    ASSUME Typed, NEW b \in Side, NEW m \in Message, sent' = sent \cup {Sealed(b, m)}
    PROVE  /\ Sealed(b, m).by = b /\ Sealed(b, m).type = m.type /\ Sealed(b, m).reason = m.reason
           /\ m.type \in Key => Sealed(b, m).value = IF m.value # 0 THEN Owed(b)[m.type] ELSE 0
           /\ \A c \in Side \ {b}, k \in Key : Said(c, k)' = Said(c, k)
           /\ \A k \in Key : Said(b, k)' =
                IF m.type = k THEN Said(b, k) \cup {Sealed(b, m)} ELSE Said(b, k)
<1> DEFINE e == Sealed(b, m)
<1>1. /\ e.by = b /\ e.type = m.type /\ e.reason = m.reason
      /\ m.type \in Key => e.value = IF m.value # 0 THEN Owed(b)[m.type] ELSE 0
  BY DEF Sealed
<1> HIDE DEF e
<1>2. sent' = sent \cup {e}
  BY DEF e
<1>3. \A c \in Side \ {b}, k \in Key : Said(c, k)' = Said(c, k)
  BY <1>1, <1>2 DEF Said
<1>4. \A k \in Key : Said(b, k)' = IF m.type = k THEN Said(b, k) \cup {e} ELSE Said(b, k)
  BY <1>1, <1>2 DEF Said
<1> QED
  BY <1>1, <1>3, <1>4 DEF e

LEMMA JoinHolds == ASSUME SessionInv, NEW b \in Side, Join(b) PROVE Holds(b)'
<1>1. /\ tab'[b].attached = FALSE /\ published'[b] = Nothing /\ reasons'[b] = reasons[b] + 1
      /\ shown' = shown /\ rec' = rec /\ sealing' = sealing /\ sent' = sent
  BY SideFacts DEF Join, network, Tab
<1>2. Nothing.terms = 0 /\ Nothing.stake = 0 /\ \A k \in Key : Nothing[k] = 0
  BY DEF Nothing, Key
<1>3. Owed(b)' = Owed(b) /\ \A m \in sealing[b] : Grounded(b, m)' <=> Grounded(b, m)
  BY <1>1 DEF Owed, Grounded
<1>4. Steady(b)'
  BY <1>1, <1>2, <1>3, SideFacts DEF Steady
<1>5. ASSUME NEW k \in Key PROVE Backed(b, k)' /\ Tallied(b, k)'
  <2>1. Backed(b, k)'
    BY <1>1, <1>2 DEF Backed
  <2>2. Said(b, k)' = Said(b, k) /\ OfKey(k, sealing[b])' = OfKey(k, sealing[b])
        /\ Rebuilt(b, k)' = Rebuilt(b, k)
    BY <1>1 DEF Said, OfKey, Rebuilt
  <2>3. Unclaimed(b, k)' \in {0, 1}
    BY DEF Unclaimed
  <2>4. Tallied(b, k)'
    BY <1>1, <2>2, <2>3, KeyFacts DEF Tallied
  <2> QED
    BY <2>1, <2>4
<1> QED
  BY <1>4, <1>5 DEF Holds

\* A list that was read again, and what else is left behind, out of the session.
LEMMA LeaveHolds ==
    ASSUME SessionInv, NEW b \in Side, NEW reloaded \in BOOLEAN, Leave(b, reloaded)
    PROVE  Holds(b)'
<1>0. /\ tab \in [Side -> Tab] /\ shown \in [Side -> Owings]
      /\ published \in [Side -> Owings] /\ sealing \in [Side -> SUBSET Message]
  BY SideFacts
<1>1. /\ tab'[b].here = FALSE /\ (tab'[b].attached => tab[b].attached)
      /\ published'[b] = Nothing /\ reasons' = reasons /\ rec' = rec /\ sent' = sent
      /\ shown'[b] \in {shown[b], Owed(b)} /\ sealing'[b] \in {{}, sealing[b]}
  <2>1. tab'[b].here = FALSE /\ (tab'[b].attached => tab[b].attached)
    BY <1>0 DEF Leave, Tab
  <2> QED
    BY <1>0, <2>1 DEF Leave, network
<1>2. Nothing.terms = 0 /\ Nothing.stake = 0 /\ \A k \in Key : Nothing[k] = 0
  BY DEF Nothing, Key
<1>3. Owed(b)' = Owed(b)
  BY <1>1 DEF Owed
<1>4. /\ shown[b].terms # 0 => shown'[b].terms # 0
      /\ shown[b].stake \in {0, shown'[b].stake}
      /\ shown[b].terms = 2 => shown'[b].terms = 2
      /\ b = "receives" => shown'[b].terms # 1
  <2>1. CASE shown'[b] = shown[b]
    BY <2>1, SideFacts DEF Steady
  <2>2. CASE shown'[b] = Owed(b)
    BY <2>2, ListIsOwed
  <2> QED
    BY <1>1, <2>1, <2>2
<1>5. Steady(b)'
  <2>1. \A m \in sealing'[b] : Grounded(b, m)'
    <3>1. \A m \in sealing[b] : Grounded(b, m)
      BY SideFacts DEF Steady
    <3> QED
      BY <1>1, <1>4, <3>1, GroundedAfter
  <2>2. \A k \in Key : shown'[b][k] <= Owed(b)'[k]
    <3> SUFFICES ASSUME NEW k \in Key PROVE shown'[b][k] <= Owed(b)[k]
      BY <1>3
    <3> QED
      BY <1>1, KeyFacts
  <2>3. tab'[b].attached => rec'[b].made
    BY <1>1, SideFacts DEF Steady
  <2>4. rec'[b].staked => rec'[b].made
    BY <1>1, SideFacts DEF Steady
  <2> QED
    BY <1>1, <1>2, <1>4, <2>1, <2>2, <2>3, <2>4 DEF Steady
<1>6. ASSUME NEW k \in Key PROVE Backed(b, k)' /\ Tallied(b, k)'
  <2>1. Backed(b, k)'
    BY <1>1, <1>2 DEF Backed
  <2>2. /\ Said(b, k)' = Said(b, k) /\ OfKey(k, sealing[b])' \in {{}, OfKey(k, sealing[b])}
        /\ Unclaimed(b, k)' = 0 /\ Rebuilt(b, k)' \in {0, 1}
    BY <1>1 DEF Said, OfKey, Unclaimed, Rebuilt
  <2>3. Rebuilt(b, k) <= Rebuilt(b, k)'
    BY <1>4 DEF Rebuilt
  <2>4. /\ Cardinality(OfKey(k, sealing[b])') <= Cardinality(OfKey(k, sealing[b]))
        /\ Cardinality(OfKey(k, sealing[b])') \in Nat
    <3>1. Cardinality(OfKey(k, sealing[b])) \in Nat
      BY KeyFacts
    <3>2. CASE OfKey(k, sealing[b])' = {}
      BY <3>1, <3>2, FS_EmptySet
    <3>3. CASE OfKey(k, sealing[b])' = OfKey(k, sealing[b])
      BY <3>1, <3>3
    <3> QED
      BY <2>2, <3>2, <3>3
  <2>5. Tallied(b, k)'
    BY <1>1, <2>2, <2>3, <2>4, KeyFacts DEF Tallied
  <2> QED
    BY <2>1, <2>5
<1> QED
  BY <1>5, <1>6 DEF Holds

LEMMA CreateSwapSays ==
    ASSUME SessionInv, NEW b \in Side, CreateSwap(b)
    PROVE  sent \subseteq sent' /\ \A c \in Side, k \in Key : Said(c, k)' = Said(c, k)
<1>1. sent' = sent \/ sent' = sent \cup {Sealed(b, Offer)}
  BY DEF CreateSwap
<1>2. CASE sent' = sent
  BY <1>2 DEF Said
<1>3. CASE sent' = sent \cup {Sealed(b, Offer)}
  <2>1. Offer \in Message /\ \A k \in Key : Offer.type # k
    BY ConstantMessages
  <2>2. ASSUME NEW c \in Side, NEW k \in Key PROVE Said(c, k)' = Said(c, k)
    BY <1>3, <2>1, SealedSays, SideFacts
  <2> QED
    BY <1>3, <2>2
<1> QED
  BY <1>1, <1>2, <1>3

LEMMA CreateSwapHolds ==
    ASSUME SessionInv, Typed', NEW b \in Side, CreateSwap(b)
    PROVE  Holds(b)'
<1>0. /\ tab[b].here /\ ~rec[b].made /\ tab'[b].here /\ tab'[b].attached
      /\ rec'[b].made /\ rec'[b].got = Had(b) /\ rec'[b].staked = rec[b].staked
      /\ Owes(b) \in Owings /\ shown'[b] = Owes(b) /\ reasons' = reasons
      /\ Round(b, Owes(b), published[b], sealing[b], reasons[b])
  BY CreateSwapDoes, SideFacts
<1>1. /\ ~rec[b].staked /\ shown[b].terms = 0 /\ shown[b].stake = 0
      /\ \A k \in Key : published[b][k] = 0
  BY <1>0, NothingBefore
<1>2. /\ Typed /\ published[b] \in Owings /\ sealing[b] \in SUBSET Message
      /\ IsFiniteSet(sealing[b])
  BY SideFacts
<1>3. Owed(b)' = Owes(b)
  BY <1>0, <1>1 DEF Owed, Owes
<1>4. b = "receives" => Owes(b).terms # 1
  BY DEF Owes
<1>5. \A k \in Key : Owes(b)[k] \in 0..2
  BY <1>0, KeysOf
<1>6. InSession(b)'
  BY <1>0 DEF InSession
<1>7. \A x \in sealing[b] : Grounded(b, x)'
  <2>1. \A x \in sealing[b] : Grounded(b, x)
    BY SideFacts DEF Steady
  <2> QED
    BY <1>0, <1>1, <2>1, GroundedAfter
<1>8. ASSUME NEW k \in Key
      PROVE  Room(b, k, Owes(b), published[b], sealing[b], sent', reasons'[b], Rebuilt(b, k)')
  <2>1. Said(b, k)' = Said(b, k)
    BY CreateSwapSays
  <2>2. Rebuilt(b, k) = 0 /\ Rebuilt(b, k)' \in {0, 1}
    BY <1>1 DEF Rebuilt
  <2>3. Rebuilt(b, k) <= Rebuilt(b, k)'
    BY <2>2
  <2> QED
    BY <1>0, <1>1, <2>1, <2>2, <2>3, RoomKept
<1>9. Round(b, Owes(b), published[b], sealing[b], reasons'[b])
  BY <1>0
<1>10. \A k \in Key : Owes(b)[k] <= Owed(b)'[k]
  BY <1>3, <1>5
<1> QED
  BY <1>0, <1>1, <1>2, <1>4, <1>6, <1>7, <1>8, <1>9, <1>10, RoundHolds

LEMMA AttachHolds == ASSUME SessionInv, Typed', NEW b \in Side, Attach(b) PROVE Holds(b)'
<1>0. /\ tab[b].here /\ rec[b].made /\ tab'[b].here /\ tab'[b].attached
      /\ rec' = rec /\ shown' = shown /\ reasons' = reasons /\ sent' = sent
      /\ Round(b, shown[b], published[b], sealing[b], reasons[b])
  BY AttachDoes, SideFacts
<1>1. /\ Typed /\ Steady(b) /\ published[b] \in Owings /\ shown[b] \in Owings
      /\ sealing[b] \in SUBSET Message /\ IsFiniteSet(sealing[b])
      /\ \A k \in Key : Backed(b, k)
  BY SideFacts
<1>2. InSession(b)' /\ Owed(b)' = Owed(b) /\ \A k \in Key : Rebuilt(b, k)' = Rebuilt(b, k)
  BY <1>0 DEF InSession, Owed, Rebuilt
<1>3. \A x \in sealing[b] : Grounded(b, x)'
  BY <1>0, <1>1 DEF Steady, Grounded
<1>4. \A k \in Key : published[b][k] \in {0, shown'[b][k]} /\ shown'[b][k] <= Owed(b)'[k]
  BY <1>0, <1>2, KeyFacts
<1>5. \A k \in Key : published[b][k] = 0
                     \/ Stands(b, k, published[b][k], sealing[b], reasons'[b], sent')
  BY <1>0, <1>1 DEF Backed
<1>6. ASSUME NEW k \in Key
      PROVE  Room(b, k, shown[b], published[b], sealing[b], sent', reasons'[b], Rebuilt(b, k)')
  <2>1. Said(b, k)' = Said(b, k) /\ Rebuilt(b, k) \in {0, 1}
    BY <1>0 DEF Said, Rebuilt
  <2>2. published[b][k] = 0 \/ shown[b][k] \in {0, published[b][k]}
    BY KeyFacts
  <2>3. Rebuilt(b, k) <= Rebuilt(b, k)' /\ Rebuilt(b, k)' \in {0, 1}
    BY <1>2, <2>1
  <2>4. reasons'[b] = reasons[b]
    BY <1>0
  <2> QED
    BY <2>1, <2>2, <2>3, <2>4, RoomKept
<1>7. Round(b, shown[b], published[b], sealing[b], reasons'[b]) /\ tab'[b].here = tab[b].here
  BY <1>0
<1>8. b = "receives" => shown'[b].terms # 1
  BY <1>0, <1>1 DEF Steady
<1>9. \A k \in Key : shown[b][k] \in {0, shown'[b][k]}
  BY <1>0
<1>10. (tab'[b].attached => rec'[b].made) /\ (rec'[b].staked => rec'[b].made)
  BY <1>0
<1> QED
  BY <1>0, <1>1, <1>2, <1>3, <1>4, <1>5, <1>6, <1>7, <1>8, <1>9, <1>10, RoundHolds

LEMMA ListReloadsHolds ==
    ASSUME SessionInv, Typed', NEW b \in Side, ListReloads(b) PROVE Holds(b)'
<1>0. /\ Owed(b) \in Owings /\ tab' = tab /\ rec' = rec /\ reasons' = reasons /\ sent' = sent
      /\ IF InSession(b) THEN Round(b, Owed(b), published[b], sealing[b], reasons[b])
                         ELSE published' = published /\ sealing' = sealing
      /\ shown'[b] = Owed(b)
  BY ListReloadsDoes, SideFacts
<1>1. /\ Typed /\ Steady(b) /\ published[b] \in Owings /\ shown[b] \in Owings
      /\ sealing[b] \in SUBSET Message /\ IsFiniteSet(sealing[b]) /\ \A k \in Key : Backed(b, k)
  BY SideFacts
<1>2. Owed(b)' = Owed(b) /\ InSession(b)' = InSession(b) /\ \A k \in Key : Said(b, k)' = Said(b, k)
  BY <1>0 DEF Owed, InSession, Said
<1>3. /\ shown[b].terms # 0 => shown'[b].terms # 0
      /\ shown[b].stake \in {0, shown'[b].stake}
      /\ shown[b].terms = 2 => shown'[b].terms = 2
      /\ b = "receives" => shown'[b].terms # 1
  BY <1>0, ListIsOwed
<1>4. ASSUME NEW k \in Key PROVE Rebuilt(b, k)' \in {0, 1} /\ Rebuilt(b, k) <= Rebuilt(b, k)'
  BY <1>3 DEF Rebuilt
<1>5. \A x \in sealing[b] : Grounded(b, x)'
  <2>1. \A x \in sealing[b] : Grounded(b, x)
    BY <1>1 DEF Steady
  <2> QED
    BY <1>0, <1>3, <2>1, GroundedAfter
<1>6. \A k \in Key : shown'[b][k] <= Owed(b)'[k]
  <2>1. \A k \in Key : Owed(b)[k] \in 0..2
    BY <1>0, KeysOf
  <2> QED
    BY <1>0, <1>2, <2>1
\* A claim that is not what the list shows now is one of a contract that was rebuilt.
<1>7. ASSUME NEW k \in Key
      PROVE  \/ published[b][k] \in {0, shown'[b][k]}
             \/ /\ k = "terms" /\ published[b][k] = 1 /\ shown'[b][k] = 2
                /\ Rebuilt(b, k) = 0 /\ Rebuilt(b, k)' = 1
  <2>1. published[b][k] \in {0, shown[b][k]} /\ shown[b][k] \in 0..2 /\ Owed(b)[k] \in 0..2
    BY KeyFacts
  <2>2. CASE k = "stake"
    BY <1>3, <2>1, <2>2
  <2>3. CASE k = "terms" /\ published[b][k] \notin {0, shown'[b][k]}
    <3>1. shown[b].terms = published[b][k] /\ shown[b].terms \in {1, 2}
      BY <2>1, <2>3
    <3>2. shown'[b].terms \in {1, 2} /\ shown'[b].terms # shown[b].terms
      BY <1>0, <1>3, <2>1, <2>3, <3>1
    <3>3. shown[b].terms = 1 /\ shown'[b].terms = 2
      BY <1>3, <3>1, <3>2
    <3>4. b = "funds"
      BY <1>1, <3>3 DEF Steady, Side
    <3> QED
      BY <2>3, <3>1, <3>3, <3>4 DEF Rebuilt
  <2> QED
    BY <2>2, <2>3 DEF Key
<1>8. CASE ~InSession(b)
  <2>1. published' = published /\ sealing' = sealing /\ published[b].terms = 0
    BY <1>0, <1>1, <1>8 DEF Steady
  <2>2. \A k \in Key : published'[b][k] \in {0, shown'[b][k]}
    BY <1>7, <2>1
  <2>3. Steady(b)'
    BY <1>0, <1>1, <1>2, <1>3, <1>5, <1>6, <2>1, <2>2 DEF Steady
  <2>4. ASSUME NEW k \in Key PROVE Backed(b, k)' /\ Tallied(b, k)'
    <3>1. OfKey(k, sealing[b])' = OfKey(k, sealing[b]) /\ Unclaimed(b, k)' = Unclaimed(b, k)
      BY <1>0, <2>1 DEF OfKey, Unclaimed
    <3>2. Tallied(b, k)'
      BY <1>0, <1>2, <1>4, <3>1, KeyFacts DEF Tallied
    <3>3. Backed(b, k)'
      BY <1>0, <1>1, <2>1 DEF Backed, Stands, OfKey
    <3> QED
      BY <3>2, <3>3
  <2> QED
    BY <2>3, <2>4 DEF Holds
<1>9. CASE InSession(b)
  <2>1. Round(b, Owed(b), published[b], sealing[b], reasons'[b]) /\ tab'[b].here = tab[b].here
    BY <1>0, <1>9
  <2>2. \A k \in Key : published[b][k] = 0
                       \/ Stands(b, k, published[b][k], sealing[b], reasons'[b], sent')
    BY <1>0, <1>1 DEF Backed
  <2>3. ASSUME NEW k \in Key
        PROVE  Room(b, k, Owed(b), published[b], sealing[b], sent', reasons'[b], Rebuilt(b, k)')
    <3>1. \/ published[b][k] = 0 \/ Owed(b)[k] \in {0, published[b][k]}
          \/ Owed(b)[k] = 2 /\ Rebuilt(b, k) = 0 /\ Rebuilt(b, k)' = 1
      BY <1>0, <1>7
    <3>2. Said(b, k)' = Said(b, k) /\ reasons'[b] = reasons[b]
      BY <1>0, <1>2
    <3> QED
      BY <1>4, <3>1, <3>2, RoomKept
  <2>4. \A k \in Key : \/ published[b][k] \in {0, shown'[b][k]}
                       \/ k = "terms" /\ Owed(b)[k] \notin {0, published[b][k]}
    BY <1>0, <1>7
  <2>5. InSession(b)' /\ tab'[b].here
    BY <1>2, <1>9 DEF InSession
  <2>6. (tab'[b].attached => rec'[b].made) /\ (rec'[b].staked => rec'[b].made)
    BY <1>0, <1>1 DEF Steady
  <2>7. \A k \in Key : Owed(b)[k] \in {0, shown'[b][k]}
    BY <1>0
  <2> QED
    BY <1>0, <1>1, <1>3, <1>5, <1>6, <2>1, <2>2, <2>3, <2>4, <2>5, <2>6, <2>7, RoundHolds
<1> QED
  BY <1>8, <1>9

LEMMA ResyncArrivesHolds ==
    ASSUME SessionInv, Typed', NEW b \in Side, NEW e \in sent, ResyncArrives(b, e)
    PROVE  Holds(b)'
<1>0. /\ Round(b, shown[b], Nothing, sealing[b], reasons'[b]) /\ tab[b].here /\ tab[b].attached
      /\ tab' = tab /\ rec' = rec /\ shown' = shown /\ sent' = sent
      /\ reasons'[b] = reasons[b] + 1
  BY ResyncArrivesDoes, SideFacts
<1>1. /\ Typed /\ Steady(b) /\ shown[b] \in Owings /\ Nothing \in Owings
      /\ sealing[b] \in SUBSET Message /\ IsFiniteSet(sealing[b])
      /\ Nothing.terms = 0 /\ Nothing.stake = 0 /\ \A k \in Key : Nothing[k] = 0
  BY SideFacts, NothingIsOwed DEF Nothing, Key
<1>2. InSession(b)' /\ Owed(b)' = Owed(b)
  BY <1>0 DEF InSession, Owed
<1>3. \A x \in sealing[b] : Grounded(b, x)'
  BY <1>0, <1>1 DEF Steady, Grounded
<1>4. \A k \in Key : shown'[b][k] <= Owed(b)'[k]
  BY <1>0, <1>2, KeyFacts
<1>5. ASSUME NEW k \in Key
      PROVE  Room(b, k, shown[b], Nothing, sealing[b], sent', reasons'[b], Rebuilt(b, k)')
  <2>1. Cardinality({x \in sent' : x.by = b /\ x.type = k}) = Cardinality(Said(b, k))
    BY <1>0 DEF Said
  <2>2. Rebuilt(b, k)' = Rebuilt(b, k)
    BY <1>0 DEF Rebuilt
  <2>3. Cardinality(Said(b, k)) + Cardinality(OfKey(k, sealing[b])) + 1
          <= reasons'[b] + Rebuilt(b, k)
    BY <1>0, KeyFacts
  <2> QED
    BY <1>0, <1>1, <2>1, <2>2, <2>3 DEF Room
<1>6. b = "receives" => shown'[b].terms # 1
  BY <1>0, <1>1 DEF Steady
<1>7. \A k \in Key : shown[b][k] \in {0, shown'[b][k]}
  BY <1>0
<1>8. (tab'[b].attached => rec'[b].made) /\ (rec'[b].staked => rec'[b].made)
  BY <1>0, <1>1 DEF Steady
<1>9. tab'[b].here = tab[b].here /\ tab'[b].here
  BY <1>0
<1> QED
  BY <1>0, <1>1, <1>2, <1>3, <1>4, <1>5, <1>6, <1>7, <1>8, <1>9, RoundHolds

LEMMA PressHolds == ASSUME SessionInv, NEW b \in Side, Press(b) PROVE Holds(b)'
<1>1. /\ published'[b] = Nothing /\ reasons'[b] = reasons[b] + 1
      /\ sealing'[b] = sealing[b] \cup {Resync}
      /\ tab' = tab /\ rec' = rec /\ shown' = shown /\ sent' = sent
  BY SideFacts DEF Press, Forgotten, network
<1>2. Nothing.terms = 0 /\ Nothing.stake = 0 /\ \A k \in Key : Nothing[k] = 0 /\ Resync.type # k
  BY ConstantMessages DEF Nothing, Key
<1>3. \A m \in sealing'[b] : Grounded(b, m)'
  <2>1. Grounded(b, Resync)'
    BY ConstantMessages DEF Grounded
  <2>2. \A m \in sealing[b] : Grounded(b, m)'
    BY <1>1, SideFacts DEF Steady, Grounded
  <2> QED
    BY <1>1, <2>1, <2>2
<1>4. Owed(b)' = Owed(b)
  BY <1>1 DEF Owed
<1>5. Steady(b)'
  BY <1>1, <1>2, <1>3, <1>4, SideFacts DEF Steady
<1>6. ASSUME NEW k \in Key PROVE Backed(b, k)' /\ Tallied(b, k)'
  <2>1. Backed(b, k)'
    BY <1>1, <1>2 DEF Backed
  <2>2. /\ Said(b, k)' = Said(b, k) /\ OfKey(k, sealing[b])' = OfKey(k, sealing[b])
        /\ Rebuilt(b, k)' = Rebuilt(b, k)
    BY <1>1, <1>2 DEF Said, OfKey, Rebuilt
  <2>3. Unclaimed(b, k)' \in {0, 1}
    BY DEF Unclaimed
  <2>4. Tallied(b, k)'
    BY <1>1, <2>2, <2>3, KeyFacts DEF Tallied
  <2> QED
    BY <2>1, <2>4
<1> QED
  BY <1>5, <1>6 DEF Holds

\* What is still being sealed of a key after m.
LEMMA OneLess ==
    ASSUME SessionInv, NEW b \in Side, NEW m \in sealing[b], NEW k \in Key
    PROVE  /\ Cardinality(OfKey(k, sealing[b] \ {m})) \in Nat
           /\ Cardinality(OfKey(k, sealing[b] \ {m})) =
                IF m.type = k THEN Cardinality(OfKey(k, sealing[b])) - 1
                              ELSE Cardinality(OfKey(k, sealing[b]))
<1>1. OfKey(k, sealing[b] \ {m}) = OfKey(k, sealing[b]) \ {m}
  BY DEF OfKey
<1>2. m \in OfKey(k, sealing[b]) <=> m.type = k
  BY DEF OfKey
<1>3. IsFiniteSet(OfKey(k, sealing[b]))
  BY KeyFacts
<1> DEFINE S == OfKey(k, sealing[b])
<1> HIDE DEF S
<1>5. IsFiniteSet(S) => /\ Cardinality(S) \in Nat /\ Cardinality(S \ {m}) \in Nat
                        /\ Cardinality(S \ {m}) = IF m \in S THEN Cardinality(S) - 1 ELSE Cardinality(S)
  BY FS_RemoveElement, FS_CardinalityType
<1> QED
  BY <1>1, <1>2, <1>3, <1>5 DEF S

\* The end of a send that kept or gave back claims, with what it leaves counted.
LEMMA EndsHolds ==
    ASSUME SessionInv, Typed', NEW b \in Side, NEW m \in sealing[b], NEW c \in Owings,
           Ends(b, m, c),
           tab' = tab, rec' = rec, shown' = shown, reasons' = reasons,
           \A k \in Key : c[k] \in {0, published[b][k]},
           \A k \in Key : c[k] = 0 \/ Stands(b, k, c[k], sealing[b] \ {m}, reasons[b], sent'),
           \A k \in Key : Cardinality(Said(b, k)') + Cardinality(OfKey(k, sealing[b] \ {m}))
                            + (IF tab[b].here /\ c[k] = 0 THEN 1 ELSE 0)
                              <= reasons[b] + Rebuilt(b, k)
    PROVE  Holds(b)'
<1> DEFINE list == Left(b, m)
           others == sealing[b] \ {m}
<1>1. /\ Typed /\ Steady(b) /\ shown[b] \in Owings /\ published[b] \in Owings
      /\ sealing[b] \in SUBSET Message /\ IsFiniteSet(sealing[b]) /\ reasons[b] \in Nat
  BY SideFacts
<1>2. list \in Owings /\ Round(b, list, c, others, reasons'[b])
  BY <1>1, EndsIsARound
<1>3. others \in SUBSET Message /\ IsFiniteSet(others)
  BY <1>1, FS_RemoveElement
<1>4. /\ InSession(b)' = InSession(b) /\ Owed(b)' = Owed(b)
      /\ \A k \in Key : Rebuilt(b, k)' = Rebuilt(b, k)
  BY DEF InSession, Owed, Rebuilt
\* What is left of the round is on the list.
<1>5. \A k \in Key : list[k] \in {0, shown[b][k]}
  <2>1. CASE list = shown[b]
    BY <2>1
  <2>2. CASE list = [terms |-> 0, stake |-> m.rest]
    <3>1. m.rest \in {0, shown[b].stake}
      BY <1>1 DEF Steady, Grounded
    <3> QED
      BY <2>2, <3>1 DEF Key
  <2> QED
    BY <2>1, <2>2 DEF Left
<1>6. ~InSession(b) => list.terms = 0 /\ c.terms = 0
  <2>1. c["terms"] \in {0, published[b]["terms"]}
    BY DEF Key
  <2> QED
    BY <1>1, <2>1 DEF Left, Steady
<1>7. ~tab[b].here => c.stake = 0
  <2>1. c["stake"] \in {0, published[b]["stake"]}
    BY DEF Key
  <2> QED
    BY <1>1, <2>1 DEF Steady
<1>8. ASSUME NEW k \in Key
      PROVE  Room(b, k, list, c, others, sent', reasons'[b], Rebuilt(b, k)')
  <2>1. Cardinality({e \in sent' : e.by = b /\ e.type = k}) = Cardinality(Said(b, k)')
    BY DEF Said
  <2>2. /\ Cardinality(Said(b, k)') \in Nat /\ Cardinality(OfKey(k, others)) \in Nat
        /\ Rebuilt(b, k) \in {0, 1}
    BY SaidStaysFinite, OneLess, KeyFacts
  <2>3. Cardinality(Said(b, k)') + Cardinality(OfKey(k, others))
          + (IF tab[b].here /\ c[k] = 0 THEN 1 ELSE 0) <= reasons[b] + Rebuilt(b, k)
    OBVIOUS
  <2>4. c[k] # 0 => list[k] \in {0, c[k]}
    <3>1. c[k] \in {0, published[b][k]} /\ published[b][k] \in {0, shown[b][k]}
      BY KeyFacts
    <3> QED
      BY <1>5, <3>1
  <2> HIDE DEF list, others
  <2>5. CASE c[k] = 0
    BY <1>4, <2>1, <2>3, <2>5 DEF Room
  <2>6. CASE c[k] # 0
    <3>1. Cardinality(Said(b, k)') + Cardinality(OfKey(k, others)) <= reasons[b] + Rebuilt(b, k)
      BY <2>2, <2>3, <2>6
    <3> QED
      BY <1>4, <2>1, <2>4, <2>6, <3>1 DEF Room
  <2> QED
    BY <2>5, <2>6
<1>9. \A x \in others : Grounded(b, x)'
  BY <1>1 DEF Steady, Grounded
<1>10. \A k \in Key : shown'[b][k] <= Owed(b)'[k] /\ c[k] \in {0, shown'[b][k]}
  <2> SUFFICES ASSUME NEW k \in Key PROVE shown[b][k] <= Owed(b)[k] /\ c[k] \in {0, shown[b][k]}
    BY <1>4
  <2>1. c[k] \in {0, published[b][k]}
    OBVIOUS
  <2> QED
    BY <2>1, KeyFacts
<1>11. \A k \in Key : c[k] = 0 \/ Stands(b, k, c[k], others, reasons'[b], sent')
  OBVIOUS
<1>12. \A k \in Key : list[k] \in {0, shown'[b][k]}
  BY <1>5
<1>13. /\ tab'[b].attached => rec'[b].made
       /\ rec'[b].staked => rec'[b].made
       /\ b = "receives" => shown'[b].terms # 1
  BY <1>1 DEF Steady
<1> HIDE DEF list, others
<1> QED
  BY <1>1, <1>2, <1>3, <1>4, <1>6, <1>7, <1>8, <1>9, <1>10, <1>11, <1>12, <1>13, RoundHolds

LEMMA SentHolds ==
    ASSUME SessionInv, Typed', NEW b \in Side, NEW m \in sealing[b], Sent(b, m)
    PROVE  Holds(b)'
<1>1. /\ tab[b].here /\ sent' = sent \cup {Sealed(b, m)} /\ Ends(b, m, published[b])
      /\ tab' = tab /\ rec' = rec /\ shown' = shown /\ reasons' = reasons /\ m \in Message
      /\ published[b] \in Owings /\ Typed /\ Steady(b) /\ \A k \in Key : Backed(b, k)
  BY SideFacts DEF Sent, ghosts
<1>2. /\ Sealed(b, m).by = b /\ Sealed(b, m).type = m.type /\ Sealed(b, m).reason = m.reason
      /\ m.type \in Key => Sealed(b, m).value = IF m.value # 0 THEN Owed(b)[m.type] ELSE 0
      /\ \A k \in Key : Said(b, k)' =
                IF m.type = k THEN Said(b, k) \cup {Sealed(b, m)} ELSE Said(b, k)
  BY <1>1, SealedSays
<1>3. ASSUME NEW k \in Key, published[b][k] # 0
      PROVE  Stands(b, k, published[b][k], sealing[b] \ {m}, reasons[b], sent')
  <2>1. Stands(b, k, published[b][k], sealing[b], reasons[b], sent)
    BY <1>1, <1>3 DEF Backed
  <2>2. CASE m.type = k /\ m.reason = reasons[b]
    <3>1. Sealed(b, m).value >= published[b][k] \/ (k = "stake" /\ Sealed(b, m).value = 0)
      <4>1. CASE m.value # 0
        <5>1. /\ published[b][k] \in {0, shown[b][k]} /\ shown[b][k] <= Owed(b)[k]
              /\ published[b][k] \in 0..2 /\ shown[b][k] \in 0..2 /\ Owed(b)[k] \in 0..2
          BY KeyFacts
        <5>2. Sealed(b, m).value = Owed(b)[k]
          BY <1>2, <2>2, <4>1
        <5> QED
          BY <5>1, <5>2
      <4>2. CASE m.value = 0
        <5>1. k = "stake"
          BY <1>1, <2>2, <4>2 DEF Steady, Grounded, Key
        <5> QED
          BY <1>2, <2>2, <4>2, <5>1
      <4> QED
        BY <4>1, <4>2
    <3>2. Sealed(b, m) \in sent'
      BY <1>1
    <3> QED
      BY <1>2, <2>2, <3>1, <3>2 DEF Stands
  <2>3. CASE ~(m.type = k /\ m.reason = reasons[b])
    BY <1>1, <2>1, <2>3 DEF Stands, OfKey
  <2> QED
    BY <2>2, <2>3
<1>4. ASSUME NEW k \in Key
      PROVE  Cardinality(Said(b, k)') + Cardinality(OfKey(k, sealing[b] \ {m}))
               + (IF tab[b].here /\ published[b][k] = 0 THEN 1 ELSE 0)
                 <= reasons[b] + Rebuilt(b, k)
  <2>1. Unclaimed(b, k) = (IF tab[b].here /\ published[b][k] = 0 THEN 1 ELSE 0)
    BY DEF Unclaimed
  <2>2. /\ Cardinality(Said(b, k)) \in Nat /\ Cardinality(OfKey(k, sealing[b])) \in Nat
        /\ Unclaimed(b, k) \in {0, 1} /\ Rebuilt(b, k) \in {0, 1} /\ reasons[b] \in Nat
        /\ Cardinality(Said(b, k)) + Cardinality(OfKey(k, sealing[b])) + Unclaimed(b, k)
             <= reasons[b] + Rebuilt(b, k)
    BY KeyFacts
  <2>3. /\ Cardinality(Said(b, k)') \in Nat
        /\ Cardinality(Said(b, k)') <= Cardinality(Said(b, k)) + (IF m.type = k THEN 1 ELSE 0)
    <3>1. IsFiniteSet(Said(b, k))
      BY <1>1, SaidIsFinite
    <3>2. CASE m.type = k
      BY <1>2, <3>1, <3>2, AddingCounts
    <3>3. CASE m.type # k
      BY <1>2, <2>2, <3>3
    <3> QED
      BY <3>2, <3>3
  <2>4. /\ Cardinality(OfKey(k, sealing[b] \ {m})) \in Nat
        /\ Cardinality(OfKey(k, sealing[b] \ {m})) =
             IF m.type = k THEN Cardinality(OfKey(k, sealing[b])) - 1
                           ELSE Cardinality(OfKey(k, sealing[b]))
    BY OneLess
  <2> QED
    BY <2>1, <2>2, <2>3, <2>4
<1>5. \A k \in Key : published[b][k] \in {0, published[b][k]}
  OBVIOUS
<1> QED
  BY <1>1, <1>3, <1>4, <1>5, EndsHolds

LEMMA NotSentHolds ==
    ASSUME SessionInv, Typed', NEW b \in Side, NEW m \in sealing[b], NotSent(b, m)
    PROVE  Holds(b)'
<1> DEFINE c == Kept(b, m)
<1>1. /\ Ends(b, m, c) /\ sent' = sent
      /\ tab' = tab /\ rec' = rec /\ shown' = shown /\ reasons' = reasons
  BY DEF NotSent, Kept, network
<1>2. c \in Owings /\ \A k \in Key : c[k] = IF m.type = k THEN 0 ELSE published[b][k]
  BY SideFacts, KeptClaims
<1> HIDE DEF c
<1>3. \A k \in Key : c[k] \in {0, published[b][k]}
  BY <1>2
<1>4. ASSUME NEW k \in Key, c[k] # 0
      PROVE  Stands(b, k, c[k], sealing[b] \ {m}, reasons[b], sent')
  <2>1. m.type # k /\ c[k] = published[b][k]
    BY <1>2, <1>4
  <2>2. Stands(b, k, published[b][k], sealing[b], reasons[b], sent)
    BY <1>4, <2>1, SideFacts DEF Backed
  <2> QED
    BY <1>1, <2>1, <2>2 DEF Stands, OfKey
<1>5. ASSUME NEW k \in Key
      PROVE  Cardinality(Said(b, k)') + Cardinality(OfKey(k, sealing[b] \ {m}))
               + (IF tab[b].here /\ c[k] = 0 THEN 1 ELSE 0) <= reasons[b] + Rebuilt(b, k)
  <2>1. Unclaimed(b, k) = (IF tab[b].here /\ published[b][k] = 0 THEN 1 ELSE 0)
        /\ Said(b, k)' = Said(b, k)
    BY <1>1 DEF Unclaimed, Said
  <2>2. /\ Cardinality(Said(b, k)) \in Nat /\ Cardinality(OfKey(k, sealing[b])) \in Nat
        /\ Unclaimed(b, k) \in {0, 1} /\ Rebuilt(b, k) \in {0, 1} /\ reasons[b] \in Nat
        /\ Cardinality(Said(b, k)) + Cardinality(OfKey(k, sealing[b])) + Unclaimed(b, k)
             <= reasons[b] + Rebuilt(b, k)
    BY KeyFacts
  <2>3. /\ Cardinality(OfKey(k, sealing[b] \ {m})) \in Nat
        /\ Cardinality(OfKey(k, sealing[b] \ {m})) =
             IF m.type = k THEN Cardinality(OfKey(k, sealing[b])) - 1
                           ELSE Cardinality(OfKey(k, sealing[b]))
    BY OneLess
  <2>4. m.type # k => c[k] = published[b][k]
    BY <1>2
  <2>5. CASE m.type = k
    BY <2>1, <2>2, <2>3, <2>5
  <2>6. CASE m.type # k
    BY <2>1, <2>2, <2>3, <2>4, <2>6
  <2> QED
    BY <2>5, <2>6
<1> QED
  BY <1>1, <1>2, <1>3, <1>4, <1>5, EndsHolds

\* What the record takes leaves a list behind it, never ahead.
LEMMA RecordMovesHolds ==
    ASSUME SessionInv, NEW b \in Side, rec'[b].made = rec[b].made,
           rec'[b].staked => rec'[b].made, \A k \in Key : shown[b][k] <= Owed(b)'[k],
           tab' = tab, shown' = shown, published' = published, sealing' = sealing,
           reasons' = reasons, sent' = sent
    PROVE  Holds(b)'
<1>1. Steady(b)'
  BY SideFacts DEF Steady, InSession, Grounded
<1>2. ASSUME NEW k \in Key PROVE Backed(b, k)' /\ Tallied(b, k)'
  <2>1. Backed(b, k) /\ Tallied(b, k)
    BY SideFacts
  <2>2. Backed(b, k)'
    BY <2>1 DEF Backed, Stands, OfKey
  <2>3. Tallied(b, k)'
    BY <2>1 DEF Tallied, OfKey, Said, Unclaimed, Rebuilt
  <2> QED
    BY <2>2, <2>3
<1> QED
  BY <1>1, <1>2 DEF Holds

\* What is owed grows with what the record takes.
LEMMA OwedGrows ==
    ASSUME SessionInv, NEW b \in Side, rec'[b].made = rec[b].made,
           rec[b].staked => rec'[b].staked,
           \/ b = "receives" \/ rec'[b].got = rec[b].got \/ rec'[b].got = 2
           \/ shown[b].terms = 0 /\ rec'[b].got \in 0..2
    PROVE  \A k \in Key : shown[b][k] <= Owed(b)'[k]
<1>1. /\ shown[b].terms \in 0..2 /\ shown[b].stake \in 0..1
      /\ Owed(b).terms \in 0..2 /\ Owed(b).stake \in 0..1
  BY SideFacts, KeysOf
<1>2. shown[b].terms <= Owed(b).terms /\ shown[b].stake <= Owed(b).stake
  <2>1. "stake" \in Key /\ "terms" \in Key
    BY DEF Key
  <2>2. shown[b]["stake"] <= Owed(b)["stake"] /\ shown[b]["terms"] <= Owed(b)["terms"]
    BY <2>1, KeyFacts
  <2> QED
    BY <2>2
<1>3. shown[b].stake <= Owed(b)'.stake
  BY <1>1, <1>2 DEF Owed
<1>4. shown[b].terms <= Owed(b)'.terms
  <2>1. CASE ~rec[b].made
    BY <1>1, <1>2, <2>1 DEF Owed
  <2>2. CASE rec[b].made /\ b = "receives"
    BY <1>1, <2>2 DEF Owed
  <2>3. CASE rec[b].made /\ b # "receives" /\ shown[b].terms = 0
    <3>1. rec'[b].got \in 0..2
      BY <1>1, <2>3 DEF Owed
    <3> QED
      BY <2>3, <3>1 DEF Owed
  <2>4. CASE rec[b].made /\ b # "receives" /\ shown[b].terms # 0
    BY <1>1, <1>2, <2>4 DEF Owed
  <2> QED
    BY <2>1, <2>2, <2>3, <2>4
<1> QED
  BY <1>3, <1>4 DEF Key

LEMMA ValueArrivesHolds ==
    ASSUME SessionInv, NEW b \in Side, NEW e \in sent, NEW stale \in 0..2,
           ValueArrives(b, e, stale)
    PROVE  \A c \in Side : Holds(c)'
<1>1. /\ tab' = tab /\ shown' = shown /\ published' = published /\ sealing' = sealing
      /\ reasons' = reasons /\ sent' = sent /\ rec' \in {rec, Taken(b, e.value)}
      /\ e.by # b /\ e.type = "terms"
  BY DEF ValueArrives, Opened, Carried, network
<1>2. Typed /\ e.by \in Side /\ e.value \in 0..2 /\ (b = "funds" => e.value = 2)
  BY <1>1 DEF SessionInv, HashesAreRight, Typed, Types, Event, Side
<1>3. ASSUME NEW c \in Side
      PROVE  /\ rec'[c].made = rec[c].made /\ rec'[c].staked = rec[c].staked
             /\ c = "receives" \/ rec'[c].got = rec[c].got \/ rec'[c].got = 2
  <2>1. CASE rec' = rec
    BY <2>1
  <2>2. CASE rec' = Taken(b, e.value)
    <3>1. /\ \A a \in Side \ {b} : rec'[a] = rec[a]
          /\ rec'[b].made = rec[b].made /\ rec'[b].staked = rec[b].staked
          /\ rec'[b].got \in {rec[b].got, e.value}
      BY <1>2, <2>2, TakenSets
    <3> QED
      BY <1>2, <3>1 DEF Side
  <2> QED
    BY <1>1, <2>1, <2>2
<1>4. ASSUME NEW c \in Side PROVE Holds(c)'
  <2>1. \A k \in Key : shown[c][k] <= Owed(c)'[k]
    BY <1>3, OwedGrows
  <2>2. rec'[c].staked => rec'[c].made
    BY <1>3, SideFacts DEF Steady
  <2> QED
    BY <1>1, <1>3, <2>1, <2>2, RecordMovesHolds
<1> QED
  BY <1>4

LEMMA MistypeHashHolds == ASSUME SessionInv, MistypeHash PROVE \A c \in Side : Holds(c)'
<1>1. /\ tab' = tab /\ shown' = shown /\ published' = published /\ sealing' = sealing
      /\ reasons' = reasons /\ sent' = sent
  BY DEF MistypeHash, network
<1>2. ASSUME NEW c \in Side
      PROVE  /\ rec'[c].made = rec[c].made /\ rec'[c].staked = rec[c].staked
             /\ \/ rec'[c].got = rec[c].got
                \/ shown[c].terms = 0 /\ rec'[c].got \in 0..2
  BY MistypeHashDoes DEF SessionInv
<1>3. ASSUME NEW c \in Side PROVE Holds(c)'
  <2>1. \A k \in Key : shown[c][k] <= Owed(c)'[k]
    BY <1>2, OwedGrows
  <2>2. rec'[c].staked => rec'[c].made
    BY <1>2, SideFacts DEF Steady
  <2> QED
    BY <1>1, <1>2, <2>1, <2>2, RecordMovesHolds
<1> QED
  BY <1>3

LEMMA StakeHolds == ASSUME SessionInv, NEW b \in Side, Stake(b) PROVE \A c \in Side : Holds(c)'
<1>1. /\ tab' = tab /\ shown' = shown /\ published' = published /\ sealing' = sealing
      /\ reasons' = reasons /\ sent' = sent
  BY DEF Stake, network
<1>2. ASSUME NEW c \in Side
      PROVE  /\ rec'[c].made = rec[c].made /\ (rec[c].staked => rec'[c].staked)
             /\ rec'[c].got = rec[c].got /\ (rec'[c].staked => rec'[c].made)
  <2>1. rec[c].staked => rec[c].made
    BY SideFacts DEF Steady
  <2> QED
    BY <2>1, StakeDoes DEF SessionInv
<1>3. ASSUME NEW c \in Side PROVE Holds(c)'
  <2>1. \A k \in Key : shown[c][k] <= Owed(c)'[k]
    BY <1>2, OwedGrows
  <2> QED
    BY <1>1, <1>2, <2>1, RecordMovesHolds
<1> QED
  BY <1>3

\* The steps that side b takes with what it remembers and seals.
Handles(b) ==
    \/ Join(b) \/ CreateSwap(b) \/ Attach(b) \/ ListReloads(b) \/ Press(b) \/ Seals(b)
    \/ \E reloaded \in BOOLEAN : Leave(b, reloaded)
    \/ \E m \in sealing[b] : NotSent(b, m)
    \/ \E e \in sent : ResyncArrives(b, e)

LEMMA HandlesHolds ==
    ASSUME SessionInv, Typed', NEW b \in Side, Handles(b)
    PROVE  Holds(b)'
BY JoinHolds, CreateSwapHolds, AttachHolds, ListReloadsHolds, PressHolds, SentHolds, LeaveHolds,
   NotSentHolds, ResyncArrivesHolds DEF Handles, Seals

\* What side b handles is nothing to the other.
LEMMA HandlesLeaves ==
    ASSUME SessionInv, NEW b \in Side, Handles(b), NEW c \in Side \ {b}
    PROVE  /\ tab'[c] = tab[c] /\ rec'[c] = rec[c] /\ shown'[c] = shown[c]
           /\ published'[c] = published[c] /\ sealing'[c] = sealing[c] /\ reasons'[c] = reasons[c]
           /\ sent \subseteq sent' /\ \A k \in Key : Said(c, k)' = Said(c, k)
<1>0. /\ published[b] \in Owings /\ shown[b] \in Owings /\ Owed(b) \in Owings /\ reasons[b] \in Nat
      /\ sealing[b] \in SUBSET Message /\ IsFiniteSet(sealing[b]) /\ Typed
      /\ tab \in [Side -> Tab] /\ rec \in [Side -> Rec]
      /\ published \in [Side -> Owings] /\ shown \in [Side -> Owings]
      /\ sealing \in [Side -> SUBSET Message] /\ reasons \in [Side -> Nat]
  BY SideFacts
<1>1. CASE Join(b) \/ Press(b)
  BY <1>0, <1>1 DEF Join, Press, network, Said
<1>2. CASE \E reloaded \in BOOLEAN : Leave(b, reloaded)
  BY <1>0, <1>2 DEF Leave, network, Said
<1>3. CASE Attach(b)
  <2>1. /\ Round(b, shown[b], published[b], sealing[b], reasons[b])
        /\ rec' = rec /\ shown' = shown /\ sent' = sent /\ reasons' = reasons /\ tab'[c] = tab[c]
    BY <1>0, <1>3, AttachDoes
  <2> QED
    BY <1>0, <2>1, RoundIsTyped DEF Said
<1>4. CASE CreateSwap(b)
  <2>1. /\ Round(b, Owes(b), published[b], sealing[b], reasons[b]) /\ Owes(b) \in Owings
        /\ tab'[c] = tab[c] /\ rec'[c] = rec[c] /\ shown' = [shown EXCEPT ![b] = Owes(b)]
        /\ reasons' = reasons
    BY <1>0, <1>4, CreateSwapDoes
  <2>2. published'[c] = published[c] /\ sealing'[c] = sealing[c]
    BY <1>0, <2>1, RoundIsTyped
  <2>3. shown'[c] = shown[c]
    BY <1>0, <2>1
  <2>4. sent \subseteq sent' /\ \A k \in Key : Said(c, k)' = Said(c, k)
    BY <1>4, CreateSwapSays
  <2> QED
    BY <2>1, <2>2, <2>3, <2>4
<1>5. CASE ListReloads(b)
  <2>1. /\ tab' = tab /\ rec' = rec /\ reasons' = reasons /\ sent' = sent
        /\ shown' = [shown EXCEPT ![b] = Owed(b)]
        /\ IF InSession(b) THEN Round(b, Owed(b), published[b], sealing[b], reasons[b])
                           ELSE published' = published /\ sealing' = sealing
    BY <1>0, <1>5, ListReloadsDoes
  <2>2. published'[c] = published[c] /\ sealing'[c] = sealing[c]
    BY <1>0, <2>1, RoundIsTyped
  <2> QED
    BY <1>0, <2>1, <2>2 DEF Said
<1>6. CASE \E m \in sealing[b] : NotSent(b, m)
  <2>1. PICK m \in sealing[b] : NotSent(b, m)
    BY <1>6
  <2>2. /\ Ends(b, m, Kept(b, m)) /\ Kept(b, m) \in Owings
        /\ tab' = tab /\ rec' = rec /\ shown' = shown /\ reasons' = reasons /\ sent' = sent
    BY <1>0, <2>1, KeptClaims DEF NotSent, Kept, network
  <2> QED
    BY <1>0, <2>2, EndsIsTyped DEF Said
<1>7. CASE Seals(b)
  <2>1. PICK m \in sealing[b] : Sent(b, m)
    BY <1>7 DEF Seals
  <2>2. /\ Ends(b, m, published[b]) /\ sent' = sent \cup {Sealed(b, m)} /\ m \in Message
        /\ tab' = tab /\ rec' = rec /\ shown' = shown /\ reasons' = reasons
    BY <1>0, <2>1 DEF Sent, ghosts
  <2>3. \A k \in Key : Said(c, k)' = Said(c, k)
    BY <1>0, <2>2, SealedSays
  <2> QED
    BY <1>0, <2>2, <2>3, EndsIsTyped
<1>8. CASE \E e \in sent : ResyncArrives(b, e)
  <2>1. /\ Round(b, shown[b], Nothing, sealing[b], reasons[b] + 1)
        /\ tab' = tab /\ rec' = rec /\ shown' = shown /\ sent' = sent
        /\ reasons' = [reasons EXCEPT ![b] = @ + 1]
    BY <1>0, <1>8, ResyncArrivesDoes
  <2>2. Nothing \in Owings /\ reasons[b] + 1 \in Nat
    BY <1>0, NothingIsOwed
  <2>3. published'[c] = published[c] /\ sealing'[c] = sealing[c]
    BY <1>0, <2>1, <2>2, RoundIsTyped
  <2>4. reasons'[c] = reasons[c]
    BY <1>0, <2>1
  <2> QED
    BY <2>1, <2>3, <2>4 DEF Said
<1> QED
  BY <1>1, <1>2, <1>3, <1>4, <1>5, <1>6, <1>7, <1>8 DEF Handles

LEMMA NextHolds ==
    ASSUME SessionInv, Typed', [Next]_vars
    PROVE  \A c \in Side : Holds(c)'
<1>0. \A c \in Side : Holds(c)
  BY DEF SessionInv
<1>1. CASE \E b \in Side : Handles(b)
  <2>1. PICK b \in Side : Handles(b)
    BY <1>1
  <2>2. ASSUME NEW c \in Side \ {b} PROVE Holds(c)'
    BY <1>0, <2>1, <2>2, HandlesLeaves, UntouchedHolds
  <2> QED
    BY <2>1, <2>2, HandlesHolds
<1>2. CASE MistypeHash
  BY <1>2, MistypeHashHolds
<1>3. CASE \E b \in Side : Stake(b)
  BY <1>3, StakeHolds
<1>4. CASE \E b \in Side : \E e \in sent : \E stale \in 0..2 : ValueArrives(b, e, stale)
  BY <1>4, ValueArrivesHolds
<1>5. CASE UNCHANGED <<tab, rec, shown, published, sealing, reasons, sent>>
  <2>1. \A c \in Side, k \in Key : Said(c, k)' = Said(c, k)
    BY <1>5 DEF Said
  <2> QED
    BY <1>0, <1>5, <2>1, UntouchedHolds
<1>6. ASSUME NEW b \in Side, NEW e \in sent, Ignored(b, e) \/ OfferArrives(b, e)
      PROVE  UNCHANGED <<tab, rec, shown, published, sealing, reasons, sent>>
  BY <1>6 DEF Ignored, OfferArrives, browser, network, ghosts
<1>7. ASSUME TurnsLate \/ (\E e \in served : RelaysLose(e)) \/ UNCHANGED vars
      PROVE  UNCHANGED <<tab, rec, shown, published, sealing, reasons, sent>>
  BY <1>7 DEF TurnsLate, RelaysLose, vars, browser, network, ghosts
<1>8. ASSUME NEW b \in Side, Receives(b)
      PROVE  \E e \in sent : \/ Ignored(b, e) \/ OfferArrives(b, e) \/ ResyncArrives(b, e)
                             \/ \E stale \in 0..2 : ValueArrives(b, e, stale)
  BY <1>8, ReceivedIs DEF SessionInv
<1>9. CASE Next
  BY <1>1, <1>2, <1>3, <1>4, <1>5, <1>6, <1>7, <1>8, <1>9 DEF Next, Handles
<1> QED
  BY <1>5, <1>7, <1>9

\* Only CreateSwap, with an offer, and Sent add an event.
LEMMA NextSends ==
    ASSUME SessionInv, [Next]_vars
    PROVE  \/ sent' = sent
           \/ \E b \in Side : CreateSwap(b) /\ sent' = sent \cup {Sealed(b, Offer)}
           \/ \E b \in Side : \E m \in sealing[b] : Sent(b, m)
<1>1. ASSUME NEW b \in Side, CreateSwap(b)
      PROVE  sent' = sent \/ sent' = sent \cup {Sealed(b, Offer)}
  BY <1>1 DEF CreateSwap
<1>2. ASSUME NEW b \in Side, Receives(b) PROVE sent' = sent
  BY <1>2 DEF Receives, Ignored, OfferArrives, ResyncArrives, ValueArrives, network
<1>3. ASSUME NEW b \in Side, NEW m \in sealing[b], NotSent(b, m) PROVE sent' = sent
  BY <1>3 DEF NotSent, network
<1> QED
  BY <1>1, <1>2, <1>3 DEF Next, Seals, Join, Attach, ListReloads, Leave, Press, MistypeHash,
     TurnsLate, Stake, RelaysLose, vars, network

LEMMA NextHashes == ASSUME SessionInv, [Next]_vars PROVE HashesAreRight'
<1>1. CASE sent' = sent
  BY <1>1 DEF SessionInv, HashesAreRight
<1>2. CASE \E b \in Side : CreateSwap(b) /\ sent' = sent \cup {Sealed(b, Offer)}
  <2>1. \A b \in Side : Sealed(b, Offer).type = "offer"
    BY DEF Sealed, Offer
  <2> QED
    BY <1>2, <2>1 DEF SessionInv, HashesAreRight
<1>3. ASSUME NEW b \in Side, NEW m \in sealing[b], Sent(b, m)
      PROVE  HashesAreRight'
  <2>1. m \in Message /\ sent' = sent \cup {Sealed(b, m)} /\ Typed
    BY <1>3, SideFacts DEF Sent
  <2>2. m.type = "terms" => rec[b].made /\ m.value # 0
    BY SideFacts DEF Steady, Grounded, Key
  <2>3. /\ Sealed(b, m).by = b /\ Sealed(b, m).type = m.type
        /\ m.type \in Key => Sealed(b, m).value = IF m.value # 0 THEN Owed(b)[m.type] ELSE 0
    BY <2>1, SealedSays
  <2> QED
    BY <2>1, <2>2, <2>3 DEF SessionInv, HashesAreRight, Owed, Key
<1> QED
  BY <1>1, <1>2, <1>3, NextSends

LEMMA InitSessionInv == ASSUME Init PROVE SessionInv
<1>1. ASSUME NEW b \in Side PROVE Holds(b)
  <2>0. /\ tab[b] = [here |-> TRUE, attached |-> FALSE]
        /\ rec[b] = [made |-> FALSE, got |-> 0, staked |-> FALSE]
        /\ shown[b] = Nothing /\ published[b] = Nothing /\ sealing[b] = {} /\ sent = {}
        /\ reasons[b] = 1
    BY DEF Init
  <2>1. Nothing.terms = 0 /\ Nothing.stake = 0 /\ \A k \in Key : Nothing[k] = 0
    BY DEF Nothing, Key
  <2>2. \A k \in Key : Owed(b)[k] = 0
    BY <2>0 DEF Owed, Key
  <2>3. Steady(b)
    BY <2>0, <2>1, <2>2 DEF Steady
  <2>4. ASSUME NEW k \in Key PROVE Backed(b, k) /\ Tallied(b, k)
    <3>1. Said(b, k) = {} /\ OfKey(k, sealing[b]) = {}
      BY <2>0 DEF Said, OfKey
    <3>2. Cardinality(Said(b, k)) = 0 /\ Cardinality(OfKey(k, sealing[b])) = 0
      BY <3>1, FS_EmptySet
    <3>3. Unclaimed(b, k) \in {0, 1} /\ Rebuilt(b, k) \in {0, 1}
      BY DEF Unclaimed, Rebuilt
    <3>4. Tallied(b, k)
      BY <2>0, <3>2, <3>3 DEF Tallied
    <3>5. Backed(b, k)
      BY <2>0, <2>1 DEF Backed
    <3> QED
      BY <3>4, <3>5
  <2> QED
    BY <2>3, <2>4 DEF Holds
<1>2. HashesAreRight
  BY DEF Init, HashesAreRight
<1> QED
  BY <1>1, <1>2, InitTyped DEF SessionInv

LEMMA SessionInvariant == Spec => []SessionInv
<1>1. Init => SessionInv
  BY InitSessionInv
<1>2. SessionInv /\ [Next]_vars => SessionInv'
  <2> SUFFICES ASSUME SessionInv, [Next]_vars PROVE SessionInv'
    OBVIOUS
  <2>1. Typed'
    BY NextTyped DEF SessionInv
  <2>2. \A c \in Side : Holds(c)'
    BY <2>1, NextHolds
  <2>3. HashesAreRight'
    BY NextHashes
  <2> QED
    BY <2>1, <2>2, <2>3 DEF SessionInv
<1> QED
  BY <1>1, <1>2, PTL DEF Spec

\* What publishOwed remembers as sent, and is not being sealed, was handed to the
\* relays since it was last forgotten, or a stake went out empty in its place
\* (useSession.ts publishOwed).
THEOREM ClaimsAreSent == Spec => []ClaimsWereSent
<1>1. ASSUME SessionInv, NEW b \in Side, NEW k \in Key, published[b][k] # 0 PROVE Gone(b, k)
  <2>1. Stands(b, k, published[b][k], sealing[b], reasons[b], sent)
    BY <1>1, SideFacts DEF Backed
  <2> QED
    BY <2>1 DEF Stands, OfKey, Gone
<1>2. SessionInv => ClaimsWereSent
  BY <1>1 DEF ClaimsWereSent
<1> QED
  BY <1>2, SessionInvariant, PTL

\* A side says each thing it owes at most once for each reason to say it, and its
\* terms once more where the contract was rebuilt (handoffs.ts owed, useSession.ts
\* publishOwed).
THEOREM ValuesAreSaidOnce == Spec => []SaidOncePerReason
<1>1. ASSUME SessionInv, NEW b \in Side, NEW k \in Key
      PROVE  Cardinality(Said(b, k))
               <= reasons[b] + (IF b = "funds" /\ k = "terms" THEN 1 ELSE 0)
  <2>1. Rebuilt(b, k) <= (IF b = "funds" /\ k = "terms" THEN 1 ELSE 0)
    BY DEF Rebuilt
  <2> QED
    BY <1>1, <2>1, KeyFacts
<1>2. SessionInv => SaidOncePerReason
  BY <1>1 DEF SaidOncePerReason, Said
<1> QED
  BY <1>2, SessionInvariant, PTL

----------------------------------------------------------------------------
(* Requests. *)

Requests(b) == {e \in sent : e.by = b /\ e.type = "resync"}
Asking(b) == IF Resync \in sealing[b] THEN 1 ELSE 0

\* Only presses ask: what b asked, or is about to, is a press of its own.
Asked(b) ==
    /\ \A m \in sealing[b] : m.type = "resync" => m = Resync
    /\ Cardinality(Requests(b)) + Asking(b) <= presses

Numbered == \A e \in sent : e.type = "resync" => e.nth < presses

AskedInv == SessionInv /\ Numbered /\ \A b \in Side : Asked(b)

LEMMA RequestsAreFinite ==
    ASSUME Typed, NEW b \in Side
    PROVE  IsFiniteSet(Requests(b)) /\ Cardinality(Requests(b)) \in Nat
<1>1. Requests(b) \in SUBSET sent
  BY DEF Requests
<1>2. IsFiniteSet(Requests(b))
  BY <1>1, FS_Subset DEF Typed, Finite
<1> QED
  BY <1>2, FS_CardinalityType

\* A step that neither sends a request nor means to.
LEMMA NothingAsked ==
    ASSUME AskedInv, NEW b \in Side, Requests(b)' = Requests(b), presses' \in Nat,
           presses <= presses',
           \A m \in sealing'[b] : m.type = "resync" => m \in sealing[b]
    PROVE  Asked(b)'
<1>1. Asking(b)' \in {0, 1} /\ Asking(b) \in {0, 1} /\ Asking(b)' <= Asking(b)
  <2>1. Resync.type = "resync"
    BY DEF Resync
  <2> QED
    BY <2>1 DEF Asking
<1>2. Cardinality(Requests(b)) \in Nat /\ presses \in Nat
  BY RequestsAreFinite, BoundsAssumption DEF AskedInv, SessionInv, Typed, Types
<1> QED
  BY <1>1, <1>2 DEF AskedInv, Asked

LEMMA RoundAsksNothing ==
    ASSUME Typed, NEW b \in Side, NEW list, NEW c, NEW m, NEW n, Round(b, list, c, m, n)
    PROVE  /\ \A x \in sealing'[b] : x.type = "resync" => x \in m
           /\ \A a \in Side \ {b} : sealing'[a] = sealing[a]
<1>1. sealing \in [Side -> SUBSET Message]
  BY DEF Typed, Types
<1>2. \/ sealing' = [sealing EXCEPT ![b] = m]
      \/ \E x \in Message : x.type \in Key /\ sealing' = [sealing EXCEPT ![b] = m \cup {x}]
  BY DEF Round, HandsOff, Keeps
<1> QED
  BY <1>1, <1>2 DEF Key

LEMMA EndsAsksNothing ==
    ASSUME SessionInv, NEW b \in Side, NEW m \in sealing[b], NEW c \in Owings, Ends(b, m, c)
    PROVE  /\ \A x \in sealing'[b] : x.type = "resync" => x \in sealing[b] \ {m}
           /\ \A a \in Side \ {b} : sealing'[a] = sealing[a]
<1>1. Round(b, Left(b, m), c, sealing[b] \ {m}, reasons[b]) /\ Typed
  BY EndsIsARound DEF SessionInv
<1> QED
  BY <1>1, RoundAsksNothing

\* What b seals next asks for nothing it did not ask for, but when it presses.
LEMMA OnlyPressesAsk ==
    ASSUME SessionInv, [Next]_vars, NEW b \in Side, ~Press(b)
    PROVE  \A m \in sealing'[b] : m.type = "resync" => m \in sealing[b]
<1>0. sealing \in [Side -> SUBSET Message] /\ Typed
  BY SideFacts
<1>1. ASSUME NEW c \in Side, CreateSwap(c) \/ Attach(c) \/ ListReloads(c)
                               \/ \E e \in sent : ResyncArrives(c, e)
      PROVE  \A m \in sealing'[b] : m.type = "resync" => m \in sealing[b]
  <2>1. sealing' = sealing \/ \E list, claims, n : Round(c, list, claims, sealing[c], n)
    BY <1>0, <1>1, CreateSwapDoes, AttachDoes, ListReloadsDoes, ResyncArrivesDoes
  <2>2. CASE \E list, claims, n : Round(c, list, claims, sealing[c], n)
    <3>1. PICK list, claims, n : Round(c, list, claims, sealing[c], n)
      BY <2>2
    <3>2. /\ \A x \in sealing'[c] : x.type = "resync" => x \in sealing[c]
          /\ \A a \in Side \ {c} : sealing'[a] = sealing[a]
      BY <1>0, <3>1, RoundAsksNothing
    <3> QED
      BY <3>2
  <2> QED
    BY <2>1, <2>2
<1>2. ASSUME NEW c \in Side, NEW m \in sealing[c], Sent(c, m) \/ NotSent(c, m)
      PROVE  \A x \in sealing'[b] : x.type = "resync" => x \in sealing[b]
  <2>1. published[c] \in Owings /\ Kept(c, m) \in Owings
    BY <1>0, SideFacts, KeptClaims
  <2>2. Ends(c, m, published[c]) \/ Ends(c, m, Kept(c, m))
    BY <1>2 DEF Sent, NotSent, Kept
  <2>3. /\ \A x \in sealing'[c] : x.type = "resync" => x \in sealing[c] \ {m}
        /\ \A a \in Side \ {c} : sealing'[a] = sealing[a]
    BY <2>1, <2>2, EndsAsksNothing
  <2> QED
    BY <2>3
<1>3. ASSUME NEW c \in Side, Press(c) PROVE sealing'[b] = sealing[b]
  BY <1>0, <1>3 DEF Press
<1>4. ASSUME NEW c \in Side, NEW reloaded \in BOOLEAN, Leave(c, reloaded)
      PROVE  sealing'[b] \in {{}, sealing[b]}
  BY <1>0, <1>4 DEF Leave
<1>5. ASSUME Next,
             \A c \in Side : ~(CreateSwap(c) \/ Attach(c) \/ ListReloads(c) \/ Press(c) \/ Seals(c)
                                 \/ \E e \in sent : ResyncArrives(c, e)),
             \A c \in Side : \A m \in sealing[c] : ~NotSent(c, m),
             \A c \in Side : \A reloaded \in BOOLEAN : ~Leave(c, reloaded)
      PROVE  sealing' = sealing
  <2>1. ASSUME NEW c \in Side, Receives(c) PROVE sealing' = sealing
    <3>1. \E e \in sent : Ignored(c, e) \/ OfferArrives(c, e)
                            \/ \E stale \in 0..2 : ValueArrives(c, e, stale)
      BY <1>0, <1>5, <2>1, ReceivedIs
    <3> QED
      BY <3>1 DEF Ignored, OfferArrives, ValueArrives, browser
  <2> QED
    BY <1>5, <2>1 DEF Next, MistypeHash, TurnsLate, Stake, Join, RelaysLose, browser
<1>6. CASE UNCHANGED vars
  BY <1>6 DEF vars, browser
<1> QED
  BY <1>1, <1>2, <1>3, <1>4, <1>5, <1>6 DEF Seals

LEMMA NextAsked ==
    ASSUME AskedInv, Typed', [Next]_vars
    PROVE  Numbered' /\ \A b \in Side : Asked(b)'
<1>0. SessionInv /\ presses \in Nat /\ presses' \in Nat
  BY BoundsAssumption DEF AskedInv, SessionInv, Typed, Types
<1>1. presses <= presses'
  <2>1. ASSUME NEW b \in Side, Press(b) PROVE presses' = presses + 1
    BY <2>1 DEF Press
  <2>2. ASSUME NEW b \in Side, Receives(b) PROVE presses' = presses
    BY <2>2 DEF Receives, Ignored, OfferArrives, ValueArrives, ResyncArrives, ghosts
  <2>3. ASSUME NEW b \in Side,
               \/ Join(b) \/ CreateSwap(b) \/ Attach(b) \/ ListReloads(b) \/ Seals(b)
               \/ \E reloaded \in BOOLEAN : Leave(b, reloaded)
               \/ \E m \in sealing[b] : NotSent(b, m)
        PROVE  presses' = presses
    BY <2>3 DEF Seals, Join, CreateSwap, Attach, ListReloads, Leave, Sent, NotSent, ghosts
  <2>4. ASSUME MistypeHash \/ TurnsLate \/ (\E b \in Side : Stake(b))
                 \/ \E e \in served : RelaysLose(e)
        PROVE  presses' = presses
    BY <2>4 DEF MistypeHash, TurnsLate, Stake, RelaysLose
  <2>5. ASSUME Next, \A b \in Side : ~Press(b) PROVE presses' = presses
    BY <2>5, <2>2, <2>3, <2>4 DEF Next
  <2>6. CASE UNCHANGED vars
    BY <1>0, <2>6 DEF vars, ghosts
  <2> QED
    BY <1>0, <2>1, <2>5, <2>6
<1>2. CASE \E b \in Side : \E m \in sealing[b] : Sent(b, m)
  <2>0. PICK b \in Side : \E m \in sealing[b] : Sent(b, m)
    BY <1>2
  <2>1. PICK m \in sealing[b] : Sent(b, m)
    BY <2>0
  <2>2. /\ m \in Message /\ sent' = sent \cup {Sealed(b, m)} /\ presses' = presses
        /\ Ends(b, m, published[b])
    BY <1>0, <2>1, SideFacts DEF Sent, ghosts
  <2>3. Sealed(b, m).by = b /\ Sealed(b, m).type = m.type
    BY DEF Sealed
  <2>4. \A c \in Side \ {b} : Requests(c)' = Requests(c)
    BY <2>2, <2>3 DEF Requests
  <2>5. \A c \in Side : ~Press(c)
    BY <1>0, <2>2 DEF Press
  <2>6. \A c \in Side \ {b} : Asked(c)'
    BY <1>0, <1>1, <2>4, <2>5, OnlyPressesAsk, NothingAsked
  <2>7. CASE m.type # "resync"
    <3>1. Requests(b)' = Requests(b)
      BY <2>2, <2>3, <2>7 DEF Requests
    <3>2. Asked(b)'
      BY <1>0, <1>1, <2>5, <3>1, OnlyPressesAsk, NothingAsked
    <3>3. Numbered'
      BY <2>2, <2>3, <2>7 DEF AskedInv, Numbered
    <3> QED
      BY <2>6, <3>2, <3>3
  <2>8. CASE m.type = "resync"
    <3>1. m = Resync /\ Cardinality(Requests(b)) + 1 <= presses
      BY <2>8 DEF AskedInv, Asked, Asking
    <3>2. IsFiniteSet(Requests(b)) /\ Cardinality(Requests(b)) \in Nat
      BY <1>0, RequestsAreFinite DEF SessionInv
    <3>3. Requests(b)' = Requests(b) \cup {Sealed(b, m)}
      BY <2>2, <2>3, <2>8 DEF Requests
    <3>4. Cardinality(Requests(b)') <= Cardinality(Requests(b)) + 1 /\ Cardinality(Requests(b)') \in Nat
      BY <3>2, <3>3, AddingCounts
    <3>5. \A x \in sealing'[b] : x.type = "resync" => x \in sealing[b] \ {m}
      <4>1. published[b] \in Owings
        BY <1>0, SideFacts
      <4> QED
        BY <1>0, <2>2, <4>1, EndsAsksNothing
    <3>6. Asking(b)' = 0 /\ \A x \in sealing'[b] : x.type = "resync" => x = Resync
      <4>1. \A x \in sealing'[b] : x.type # "resync"
        BY <3>1, <3>5 DEF AskedInv, Asked
      <4> QED
        BY <2>8, <3>1, <4>1 DEF Asking
    <3>7. Asked(b)'
      BY <1>0, <2>2, <3>1, <3>2, <3>4, <3>6 DEF Asked
    <3>8. Sealed(b, m).nth = Cardinality(Requests(b))
      BY <2>8 DEF Sealed, Requests
    <3>9. Numbered'
      BY <1>0, <2>2, <3>1, <3>2, <3>8 DEF AskedInv, Numbered
    <3> QED
      BY <2>6, <3>7, <3>9
  <2> QED
    BY <2>7, <2>8
<1>3. CASE ~\E b \in Side : \E m \in sealing[b] : Sent(b, m)
  <2>1. \A e \in sent' : e.type = "resync" => e \in sent
    <3>1. \A b \in Side : Sealed(b, Offer).type = "offer"
      BY DEF Sealed, Offer
    <3> QED
      BY <1>0, <1>3, <3>1, NextSends
  <2>2. sent \subseteq sent'
    BY <1>0, <1>3, NextSends
  <2>3. \A b \in Side : Requests(b)' = Requests(b)
    BY <2>1, <2>2 DEF Requests
  <2>4. Numbered'
    <3>1. \A e \in sent' : e.type = "resync" => e.nth \in Nat
      BY DEF Typed, Types, Event
    <3> QED
      BY <1>0, <1>1, <2>1, <3>1 DEF AskedInv, Numbered
  <2>5. ASSUME NEW b \in Side PROVE Asked(b)'
    <3>1. CASE ~Press(b)
      BY <1>0, <1>1, <2>3, <3>1, OnlyPressesAsk, NothingAsked
    <3>2. CASE Press(b)
      <4>1. presses' = presses + 1 /\ sealing'[b] = sealing[b] \cup {Resync}
        BY <1>0, <3>2, SideFacts DEF Press
      <4>2. Asking(b)' = 1 /\ Asking(b) \in {0, 1}
        BY <4>1 DEF Asking
      <4>3. Cardinality(Requests(b)) \in Nat
        BY <1>0, RequestsAreFinite DEF SessionInv
      <4> QED
        BY <1>0, <2>3, <4>1, <4>2, <4>3 DEF AskedInv, Asked
    <3> QED
      BY <3>1, <3>2
  <2> QED
    BY <2>4, <2>5
<1> QED
  BY <1>2, <1>3

\* Every variable of a session keeps its type, for any budget of what goes wrong and
\* any number of presses of Re-sync; no answer asks in turn, so the requests are
\* numbered by the presses (session.go, useSession.ts resync).
THEOREM SessionTypeOK == Spec => []TypeOK
<1>1. Init => AskedInv
  <2> SUFFICES ASSUME Init PROVE AskedInv
    OBVIOUS
  <2>1. ASSUME NEW b \in Side PROVE Asked(b)
    <3>1. Requests(b) = {} /\ sealing[b] = {} /\ presses = 0
      BY DEF Init, Requests
    <3>2. Cardinality(Requests(b)) = 0
      BY <3>1, FS_EmptySet
    <3> QED
      BY <3>1, <3>2 DEF Asked, Asking
  <2>2. Numbered
    BY DEF Init, Numbered
  <2> QED
    BY <2>1, <2>2, InitSessionInv DEF AskedInv
<1>2. AskedInv /\ [Next]_vars /\ SessionInv' => AskedInv'
  <2> SUFFICES ASSUME AskedInv, [Next]_vars, SessionInv' PROVE AskedInv'
    OBVIOUS
  <2>1. Typed'
    BY DEF SessionInv
  <2> QED
    BY <2>1, NextAsked DEF AskedInv
<1>3. AskedInv => TypeOK
  <2> SUFFICES ASSUME AskedInv PROVE TypeOK
    OBVIOUS
  <2>1. Types
    BY DEF AskedInv, SessionInv, Typed
  <2>2. \A e \in sent : e.type = "resync" => e.nth < MaxPresses
    BY <2>1, BoundsAssumption DEF AskedInv, Numbered, Types, Event
  <2> QED
    BY <2>1, <2>2 DEF Types, TypeOK, Tab, Rec
<1> QED
  BY <1>1, <1>2, <1>3, SessionInvariant, PTL DEF Spec

----------------------------------------------------------------------------
(* The exchange. *)

\* Terms that were said are of a swap that was begun, and on their side's list; a right
\* contract that was said is built for the hash its funder still holds, and so is one
\* that was taken; nothing is held for a swap that was not begun.
Founded ==
    /\ \A b \in Side : \A e \in Said(b, "terms") : rec[b].made /\ shown[b].terms # 0
    /\ \A e \in Said("funds", "terms") : e.value = 2 => rec["funds"].got = 2
    /\ \A b \in Side : ~rec[b].made => rec[b].got = 0
    /\ rec["receives"].got # 0 => shown["funds"].terms # 0

\* Four steps move a record.
LEMMA RecordMoves ==
    ASSUME SessionInv, [Next]_vars
    PROVE  \/ rec' = rec
           \/ MistypeHash
           \/ \E b \in Side : CreateSwap(b)
           \/ \E b \in Side : Stake(b)
           \/ \E b \in Side : \E e \in sent : \E stale \in 0..2 :
                ValueArrives(b, e, stale) /\ rec' = Taken(b, e.value)
<1>1. ASSUME NEW b \in Side, Receives(b)
      PROVE  \/ rec' = rec
             \/ \E e \in sent : \E stale \in 0..2 :
                  ValueArrives(b, e, stale) /\ rec' = Taken(b, e.value)
  <2>1. PICK e \in sent : \/ Ignored(b, e) \/ OfferArrives(b, e) \/ ResyncArrives(b, e)
                          \/ \E stale \in 0..2 : ValueArrives(b, e, stale)
    BY <1>1, ReceivedIs DEF SessionInv
  <2>2. CASE Ignored(b, e) \/ OfferArrives(b, e) \/ ResyncArrives(b, e)
    BY <2>2 DEF Ignored, OfferArrives, ResyncArrives, browser
  <2>3. ASSUME NEW stale \in 0..2, ValueArrives(b, e, stale)
        PROVE  rec' = rec \/ rec' = Taken(b, e.value)
    BY <2>3 DEF ValueArrives
  <2> QED
    BY <2>1, <2>2, <2>3
<1>2. ASSUME NEW b \in Side, NEW m \in sealing[b], NotSent(b, m) PROVE rec' = rec
  BY <1>2 DEF NotSent
<1>3. ASSUME NEW b \in Side, Seals(b) PROVE rec' = rec
  BY <1>3 DEF Seals, Sent
<1> QED
  BY <1>1, <1>2, <1>3 DEF Next, Join, Attach, ListReloads, Leave, Press, TurnsLate, RelaysLose,
     vars, browser

\* A list that shows terms goes on showing some.
LEMMA TermsStayShown ==
    ASSUME SessionInv, [Next]_vars, NEW b \in Side, shown[b].terms # 0
    PROVE  shown'[b].terms # 0
<1>0. shown \in [Side -> Owings] /\ Typed
  BY SideFacts
<1>1. Owed(b).terms # 0
  BY ListIsOwed
<1>2. ASSUME NEW c \in Side, CreateSwap(c) PROVE shown'[b].terms # 0
  <2>1. ~rec[c].made /\ shown' = [shown EXCEPT ![c] = Owes(c)]
    BY <1>0, <1>2, CreateSwapDoes
  <2>2. c # b
    BY <2>1, NothingBefore
  <2> QED
    BY <1>0, <2>1, <2>2
<1>3. ASSUME NEW c \in Side, NEW reloaded \in BOOLEAN, Leave(c, reloaded)
      PROVE  shown'[b].terms # 0
  BY <1>0, <1>1, <1>3 DEF Leave
<1>4. ASSUME NEW c \in Side, ListReloads(c) PROVE shown'[b].terms # 0
  BY <1>0, <1>1, <1>4, ListReloadsDoes
<1>5. ASSUME NEW c \in Side, Receives(c) PROVE shown' = shown
  BY <1>5 DEF Receives, Ignored, OfferArrives, ResyncArrives, ValueArrives, browser
<1>6. ASSUME NEW c \in Side, Seals(c) \/ \E m \in sealing[c] : NotSent(c, m) PROVE shown' = shown
  BY <1>6 DEF Seals, Sent, NotSent
<1> QED
  BY <1>2, <1>3, <1>4, <1>5, <1>6 DEF Next, Join, Attach, Press, MistypeHash, TurnsLate, Stake,
     RelaysLose, vars, browser

\* What a record that takes terms rests on.
LEMMA ValueIsFounded ==
    ASSUME SessionInv, Founded, NEW b \in Side, NEW e \in sent, NEW stale \in 0..2,
           ValueArrives(b, e, stale)
    PROVE  /\ rec[b].made /\ rec[Other(b)].made /\ e.value \in 0..2
           /\ b = "funds" => e.value = 2
           /\ b = "receives" => /\ shown["funds"].terms # 0
                                /\ e.value = 2 => rec["funds"].got = 2
<1>1. /\ e \in Event /\ e.type = "terms" /\ e.by # b /\ tab[b].attached
      /\ e.by \in Side /\ e.value \in 0..2
  BY DEF ValueArrives, Opened, Carried, SessionInv, Typed, Types, Event
<1>2. rec[b].made
  BY <1>1, SideFacts DEF Steady
<1>3. CASE b = "funds"
  <2>1. e.by = "receives"
    BY <1>1, <1>3 DEF Side
  <2> QED
    BY <1>1, <1>2, <1>3, <2>1 DEF Founded, Said, SessionInv, HashesAreRight, Other
<1>4. CASE b = "receives"
  <2>1. e.by = "funds"
    BY <1>1, <1>4 DEF Side
  <2> QED
    BY <1>1, <1>2, <1>4, <2>1 DEF Founded, Said, Other, Side
<1> QED
  BY <1>3, <1>4 DEF Side

\* How a record that moves stands to what was said and is shown.
Forward ==
    /\ \A b \in Side : rec[b].made => rec'[b].made
    /\ \A b \in Side : ~rec'[b].made => rec'[b].got = 0
    /\ shown["funds"].terms # 0 /\ rec["funds"].got = 2 => rec'["funds"].got = 2
    /\ rec'["receives"].got # 0 => shown["funds"].terms # 0

LEMMA RecordsMoveForward == ASSUME SessionInv, Founded, [Next]_vars PROVE Forward
<1>0. Typed /\ "funds" \in Side /\ "receives" \in Side /\ Side = {"funds", "receives"}
  BY DEF SessionInv, Side
<1>1. CASE rec' = rec
  BY <1>1 DEF Founded, Forward
<1>2. CASE MistypeHash
  BY <1>0, <1>2, MistypeHashDoes DEF Founded, Forward
<1>3. ASSUME NEW b \in Side, CreateSwap(b) PROVE Forward
  <2>1. /\ ~rec[b].made /\ rec'[b].made /\ rec'[b].got = Had(b)
        /\ \A c \in Side \ {b} : rec'[c] = rec[c]
    BY <1>0, <1>3, CreateSwapDoes
  <2>2. rec[b].got = 0 /\ (b = "receives" => rec'[b].got = 0)
    BY <2>1 DEF Founded, Had
  <2> QED
    BY <1>0, <2>1, <2>2 DEF Founded, Forward
<1>4. ASSUME NEW b \in Side, Stake(b) PROVE Forward
  <2>1. /\ rec'[b].got = rec[b].got /\ rec'[b].made = rec[b].made
        /\ \A c \in Side \ {b} : rec'[c] = rec[c]
    BY <1>0, <1>4, StakeDoes
  <2> QED
    BY <1>0, <2>1 DEF Founded, Forward
<1>5. ASSUME NEW b \in Side, NEW e \in sent, NEW stale \in 0..2,
             ValueArrives(b, e, stale), rec' = Taken(b, e.value)
      PROVE  Forward
  <2>1. /\ rec[b].made /\ e.value \in 0..2 /\ (b = "funds" => e.value = 2)
        /\ b = "receives" => shown["funds"].terms # 0
    BY <1>5, ValueIsFounded
  <2>2. /\ \A c \in Side \ {b} : rec'[c] = rec[c]
        /\ rec'[b].made = rec[b].made /\ rec'[b].got \in {rec[b].got, e.value}
    <3>1. Typed /\ e.value \in 0..2 /\ rec' = Taken(b, e.value)
      BY <1>0, <1>5, <2>1
    <3> QED
      BY <3>1, TakenSets
  <2> QED
    BY <1>0, <2>1, <2>2 DEF Founded, Forward
<1> QED
  BY <1>1, <1>2, <1>3, <1>4, <1>5, RecordMoves

LEMMA FoundedAfter == ASSUME SessionInv, Founded, [Next]_vars PROVE Founded'
<1>0. "funds" \in Side /\ "terms" \in Key /\ Forward
  BY RecordsMoveForward DEF Side, Key
\* Terms said now were said before, or are what the record owes.
<1>1. ASSUME NEW b \in Side, NEW e \in Said(b, "terms")'
      PROVE  \/ e \in Said(b, "terms")
             \/ rec[b].made /\ shown[b].terms # 0 /\ e.value = Owed(b).terms
  <2>1. CASE sent' = sent
    BY <2>1 DEF Said
  <2>2. CASE \E c \in Side : CreateSwap(c) /\ sent' = sent \cup {Sealed(c, Offer)}
    <3>1. \A c \in Side : Sealed(c, Offer).type = "offer"
      BY DEF Sealed, Offer
    <3> QED
      BY <2>2, <3>1 DEF Said
  <2>3. ASSUME NEW c \in Side, NEW m \in sealing[c], Sent(c, m)
        PROVE  \/ e \in Said(b, "terms")
               \/ rec[b].made /\ shown[b].terms # 0 /\ e.value = Owed(b).terms
    <3>1. m \in Message /\ sent' = sent \cup {Sealed(c, m)} /\ Typed
      BY <2>3, SideFacts DEF Sent
    <3>2. m.type = "terms" => rec[c].made /\ m.value # 0 /\ shown[c].terms # 0
      BY <1>0, SideFacts DEF Steady, Grounded
    <3>3. /\ Sealed(c, m).by = c /\ Sealed(c, m).type = m.type
          /\ m.type \in Key => Sealed(c, m).value = IF m.value # 0 THEN Owed(c)[m.type] ELSE 0
      BY <3>1, SealedSays
    <3>4. CASE e \in sent
      BY <3>4 DEF Said
    <3>5. CASE e = Sealed(c, m)
      <4>1. c = b /\ m.type = "terms"
        BY <3>3, <3>5 DEF Said
      <4>2. e.value = Owed(b)["terms"]
        BY <1>0, <3>2, <3>3, <3>5, <4>1
      <4> QED
        BY <3>2, <4>1, <4>2
    <3> QED
      BY <3>1, <3>4, <3>5 DEF Said
  <2> QED
    BY <2>1, <2>2, <2>3, NextSends
<1>2. \A b \in Side : \A e \in Said(b, "terms")' : rec'[b].made /\ shown'[b].terms # 0
  BY <1>0, <1>1, TermsStayShown DEF Founded, Forward
<1>3. \A e \in Said("funds", "terms")' : e.value = 2 => rec'["funds"].got = 2
  <2>1. ASSUME NEW e \in Said("funds", "terms")', e.value = 2
        PROVE  shown["funds"].terms # 0 /\ rec["funds"].got = 2
    BY <1>0, <1>1, <2>1 DEF Founded, Owed
  <2> QED
    BY <1>0, <2>1 DEF Forward
<1>4. rec'["receives"].got # 0 => shown'["funds"].terms # 0
  BY <1>0, TermsStayShown DEF Forward
<1> QED
  BY <1>0, <1>2, <1>3, <1>4 DEF Founded, Forward

\* A step of the session is one of the exchange, or none.
LEMMA StepSwaps ==
    ASSUME SessionInv, Founded, [Next]_vars
    PROVE  \/ Swapped!Next
           \/ UNCHANGED <<{b \in Side : rec[b].made}, rec["funds"].got, rec["receives"].got,
                          rec["funds"].staked>>
<1> DEFINE begun == {b \in Side : rec[b].made}
           Same == UNCHANGED <<begun, rec["funds"].got, rec["receives"].got, rec["funds"].staked>>
<1>0. Typed /\ Side = {"funds", "receives"} /\ "funds" # "receives" /\ rec \in [Side -> Rec]
  BY SideFacts DEF SessionInv, Side
<1>1. CASE rec' = rec
  BY <1>1
<1>2. CASE MistypeHash
  <2>1. /\ rec["funds"].made /\ shown["funds"].terms = 0 /\ ~rec["funds"].staked
        /\ rec'["funds"].got = 1 /\ rec'["receives"] = rec["receives"]
        /\ rec'["funds"].staked = rec["funds"].staked
        /\ \A b \in Side : rec'[b].made = rec[b].made
    BY <1>0, <1>2, MistypeHashDoes
  <2>2. rec["receives"].got = 0
    BY <2>1 DEF Founded
  <2> QED
    BY <1>0, <2>1, <2>2 DEF Swapped!Next, Swapped!Mistype
<1>3. ASSUME NEW b \in Side, CreateSwap(b) PROVE Swapped!Next
  <2>1. /\ ~rec[b].made /\ rec'[b].made /\ rec[b].got = 0 /\ rec'[b].got = Had(b)
        /\ \A c \in Side \ {b} : rec'[c] = rec[c]
        /\ b # initiator => rec[initiator].made
        /\ rec'[b].staked = rec[b].staked
    BY <1>0, <1>3, CreateSwapDoes DEF Founded
  <2>2. begun' = begun \cup {b} /\ b \notin begun
    BY <2>1
  <2>3. rec'["receives"].got = rec["receives"].got
    BY <1>0, <2>1 DEF Had
  <2>4. initiator \in Side
    BY <1>0 DEF Typed, Types
  <2>5. \/ rec'["funds"].got = rec["funds"].got
        \/ "receives" \in begun /\ "funds" \notin begun /\ rec'["funds"].got = 2
    <3>1. CASE b = "funds" /\ b # initiator
      BY <1>0, <2>1, <2>4, <3>1 DEF Had
    <3>2. CASE b = "funds" /\ b = initiator
      BY <2>1, <3>2 DEF Had
    <3>3. CASE b = "receives"
      BY <1>0, <2>1, <3>3
    <3> QED
      BY <1>0, <3>1, <3>2, <3>3
  <2>6. rec'["funds"].staked = rec["funds"].staked
    BY <1>0, <2>1
  <2> HIDE DEF begun
  <2>7. /\ \E c \in {"funds", "receives"} \ begun : begun' = begun \cup {c}
        /\ \/ rec'["funds"].got = rec["funds"].got
           \/ "receives" \in begun /\ "funds" \notin begun /\ rec'["funds"].got = 2
        /\ rec'["receives"].got = rec["receives"].got
        /\ rec'["funds"].staked = rec["funds"].staked
    BY <1>0, <2>2, <2>3, <2>5, <2>6
  <2>8. Swapped!Begin
    BY <2>7 DEF Swapped!Begin, begun
  <2> QED
    BY <2>8 DEF Swapped!Next
<1>4. ASSUME NEW b \in Side, Stake(b) PROVE Swapped!Next \/ Same
  <2>1. /\ rec[b].made /\ (b = "funds" => rec[b].got # 0)
        /\ rec'[b].got = rec[b].got /\ rec'[b].made = rec[b].made /\ rec'[b].staked
        /\ \A c \in Side \ {b} : rec'[c] = rec[c]
    BY <1>0, <1>4, StakeDoes
  <2>2. begun' = begun
    BY <2>1
  <2>3. CASE b = "funds"
    BY <1>0, <2>1, <2>2, <2>3 DEF Swapped!Next, Swapped!Pay
  <2>4. CASE b = "receives"
    BY <1>0, <2>1, <2>2, <2>4
  <2> QED
    BY <1>0, <2>3, <2>4
<1>5. ASSUME NEW b \in Side, NEW e \in sent, NEW stale \in 0..2,
             ValueArrives(b, e, stale), rec' = Taken(b, e.value)
      PROVE  Swapped!Next \/ Same
  <2>1. /\ rec[b].made /\ rec[Other(b)].made /\ e.value \in 0..2
        /\ b = "funds" => e.value = 2
        /\ b = "receives" /\ e.value = 2 => rec["funds"].got = 2
    BY <1>5, ValueIsFounded
  <2>2. /\ \A c \in Side \ {b} : rec'[c] = rec[c]
        /\ rec'[b].made = rec[b].made /\ rec'[b].staked = rec[b].staked
        /\ rec'[b].got = IF Refused(b, e.value) THEN rec[b].got ELSE e.value
        /\ Refused(b, e.value) => rec' = rec
    <3>1. Typed /\ e.value \in 0..2 /\ rec' = Taken(b, e.value)
      BY <1>0, <1>5, <2>1
    <3> QED
      BY <3>1, TakenSets
  <2>3. rec["funds"].made /\ rec["receives"].made /\ begun' = begun
    <3>1. \A c \in Side : rec'[c].made = rec[c].made
      BY <2>2
    <3> QED
      BY <1>0, <2>1, <3>1 DEF Other
  <2>4. CASE Refused(b, e.value)
    BY <2>2, <2>4
  <2>5. CASE b = "funds" /\ ~Refused(b, e.value)
    <3>1. ~rec["funds"].staked
      BY <2>5 DEF Refused
    <3>2. /\ rec'["funds"].got = 2 /\ rec'["receives"] = rec["receives"]
          /\ rec'["funds"].staked = rec["funds"].staked
      BY <1>0, <2>1, <2>2, <2>5
    <3> QED
      BY <1>0, <2>3, <3>1, <3>2 DEF Swapped!Next, Swapped!HashArrives
  <2>6. CASE b = "receives" /\ ~Refused(b, e.value)
    <3>1. e.value = 2
      BY <1>0, <2>6 DEF Refused
    <3>2. rec'["receives"].got = 2 /\ rec'["funds"] = rec["funds"] /\ rec["funds"].got = 2
      BY <1>0, <2>1, <2>2, <2>6, <3>1
    <3> QED
      BY <1>0, <2>3, <3>2 DEF Swapped!Next, Swapped!ContractArrives
  <2> QED
    BY <1>0, <2>4, <2>5, <2>6
<1> QED
  BY <1>1, <1>2, <1>3, <1>4, <1>5, RecordMoves

\* The session implements the exchange, for any budget of what goes wrong and any
\* number of presses: the receiver takes a contract only when it is built for the hash
\* the funder holds of the receiver, and then neither is replaced, nor is any hash once
\* its contract is paid, however hand-offs are mistyped, lost, copied or overtaken
\* (useSession.ts applyValue, manager.go SetCounterpartyPKH, AuditContract).
THEOREM SessionExchanges == Spec => HandsOverTheRightContract
<1>1. Init => Founded /\ Swapped!Init
  <2> SUFFICES ASSUME Init PROVE Founded /\ Swapped!Init
    OBVIOUS
  <2>1. \A b \in Side : /\ ~rec[b].made /\ rec[b].got = 0 /\ ~rec[b].staked
                        /\ Said(b, "terms") = {}
    BY DEF Init, Said
  <2>2. "funds" \in Side /\ "receives" \in Side
    BY DEF Side
  <2> QED
    BY <2>1, <2>2 DEF Founded, Swapped!Init
<1>2. SessionInv /\ Founded /\ [Next]_vars => Founded'
  BY FoundedAfter
<1>3. SessionInv /\ Founded /\ [Next]_vars
        => [Swapped!Next]_<<{b \in Side : rec[b].made}, rec["funds"].got, rec["receives"].got,
                            rec["funds"].staked>>
  BY StepSwaps
<1> QED
  BY <1>1, <1>2, <1>3, SessionInvariant, PTL DEF Spec, HandsOverTheRightContract, Swapped!Spec
=============================================================================
