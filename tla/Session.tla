------------------------------ MODULE Session -------------------------------
(***************************************************************************)
(* A live session: two browsers hand each other what the other needs, over *)
(* relays (wasm/session.go, session_api.go, ui nostr.ts, useSession.ts,    *)
(* handoffs.ts).                                                           *)
(*                                                                         *)
(* One swap, one room.  Each side owes its terms, then its stake: the side *)
(* that receives Bitcoin its pubkey hash and then the id of its Zenon HTLC *)
(* when it made one, the funder the contract it builds for the hash it     *)
(* holds and then the funding.  Terms are 0 where there are none, 1 where  *)
(* the contract was built for a mistyped hash, 2 where they are right; a   *)
(* stake is 1 or none.  What a stake's arrival makes the other side read   *)
(* is in BtcLeg and ZenonLeg; pings and hellos only say who is there.      *)
(*                                                                         *)
(* A message is sealed by the engine (an await), handed to every relay     *)
(* that is open or queued until one is, and delivered by each of them, at  *)
(* any time, in any order and again to a new subscription.  Each copy is   *)
(* verified (an await) and one of them is applied, through the call the    *)
(* paste box uses.  The relays are one here that delivers copies; a queued *)
(* event is one not delivered yet, and one that found the queues full, or  *)
(* left there when its pool was closed, is lost.  A side's own messages,   *)
(* which come back to it, are left out, and the roles that tell them apart. *)
(***************************************************************************)
EXTENDS Naturals, FiniteSets

CONSTANTS Stakers,     \* the sides that come to stake something
          MaxPresses,  \* bound on the presses of Re-sync
          Budget       \* bound on all that happens to a run: a message lost, a call failing
                       \* and a tab leaving cost two; a mistyping, the contract's becoming
                       \* late, a stake and a press cost one

ASSUME BoundsAssumption == Budget \in Nat /\ MaxPresses \in Nat

VARIABLES initiator,   \* the side that created the swap first
          tab,         \* per side: in the room, attached to the swap
          rec,         \* per side: the swap's record, as the store has it
          late,        \* the contract's locktime leaves less than an audit wants
          shown,       \* per side: what is owed, as the page's list has it
          published,   \* per side: what publishOwed remembers to have sent
          sealing,     \* per side: the messages being sealed
          sent,        \* the events signed
          served,      \* the events some relay serves
          seen,        \* per side: the events accepted in this stay
          applied,     \* per side: how many values the engine took in this stay
          offered,     \* the offer waits for the other side's form
          spent, presses,
          reasons,     \* per side: how often it had cause to say everything again
          asked        \* since the last press both sides stayed and nothing failed

browser == <<tab, rec, late, shown, published, sealing>>
network == <<sent, served>>
inbox == <<seen, applied, offered>>
ghosts == <<spent, presses, reasons, asked>>
vars == <<initiator, browser, network, inbox, ghosts>>

----------------------------------------------------------------------------
Side == {"funds", "receives"}
Other(b) == IF b = "funds" THEN "receives" ELSE "funds"

Key == {"terms", "stake"}

\* What a side owes, or remembers to have sent, by key.
Owings == [terms : 0..2, stake : 0..1]
Nothing == [terms |-> 0, stake |-> 0]

\* A hand-off, its claimed value (0 for a stake sent with no swap attached, which
\* goes out empty), the reason it is sent for, and the stake the same round sends
\* after it; or a request to say everything again, or an offer.
Type == Key \cup {"offer", "resync"}
Message == [type : Type, value : 0..2, reason : Nat, rest : 0..1]
Offer == [type |-> "offer", value |-> 0, reason |-> 0, rest |-> 0]
Resync == [type |-> "resync", value |-> 0, reason |-> 0, rest |-> 0]

Event == [by : Side, nth : Nat, type : Type, value : 0..2, reason : Nat]

\* What b owes by its record: the hash of its key, or the contract it built for
\* the hash it was given; and the stake it made.
Owed(b) ==
    [terms |-> IF ~rec[b].made THEN 0 ELSE IF b = "receives" THEN 2 ELSE rec[b].got,
     stake |-> IF rec[b].staked THEN 1 ELSE 0]

InSession(b) == tab[b].here /\ tab[b].attached

----------------------------------------------------------------------------
\* Both joined, before either has a swap.
Init ==
    /\ initiator \in Side
    /\ tab = [b \in Side |-> [here |-> TRUE, attached |-> FALSE]]
    /\ rec = [b \in Side |-> [made |-> FALSE, got |-> 0, staked |-> FALSE]] /\ late = FALSE
    /\ shown = [b \in Side |-> Nothing] /\ published = [b \in Side |-> Nothing]
    /\ sealing = [b \in Side |-> {}]
    /\ sent = {}
    /\ served = {}
    /\ seen = [b \in Side |-> {}] /\ applied = [b \in Side |-> 0]
    /\ offered = FALSE
    /\ spent = 0 /\ presses = 0 /\ reasons = [b \in Side |-> 1] /\ asked = FALSE

Spend(n) == spent' = spent + n /\ spent' <= Budget
Slip == Spend(1) /\ asked' = FALSE
Fault == Spend(2) /\ asked' = FALSE

----------------------------------------------------------------------------
\* SealSession: the value is read off the record now.
Sealed(b, m) == [by |-> b, nth |-> Cardinality({e \in sent : e.by = b /\ e.type = m.type}),
                 type |-> m.type,
                 value |-> IF m.type \in Key /\ m.value # 0 THEN Owed(b)[m.type] ELSE 0,
                 reason |-> m.reason]

\* A form of Claim that marks nothing before the await.
ClaimLater(k, v, claims) == claims

\* What publishOwed remembers to have sent, before the await that sends it.
Claim(k, v, claims) == [claims EXCEPT ![k] = v]

\* A hand-off of value v as it is being sealed.
Says(k, v, n, rest) == [type |-> k, value |-> v, reason |-> n, rest |-> rest]

\* What b remembers to have sent, and what it is sealing, become these.
Keeps(b, claims, m) ==
    /\ published' = [published EXCEPT ![b] = claims]
    /\ sealing' = [sealing EXCEPT ![b] = m]

Due(list, claims, k) == list[k] \notin {0, claims[k]}

\* publishOwed, which runs whenever the list, the attached swap or the room
\* changed: what side b owes by its list where that is not what it remembers,
\* with the messages m that are being sealed already, for reason n.  The round
\* awaits the sending of the terms before it looks at the stake its list had.
PublishOwed(b, list, claims, m, n) ==
    IF Due(list, claims, "terms")
    THEN Keeps(b, Claim("terms", list.terms, claims),
               m \cup {Says("terms", list.terms, n, list.stake)})
    ELSE IF Due(list, claims, "stake")
    THEN Keeps(b, Claim("stake", list.stake, claims),
               m \cup {Says("stake", list.stake, n, 0)})
    ELSE Keeps(b, claims, m)

----------------------------------------------------------------------------
(* Joining, leaving, attaching. *)

Join(b) ==
    /\ ~tab[b].here
    /\ tab' = [tab EXCEPT ![b].here = TRUE, ![b].attached = FALSE]
    /\ published' = [published EXCEPT ![b] = Nothing]
    /\ seen' = [seen EXCEPT ![b] = {}] /\ applied' = [applied EXCEPT ![b] = 0]
    /\ reasons' = [reasons EXCEPT ![b] = @ + 1]
    /\ UNCHANGED <<initiator, rec, late, shown, sealing, network, offered,
                   spent, presses, asked>>

\* leave; or the page is reloaded, which ends what it was doing as well.
Leave(b, reloaded) ==
    /\ tab[b].here /\ Fault
    /\ tab' = [tab EXCEPT ![b].here = FALSE, ![b].attached = @ /\ ~reloaded]
    /\ published' = [published EXCEPT ![b] = Nothing]
    /\ shown' = [shown EXCEPT ![b] = IF reloaded THEN Owed(b) ELSE @]
    /\ sealing' = [sealing EXCEPT ![b] = IF reloaded THEN {} ELSE @]
    /\ UNCHANGED <<initiator, rec, late, network, inbox, presses, reasons>>

Attached(b) == [tab EXCEPT ![b].attached = TRUE]

\* Manager.Create on the page: the initiator's, whose offer is sent with it, or one
\* filled in from that offer, by hand where the session does not bring it.  The
\* offer carries the hash of the initiator's key.
Carried(b) == {e \in served : e.by # b}
CreateSwap(b) ==
    /\ tab[b].here /\ ~rec[b].made
    /\ b # initiator => /\ rec[initiator].made
                       /\ \A e \in Carried(b) \ seen[b] : e.type # "offer"
    /\ LET got == IF b = "funds" /\ b # initiator THEN 2 ELSE 0
           owes == [terms |-> IF b = "receives" THEN 2 ELSE got, stake |-> 0]
       IN /\ rec' = [rec EXCEPT ![b].made = TRUE, ![b].got = got]
          /\ shown' = [shown EXCEPT ![b] = owes]
          /\ PublishOwed(b, owes, published[b], sealing[b], reasons[b])
    /\ sent' = sent \cup IF b = initiator THEN {Sealed(b, Offer)} ELSE {}
    /\ served' = served \cup (sent' \ sent)
    /\ tab' = Attached(b)
    /\ UNCHANGED <<initiator, late, inbox, ghosts>>

\* A card's button.
Attach(b) ==
    /\ tab[b].here /\ rec[b].made /\ ~tab[b].attached
    /\ tab' = Attached(b)
    /\ PublishOwed(b, shown[b], published[b], sealing[b], reasons[b])
    /\ UNCHANGED <<initiator, rec, late, shown, network, inbox, ghosts>>

\* The funder types in a hash that is not theirs, into a form that is there while
\* the list shows no contract; SetCounterpartyPKH rebuilds a contract that is there.
MistypeHash ==
    /\ rec["funds"].made /\ shown["funds"].terms = 0 /\ ~rec["funds"].staked
    /\ rec["funds"].got # 1 /\ Slip
    /\ rec' = [rec EXCEPT !["funds"].got = 1]
    /\ UNCHANGED <<initiator, tab, late, shown, published, sealing, network, inbox, presses,
                   reasons>>

\* Money is staked on the swap's terms as they are: the contract is paid, or the
\* Zenon HTLC made.
Stake(b) ==
    /\ b \in Stakers /\ Spend(1)
    /\ rec[b].made /\ ~rec[b].staked /\ (b = "funds" => rec[b].got # 0)
    /\ rec' = [rec EXCEPT ![b].staked = TRUE]
    /\ UNCHANGED <<initiator, tab, late, shown, published, sealing, network, inbox, presses,
                   reasons, asked>>

\* The contract's locktime comes too near, or on the wrong side of the Zenon leg's.
TurnsLate ==
    /\ rec["funds"].got # 0 /\ ~late /\ Slip
    /\ late' = TRUE
    /\ UNCHANGED <<initiator, tab, rec, shown, published, sealing, network, inbox, presses,
                   reasons>>

\* The list is read again, after an accepted value or by the heartbeat, and is a
\* new one to the watcher whether or not it changed.
ListReloads(b) ==
    /\ shown' = [shown EXCEPT ![b] = Owed(b)]
    /\ IF InSession(b) THEN PublishOwed(b, Owed(b), published[b], sealing[b], reasons[b])
                       ELSE UNCHANGED <<published, sealing>>
    /\ UNCHANGED <<initiator, tab, rec, late, network, inbox, ghosts>>

----------------------------------------------------------------------------
(* Sending. *)

\* A form of Forgotten that trusts what it remembers.
Remembered(b) == published[b]

\* forgetPublished, for the attached swap.
Forgotten(b) == Nothing

\* resync: what was sent is forgotten, theirs is asked for, and ours said again.
Press(b) ==
    /\ InSession(b) /\ presses < MaxPresses /\ Spend(1)
    /\ presses' = presses + 1
    /\ published' = [published EXCEPT ![b] = Forgotten(b)]
    /\ sealing' = [sealing EXCEPT ![b] = @ \cup {Resync}]
    /\ reasons' = [reasons EXCEPT ![b] = @ + 1]
    /\ asked' = InSession(Other(b))
    /\ UNCHANGED <<initiator, tab, rec, late, shown, network, inbox>>

\* The end of a send, sent or not, with these claims: after a resync's,
\* publishOwed runs; after the terms', its round goes on to the stake with no new
\* look at the list or the attached swap, in whatever stay the tab is in by then.
Ends(b, m, claims) ==
    LET others == sealing[b] \ {m}
        carried == IF tab[b].attached THEN m.rest ELSE 0
    IN  IF m = Resync /\ InSession(b)
        THEN PublishOwed(b, shown[b], claims, others, reasons[b])
        ELSE IF m.type = "terms" /\ m.rest \notin {0, claims.stake} /\ tab[b].here
        THEN Keeps(b, Claim("stake", m.rest, claims),
                   others \cup {Says("stake", carried, reasons[b], 0)})
        ELSE Keeps(b, claims, others)

Sent(b, m) ==
    /\ m \in sealing[b] /\ tab[b].here
    /\ sent' = sent \cup {Sealed(b, m)}
    /\ served' = served \cup IF m.type = "stake" THEN {} ELSE {Sealed(b, m)}
    /\ Ends(b, m, published[b])
    /\ UNCHANGED <<initiator, tab, rec, late, shown, inbox, ghosts>>

\* A form of GivenBack that leaves the claim standing.
ClaimStands(k, claims) == claims

\* What a send that failed leaves of the claims.
GivenBack(k, claims) == [claims EXCEPT ![k] = 0]

\* The seal fails, or the room was left meanwhile.
NotSent(b, m) ==
    /\ m \in sealing[b]
    /\ IF tab[b].here THEN Fault ELSE UNCHANGED <<spent, asked>>
    /\ Ends(b, m, IF m.type \in Key THEN GivenBack(m.type, published[b]) ELSE published[b])
    /\ UNCHANGED <<initiator, tab, rec, late, shown, network, inbox, presses, reasons>>

----------------------------------------------------------------------------
(* The relays. *)

\* The relays drop an event, or none took it, or newer ones push it out of the
\* hundred that a subscription asks for.
RelaysLose(e) ==
    /\ e \in served /\ Fault
    /\ served' = served \ {e}
    /\ UNCHANGED <<initiator, browser, sent, inbox, presses, reasons>>

\* A form of Accepts without the second look after the await.
AcceptsUnseen(b, e) == TRUE

\* acceptEvent, when a copy has been verified: the first of them.
Accepts(b, e) == e \notin seen[b]

\* A form of Taken whose audit takes a contract that pays another key.
TakenAsItComes(b, v) == [rec EXCEPT ![b].got = v]

\* SetCounterpartyPKH takes any hash until money is staked on the one there;
\* AuditContract takes a contract that pays this side's key and is early enough.
\* (It refuses another contract than one staked on, but only one passes here, and
\* the same again is no change.)
Taken(b, v) ==
    LET refused == IF b = "funds" THEN rec[b].staked ELSE v # 2 \/ (late /\ rec[b].got # v)
    IN  [rec EXCEPT ![b].got = IF refused THEN @ ELSE v]

\* applyValue makes a call that met a stale write once more.
Retried(stale) == stale <= 1

\* A relay's copy of an event, stored or new, was opened: receive.  Another of it
\* may have been meanwhile.
Opened(b, e) ==
    /\ tab[b].here /\ e \in Carried(b)
    /\ seen' = [seen EXCEPT ![b] = @ \cup {e}]

\* A value or a request that reaches a tab with no swap attached is said to have
\* come, and lost on it.
Ignored(b, e) ==
    /\ Opened(b, e) /\ Accepts(b, e) /\ ~tab[b].attached /\ e.type # "offer"
    /\ UNCHANGED <<initiator, browser, network, applied, offered, ghosts>>

OfferArrives(b, e) ==
    /\ Opened(b, e) /\ Accepts(b, e) /\ e.type = "offer"
    /\ offered' = TRUE
    /\ UNCHANGED <<initiator, browser, network, applied, ghosts>>

\* A value goes to the engine, where it may meet stale writes.
ValueArrives(b, e, stale) ==
    /\ Opened(b, e) /\ Accepts(b, e) /\ e.type = "terms" /\ tab[b].attached
    /\ IF Retried(stale)
       THEN rec' = Taken(b, e.value) /\ applied' = [applied EXCEPT ![b] = @ + 1]
       ELSE UNCHANGED <<rec, applied>>
    /\ IF stale = 2 THEN Fault ELSE UNCHANGED <<spent, asked>>
    /\ UNCHANGED <<initiator, tab, late, shown, published, sealing, network, offered, presses,
                   reasons>>

\* A form of AnswersWith that asks for theirs in turn.
AnswersAsking(b) == sealing[b] \cup {Resync}

\* What an answered request leaves being sealed, besides what this side owes: it
\* "asks for hand-offs and never for another resync".
AnswersWith(b) == sealing[b]

\* A request to re-sync is answered with what this side owes.
ResyncArrives(b, e) ==
    /\ Opened(b, e) /\ Accepts(b, e) /\ e.type = "resync" /\ tab[b].attached
    /\ PublishOwed(b, shown[b], Forgotten(b), AnswersWith(b), reasons[b] + 1)
    /\ reasons' = [reasons EXCEPT ![b] = @ + 1]
    /\ UNCHANGED <<initiator, tab, rec, late, shown, network, applied, offered, spent, presses,
                   asked>>

----------------------------------------------------------------------------
Receives(b) ==
    \E e \in Carried(b) :
      \/ Ignored(b, e) \/ OfferArrives(b, e) \/ ResyncArrives(b, e)
      \/ \E stale \in 0..2 : ValueArrives(b, e, stale)
Seals(b) == \E m \in sealing[b] : Sent(b, m)

Next ==
    \/ MistypeHash \/ TurnsLate
    \/ \E b \in Side :
         \/ Join(b) \/ CreateSwap(b) \/ Attach(b) \/ ListReloads(b) \/ Stake(b)
         \/ \E reloaded \in BOOLEAN : Leave(b, reloaded)
         \/ Press(b) \/ Seals(b)
         \/ \E m \in sealing[b] : NotSent(b, m)
         \/ Receives(b)
    \/ \E e \in served : RelaysLose(e)

\* What the pages do by themselves; joining, attaching and pressing are the user's.
Fairness == \A b \in Side :
    /\ WF_vars(ListReloads(b)) /\ WF_vars(Seals(b))
    /\ WF_vars(Receives(b))

Spec == Init /\ [][Next]_vars /\ Fairness

----------------------------------------------------------------------------
TypeOK ==
    /\ initiator \in Side
    /\ tab \in [Side -> [here : BOOLEAN, attached : BOOLEAN]]
    /\ rec \in [Side -> [made : BOOLEAN, got : 0..2, staked : BOOLEAN]]
    /\ late \in BOOLEAN
    /\ shown \in [Side -> Owings] /\ published \in [Side -> Owings]
    /\ sealing \in [Side -> SUBSET Message]
    /\ sent \in SUBSET Event
    /\ \A e \in sent : e.type = "resync" => e.nth < MaxPresses
    /\ served \in SUBSET sent
    /\ seen \in [Side -> SUBSET sent]
    /\ applied \in [Side -> Nat]
    /\ offered \in BOOLEAN /\ asked \in BOOLEAN
    /\ spent \in 0..Budget /\ presses \in 0..MaxPresses
    /\ reasons \in [Side -> Nat]

\* "Returns whether it went, which is what lets publishOwed forget a hand-off it
\* failed to publish" (useSession.ts): what is remembered as sent, and is not
\* being sealed, was handed to the relays, that value or its replacement, since
\* it was last forgotten; save that a round which began before the tab left, came
\* back and attached nothing yet sends an empty stake in its place.
Gone(b, k) ==
    \/ \E m \in sealing[b] : m.type = k /\ m.reason = reasons[b]
    \/ \E e \in sent : /\ e.by = b /\ e.type = k /\ e.reason = reasons[b]
                       /\ e.value >= published[b][k] \/ (k = "stake" /\ e.value = 0)
ClaimsWereSent == \A b \in Side, k \in Key : published[b][k] = 0 \/ Gone(b, k)

\* "Nothing is sent twice" (docs/TESTING.md): a side says each thing it owes once
\* for each time it joined or was asked, and its terms once more where the contract
\* was rebuilt.
SaidOncePerReason ==
    \A b \in Side, k \in Key :
      Cardinality({e \in sent : e.by = b /\ e.type = k})
        <= reasons[b] + (IF b = "funds" /\ k = "terms" THEN 1 ELSE 0)

\* However many relays deliver an event, and however their verifications overlap,
\* its value is applied once in a stay.
CopiesApplyOnce ==
    \A b \in Side : applied[b] <= Cardinality({e \in seen[b] : e.type = "terms"})

\* "Re-sync repairs a lost hand-off" (docs/TESTING.md): after a press, unless
\* somebody leaves or something fails again, both sides come to hold the terms the
\* other owes them, whatever had been lost or mistyped before; unless the contract
\* has become late meanwhile, or the funder paid one built for a mistyped hash.
ResyncRepairs ==
    asked ~> \/ \A b \in Side : rec[b].got = 2
             \/ ~asked \/ late
             \/ rec["funds"].staked /\ rec["funds"].got = 1

\* The session implements the exchange: whatever is mistyped, lost, copied, replayed
\* from an earlier stay or delayed past a newer value, the receiver's record takes a
\* contract only when the funder holds the receiver's own hash, and neither is
\* replaced afterwards; nor is any hash once its contract is paid.
Swapped == INSTANCE Exchange WITH
    Funder <- "funds", Receiver <- "receives", None <- 0, Wrong <- 1, Right <- 2,
    begun <- {b \in Side : rec[b].made}, paid <- rec["funds"].staked,
    hash <- rec["funds"].got, contract <- rec["receives"].got
HandsOverTheRightContract == Swapped!Spec
=============================================================================
