------------------------------- MODULE Board --------------------------------
(***************************************************************************)
(* One post on the board (wasm/boardpost.go, boardstore.go, board_api.go,  *)
(* ui useBoard.ts, nostr.ts).                                              *)
(*                                                                         *)
(* A post is a slot.  Its author's browser keeps one record of it and      *)
(* signs a version of it for every edit, acceptance and withdrawal: the    *)
(* engine saves the record first, under the store lock, and hands back     *)
(* what the page then publishes to every relay, if the board is still      *)
(* open in that tab.  Relays keep the newest version of a slot and, of two *)
(* of one second, the one with the lower id; a reader's page merges what   *)
(* the relays it is connected to deliver, in any order, by the same rule.  *)
(* A withdrawal is two events: a last version that says so and soon        *)
(* expires, and a request to forget the slot, which some relays honour.    *)
(*                                                                         *)
(* Seconds are 1..MaxTime.  The author's clock is right or a second behind *)
(* at each reading.  The terms, the proofs of addresses, the takes and the *)
(* presence beats are left out.                                            *)
(*                                                                         *)
(* What was published may reach a relay at any time, again, or, if a queue *)
(* was full or the board closed before a relay answered, never; and of     *)
(* what reached one, a reader may be given any version, late or never, and *)
(* what a relay keeps at the latest when it connects again.                *)
(***************************************************************************)
EXTENDS Naturals, FiniteSets

CONSTANTS Tabs,         \* tabs of the author's browser
          Relays,
          Readers,      \* pages of other browsers, for one stay each
          None,         \* no record, no version
          Life,         \* DefaultPostTTL
          MinPostTTL,
          MaxTime,      \* bound on the clock
          MaxVersions   \* bound on the versions signed

ASSUME BoundsAssumption == /\ MaxTime \in Nat \ {0} /\ MaxVersions \in Nat
                           /\ MinPostTTL \in Nat \ {0} /\ Life \in Nat /\ Life >= MinPostTTL

VARIABLES now,
          record,    \* MyPost, in the author's storage
          signed,    \* the versions signed so far
          mine,      \* per tab: its page's copy of the record
          pool,      \* the tabs in which the board is open
          job,       \* per tab: "idle" or "publishing"
          inHand,    \* per tab: the events the engine answered with
          published, \* the events handed to the relays
          kept,      \* per relay: the version it serves
          buried,    \* per relay: it was asked to forget versions up to here
          read,      \* per reader: the versions it has verified and merged in this stay
          held       \* per reader: the version its list shows

author == <<record, signed>>
page == <<mine, pool, job, inHand>>
relays == <<kept, buried>>
reader == <<read, held>>
vars == <<now, author, page, published, relays, reader>>

----------------------------------------------------------------------------
Status == {"open", "taken", "void"}

Expiry == 0..(MaxTime + Life)

\* nth is the order of signing, which no event carries.
Version == [nth : 0..MaxVersions, at : Nat, id : 0..(MaxVersions + 1), status : Status, expires : Expiry]

\* A request to forget the slot, of its versions up to a time.
Request == [forget : 0..MaxTime]

Post == [status : Status, created : 0..MaxTime, expires : Expiry, publishedAt : Nat]

ASSUME NoneAssumption == None \notin Post \cup Version

\* A form of Deadline that counts from the old one.
Prolonged(t, old) == old + Life

\* What publishing, editing and renewing set it to.
Deadline(t, old) == t + Life

\* A clock's reading by the author.
Clock == {now, now - 1}

\* A form of Standing that overlooks the posts in mid-trade.
Live(p, t) == p.status = "open" /\ t < p.expires

\* BoardPost.Standing
Standing(p, t) == p.status \in {"open", "taken"} /\ t < p.expires

\* NIP-01's rule, and supersedes: newer, or of the same second with the lower id.
Newest(next, old) == next.at > old.at \/ (next.at = old.at /\ next.id < old.id)

\* A form of supersedes that lets the later arrival win a tie.
LaterArrival(next, old) == next.at >= old.at

supersedes(next, old) == Newest(next, old)

\* A form of Accepted without the comparison.
AcceptedAsItComes(list, v) == v

\* accept: what the list shows once v was verified.
Accepted(list, v) == IF list = None THEN v ELSE IF supersedes(v, list) THEN v ELSE list

\* A form of CreatedAt without the floor.
WallClock(t, notBefore) == t

\* SealPostAfter: the time of an event that replaces one of time notBefore.
CreatedAt(t, notBefore) == IF t <= notBefore THEN notBefore + 1 ELSE t

----------------------------------------------------------------------------
\* Nobody's board yet; or a post an earlier build published twice in one second,
\* of which each relay kept the version it got.
Init ==
    /\ now = 1
    /\ \/ /\ record = None /\ signed = {} /\ kept = [r \in Relays |-> None]
       \/ /\ signed = {[nth |-> 0, at |-> 1, id |-> i, status |-> "open",
                        expires |-> 1 + Life] : i \in {0, 1}}
          /\ record = [status |-> "open", created |-> 1, expires |-> 1 + Life,
                       publishedAt |-> 1]
          /\ kept \in [Relays -> signed]
    /\ mine = [t \in Tabs |-> None]
    /\ pool = {}
    /\ job = [t \in Tabs |-> "idle"] /\ inHand = [t \in Tabs |-> {}]
    /\ published = signed
    /\ buried = [r \in Relays |-> 0]
    /\ read = [c \in Readers |-> {}] /\ held = [c \in Readers |-> None]

----------------------------------------------------------------------------
(* The author: the engine's calls, each under the store lock. *)

\* SealPostAfter and SaveMyPost: post p, stamped by a clock that reads t, replaces
\* what is recorded, and the time of the version signed is recorded with it.  The
\* page has the events now.  validate refuses what expires before it was written.
\* An id is a hash; a version's is the one with which it would lose a tie.
Seal(tab, p, t, extra) ==
    LET nth == Cardinality({w \in signed : w.nth > 0}) + 1
        at == CreatedAt(t, IF record = None THEN 0 ELSE record.publishedAt)
        v == [nth |-> nth, at |-> at, id |-> nth + 1, status |-> p.status,
              expires |-> p.expires]
    IN /\ nth <= MaxVersions
       /\ p.expires > p.created
       /\ signed' = signed \cup {v}
       /\ record' = [p EXCEPT !.publishedAt = at]
       /\ inHand' = [inHand EXCEPT ![tab] = {v} \cup extra]
       /\ job' = [job EXCEPT ![tab] = "publishing"]
       /\ UNCHANGED <<now, mine, pool, published, relays, reader>>

\* handleBoardPublish of a slot of its own.
NewPost(tab) ==
    /\ job[tab] = "idle" /\ record = None /\ signed = {}
    /\ \E t \in Clock :
         Seal(tab, [status |-> "open", created |-> t, expires |-> Deadline(t, t),
                    publishedAt |-> t], t, {})

\* handleBoardPublish from the form or the Renew button, which a row of the page
\* offers by its copy: the post is open again, whatever the record says it is,
\* and keeps its slot and its creation.
Edit(tab) ==
    /\ job[tab] = "idle" /\ mine[tab] # None /\ mine[tab].status # "void"
    /\ record # None
    /\ \E t \in Clock :
         Seal(tab, [record EXCEPT !.status = "open",
                                  !.expires = Deadline(t, record.expires)], t, {})

\* accept_, once the taker's room is joined and named in the record: the post is
\* published as taken, with what is left of its life by the page's copy.
AcceptTake(tab) ==
    /\ job[tab] = "idle" /\ mine[tab] # None /\ mine[tab].status \in {"open", "taken"}
    /\ record # None
    /\ \E t \in Clock :
         Seal(tab, [record EXCEPT !.status = "taken",
                      !.expires = IF mine[tab].expires >= t + MinPostTTL
                                  THEN mine[tab].expires ELSE t + MinPostTTL], t, {})

\* handleBoardWithdraw, whatever the status.
Withdraw(tab) ==
    /\ job[tab] = "idle" /\ mine[tab] # None /\ mine[tab].status \in {"open", "taken"}
    /\ record # None
    /\ \E t \in Clock : Seal(tab, [record EXCEPT !.status = "void",
                                     !.expires = t + MinPostTTL], t, {[forget |-> t]})

\* publishAll, after the call has answered.  Where the board was closed meanwhile
\* the record stands, nothing is published, and the page's copy stays as it was.
PublishAll(tab) ==
    /\ job[tab] = "publishing"
    /\ IF tab \in pool
       THEN published' = published \cup inHand[tab] /\ mine' = [mine EXCEPT ![tab] = record]
       ELSE UNCHANGED <<published, mine>>
    /\ inHand' = [inHand EXCEPT ![tab] = {}]
    /\ job' = [job EXCEPT ![tab] = "idle"]
    /\ UNCHANGED <<now, author, pool, relays, reader>>

\* DeleteMyPost, behind a button that the page's copy enables.
Forget(tab) ==
    /\ job[tab] = "idle" /\ mine[tab] # None /\ \E t \in Clock : ~Standing(mine[tab], t)
    /\ record # None /\ \E t \in Clock : ~Standing(record, t)
    /\ record' = None
    /\ mine' = [mine EXCEPT ![tab] = None]
    /\ UNCHANGED <<now, signed, pool, job, inHand, published, relays, reader>>

\* start and stop, with the page and at any time.
Open(tab) ==
    /\ pool' = pool \cup {tab}
    /\ mine' = [mine EXCEPT ![tab] = record]
    /\ UNCHANGED <<now, author, job, inHand, published, relays, reader>>

Close(tab) ==
    /\ tab \in pool /\ pool' = pool \ {tab}
    /\ UNCHANGED <<now, author, mine, job, inHand, published, relays, reader>>

----------------------------------------------------------------------------
(* The relays. *)

\* A version reaches relay r, which keeps it if it is newer than what it has.
Arrive(r, v) ==
    /\ v.at > buried[r] /\ (IF kept[r] = None THEN TRUE ELSE Newest(v, kept[r]))
    /\ kept' = [kept EXCEPT ![r] = v]
    /\ UNCHANGED <<now, author, page, published, buried, reader>>

\* A request to forget reaches r, which honours it.
Bury(r, e) ==
    /\ e.forget > buried[r] /\ buried' = [buried EXCEPT ![r] = e.forget]
    /\ kept' = [kept EXCEPT ![r] = IF @ = None THEN None
                                   ELSE IF @.at <= e.forget THEN None ELSE @]
    /\ UNCHANGED <<now, author, page, published, reader>>

\* A relay drops what has expired.
Expire(r) ==
    /\ kept[r] # None /\ kept[r].expires <= now
    /\ kept' = [kept EXCEPT ![r] = None]
    /\ UNCHANGED <<now, author, page, published, buried, reader>>

----------------------------------------------------------------------------
(* The readers. *)

\* receive and accept: a copy of v that was delivered is verified and merged.
Read(c, v) ==
    /\ v \notin read[c] /\ read' = [read EXCEPT ![c] = @ \cup {v}]
    /\ held' = [held EXCEPT ![c] = Accepted(@, v)]
    /\ UNCHANGED <<now, author, page, published, relays>>

\* A subscription, or its renewal after a pause, delivers what relay r keeps.
ReadKept(c, r) == kept[r] # None /\ Read(c, kept[r])

Tick == /\ now < MaxTime /\ now' = now + 1
        /\ UNCHANGED <<author, page, published, relays, reader>>

----------------------------------------------------------------------------
Author == \E tab \in Tabs :
    \/ NewPost(tab) \/ Edit(tab) \/ AcceptTake(tab) \/ Withdraw(tab) \/ PublishAll(tab) \/ Forget(tab)
    \/ Open(tab) \/ Close(tab)

Network == \E r \in Relays :
    \/ \E v \in published \ Request : Arrive(r, v)
    \/ \E e \in published \cap Request : Bury(r, e)
    \/ Expire(r)

Reader == \E c \in Readers, v \in published \ Request : Read(c, v)

Next == Author \/ Network \/ Reader \/ Tick

\* A reader's page connects again after four seconds and merges what it is given.
Fairness == \A c \in Readers, r \in Relays : WF_vars(ReadKept(c, r))

Spec == Init /\ [][Next]_vars /\ Fairness

----------------------------------------------------------------------------
TypeOK ==
    /\ now \in 1..MaxTime
    /\ record \in Post \cup {None} /\ signed \in SUBSET Version
    /\ mine \in [Tabs -> Post \cup {None}] /\ pool \in SUBSET Tabs
    /\ job \in [Tabs -> {"idle", "publishing"}]
    /\ inHand \in [Tabs -> SUBSET (signed \cup Request)]
    /\ published \in SUBSET (signed \cup Request)
    /\ kept \in [Relays -> signed \cup {None}] /\ buried \in [Relays -> 0..MaxTime]
    /\ read \in [Readers -> SUBSET signed]
    /\ held \in [Readers -> signed \cup {None}]

\* "A republish is always strictly newer than what it replaces": whatever clock
\* and tab it was signed by, a later version wins over every earlier one, and
\* the record knows the time of the last.  Otherwise a withdrawal might lose.
RepublishIsNewer ==
    /\ \A v, w \in signed : v.nth < w.nth => v.at < w.at
    /\ record # None => \A v \in signed : v.at <= record.publishedAt

\* "Two readers of the same relays must see the same board": what a page shows
\* is settled by what it has read, the newest of it, in whatever order it came.
ShowsTheNewestRead ==
    \A c \in Readers :
        IF read[c] = {} THEN held[c] = None
        ELSE /\ held[c] \in read[c]
             /\ \A v \in read[c] \ {held[c]} : Newest(held[c], v)

\* A record is forgotten only when the last version signed from it, in any tab,
\* is a withdrawal or has run out: nothing else could take the offer down.
ForgetsNoStandingOffer ==
    [][record # None /\ record' = None =>
         \A v \in signed : (\A w \in signed : w.at <= v.at)
                             => v.status = "void" \/ v.expires <= now]_vars

\* c shows an offer of which relay r serves the withdrawal.
Misled(c, r) == /\ kept[r] # None /\ kept[r].status = "void"
                /\ held[c] # None /\ held[c].status # "void" /\ Newest(kept[r], held[c])

\* No reader shows for good an offer whose withdrawal a relay of its list still
\* serves, whatever was lost, and whichever of the two it was given first.
WithdrawalIsSeen == \A c \in Readers, r \in Relays : []<>~Misled(c, r)

\* The board implements the slot: to every relay and every reader a post is its
\* versions in the order they were signed, whatever tabs and clocks they came from
\* and in whatever order, late or again, they are delivered.
Number(v) == IF v = None THEN 0 ELSE v.nth + 1
Abstract == INSTANCE Slot WITH
    Versions <- 1..(MaxVersions + 1),
    made <- {Number(v) : v \in signed},
    out <- {Number(v) : v \in published \ Request},
    keeps <- [r \in Relays |-> Number(kept[r])],
    shows <- [c \in Readers |-> Number(held[c])]
PostIsASlot == Abstract!Spec
=============================================================================
