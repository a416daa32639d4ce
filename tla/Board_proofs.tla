---------------------------- MODULE Board_proofs ----------------------------
(***************************************************************************)
(* Theorems about Board, for any tabs, relays, readers and bounds.         *)
(*                                                                         *)
(* The argument is about Seal, the one step that signs a version: its time *)
(* is above the recorded one, and the recorded one is above every version  *)
(* signed (Stamps).  So two versions are never tied, but for the two of an *)
(* earlier build, which differ in their ids (Unlike); Newest is then a     *)
(* total order on what was signed, and a merge by it does not depend on    *)
(* the order of arrival.  What the record says is what its last version    *)
(* says (Mirrors), which is what a Forget in any tab goes by.              *)
(***************************************************************************)
EXTENDS Board, FiniteSetTheorems, TLAPS

\* The versions signed by this build: what an nth counts.
Own == {w \in signed : w.nth > 0}

\* The versions are finitely many and numbered in the order of signing.
Numbered == /\ IsFiniteSet(signed)
            /\ \A v \in signed : v.nth <= Cardinality(Own)

\* The strengthening of RepublishIsNewer.
Stamps == Numbered /\ RepublishIsNewer

\* No two versions are of one second and one id.
Unlike == \A v, w \in signed : v.at = w.at /\ v.id = w.id => v = w

\* The record says what the last version signed from it says.
Mirrors == record # None =>
    \A v \in signed : (\A w \in signed : w.at <= v.at)
                        => v.status = record.status /\ v.expires = record.expires

\* A call that seals a post; where nothing is recorded, nothing was signed.
Seals == \E tab \in Tabs, p \in Post, t \in 0..MaxTime, extra \in SUBSET Request :
            Seal(tab, p, t, extra) /\ (record = None => signed = {})

\* Every other step.
SignsNothing == UNCHANGED signed /\ (record' = record \/ record' = None)

----------------------------------------------------------------------------
LEMMA ClockIsPast == ASSUME TypeOK PROVE Clock \subseteq 0..MaxTime
BY BoundsAssumption DEF TypeOK, Clock

\* What a deadline or a remaining life comes to is a time of the model.
LEMMA ExpiriesAreTimes ==
    ASSUME NEW t \in 0..MaxTime
    PROVE  t + Life \in Expiry /\ t + MinPostTTL \in Expiry
BY BoundsAssumption DEF Expiry

LEMMA NewPostSeals ==
    ASSUME TypeOK, NEW tab \in Tabs, NewPost(tab)
    PROVE  Seals
<1>1. PICK t \in Clock : Seal(tab, [status |-> "open", created |-> t,
                                    expires |-> Deadline(t, t), publishedAt |-> t], t, {})
  BY DEF NewPost
<1>2. t \in 0..MaxTime
  BY ClockIsPast
<1>3. [status |-> "open", created |-> t, expires |-> Deadline(t, t), publishedAt |-> t] \in Post
  BY <1>2, ExpiriesAreTimes, BoundsAssumption DEF Post, Status, Deadline
<1>4. signed = {}
  BY DEF NewPost
<1> QED
  BY <1>1, <1>2, <1>3, <1>4 DEF Seals

LEMMA EditSeals ==
    ASSUME TypeOK, NEW tab \in Tabs, Edit(tab)
    PROVE  Seals
<1>1. PICK t \in Clock : Seal(tab, [record EXCEPT !.status = "open",
                                  !.expires = Deadline(t, record.expires)], t, {})
  BY DEF Edit
<1>2. t \in 0..MaxTime
  BY ClockIsPast
<1>3. record \in Post /\ record # None
  BY DEF Edit, TypeOK
<1>4. [record EXCEPT !.status = "open", !.expires = Deadline(t, record.expires)] \in Post
  BY <1>2, <1>3, ExpiriesAreTimes DEF Post, Status, Deadline
<1> QED
  BY <1>1, <1>2, <1>3, <1>4 DEF Seals

LEMMA AcceptTakeSeals ==
    ASSUME TypeOK, NEW tab \in Tabs, AcceptTake(tab)
    PROVE  Seals
<1> DEFINE Left(t) == IF mine[tab].expires >= t + MinPostTTL
                      THEN mine[tab].expires ELSE t + MinPostTTL
<1>1. PICK t \in Clock : Seal(tab, [record EXCEPT !.status = "taken",
                                                  !.expires = Left(t)], t, {})
  BY DEF AcceptTake
<1>2. t \in 0..MaxTime
  BY ClockIsPast
<1>3. record \in Post /\ record # None /\ mine[tab] \in Post
  BY DEF AcceptTake, TypeOK
<1>4. Left(t) \in Expiry
  BY <1>2, <1>3, ExpiriesAreTimes DEF Post
<1>5. [record EXCEPT !.status = "taken", !.expires = Left(t)] \in Post
  BY <1>3, <1>4 DEF Post, Status
<1> QED
  BY <1>1, <1>2, <1>3, <1>5 DEF Seals

LEMMA WithdrawSeals ==
    ASSUME TypeOK, NEW tab \in Tabs, Withdraw(tab)
    PROVE  Seals
<1>1. PICK t \in Clock : Seal(tab, [record EXCEPT !.status = "void",
                                     !.expires = t + MinPostTTL], t, {[forget |-> t]})
  BY DEF Withdraw
<1>2. t \in 0..MaxTime
  BY ClockIsPast
<1>3. record \in Post /\ record # None
  BY DEF Withdraw, TypeOK
<1>4. [record EXCEPT !.status = "void", !.expires = t + MinPostTTL] \in Post
  BY <1>2, <1>3, ExpiriesAreTimes DEF Post, Status
<1>5. {[forget |-> t]} \in SUBSET Request
  BY <1>2 DEF Request
<1> QED
  BY <1>1, <1>2, <1>3, <1>4, <1>5 DEF Seals

LEMMA StepSealsOrNot == TypeOK /\ [Next]_vars => Seals \/ SignsNothing
<1> SUFFICES ASSUME TypeOK, [Next]_vars PROVE Seals \/ SignsNothing
  OBVIOUS
<1> USE DEF SignsNothing
<1>1. ASSUME NEW tab \in Tabs, NewPost(tab) PROVE Seals
  BY <1>1, NewPostSeals
<1>2. ASSUME NEW tab \in Tabs, Edit(tab) PROVE Seals
  BY <1>2, EditSeals
<1>3. ASSUME NEW tab \in Tabs, AcceptTake(tab) PROVE Seals
  BY <1>3, AcceptTakeSeals
<1>4. ASSUME NEW tab \in Tabs, Withdraw(tab) PROVE Seals
  BY <1>4, WithdrawSeals
<1>5. ASSUME NEW tab \in Tabs, PublishAll(tab) PROVE SignsNothing
  BY <1>5 DEF PublishAll, author
<1>6. ASSUME NEW tab \in Tabs, Forget(tab) PROVE SignsNothing
  BY <1>6 DEF Forget
<1>7. ASSUME NEW tab \in Tabs, Open(tab) \/ Close(tab) PROVE SignsNothing
  BY <1>7 DEF Open, Close, author
<1>8. CASE Network
  BY <1>8 DEF Network, Arrive, Bury, Expire, author
<1>9. CASE Reader
  BY <1>9 DEF Reader, Read, author
<1>10. CASE Tick \/ UNCHANGED vars
  BY <1>10 DEF Tick, vars, author
<1> QED
  BY <1>1, <1>2, <1>3, <1>4, <1>5, <1>6, <1>7, <1>8, <1>9, <1>10 DEF Next, Author

\* What a call that seals leaves behind.
LEMMA Sealed ==
    ASSUME TypeOK, Numbered,
           NEW tab \in Tabs, NEW p \in Post, NEW t \in 0..MaxTime, NEW extra \in SUBSET Request,
           Seal(tab, p, t, extra)
    PROVE  \E v \in Version :
              /\ v.nth = Cardinality(Own) + 1 /\ v.id = v.nth + 1
              /\ v.status = p.status /\ v.expires = p.expires
              /\ record # None => v.at > record.publishedAt
              /\ signed' = signed \cup {v}
              /\ record' = [p EXCEPT !.publishedAt = v.at] /\ record' \in Post
              /\ inHand' = [inHand EXCEPT ![tab] = {v} \cup extra]
              /\ job' = [job EXCEPT ![tab] = "publishing"]
              /\ UNCHANGED <<now, mine, pool, published, relays, reader>>
<1> DEFINE nth == Cardinality(Own) + 1
           at == CreatedAt(t, IF record = None THEN 0 ELSE record.publishedAt)
           v == [nth |-> nth, at |-> at, id |-> nth + 1, status |-> p.status,
                 expires |-> p.expires]
<1>1. IsFiniteSet(Own) /\ nth \in Nat \ {0}
  BY FS_Subset, FS_CardinalityType DEF Numbered, Own
<1>2. at \in Nat /\ (record # None => at > record.publishedAt)
  BY DEF CreatedAt, TypeOK, Post
<1>3. nth <= MaxVersions
  BY DEF Seal, Own
<1>4. v \in Version
  BY <1>1, <1>2, <1>3, BoundsAssumption DEF Version, Post
<1>5. [p EXCEPT !.publishedAt = at] \in Post
  BY <1>2 DEF Post
<1> QED
  BY <1>2, <1>4, <1>5 DEF Seal, Own

----------------------------------------------------------------------------
(* Type correctness. *)

\* Nothing but Seal changes what is signed or makes a record.
LEMMA NumberedStaysOrGrows ==
    TypeOK /\ Numbered /\ [Next]_vars => Numbered'
<1> SUFFICES ASSUME TypeOK, Numbered, [Next]_vars PROVE Numbered'
  OBVIOUS
<1>1. CASE SignsNothing
  BY <1>1 DEF SignsNothing, Numbered, Own
<1>2. CASE Seals
  <2>1. PICK tab \in Tabs, p \in Post, t \in 0..MaxTime, extra \in SUBSET Request :
            Seal(tab, p, t, extra)
    BY <1>2 DEF Seals
  <2>2. PICK v \in Version : v.nth = Cardinality(Own) + 1 /\ signed' = signed \cup {v}
    BY <2>1, Sealed
  <2>3. IsFiniteSet(Own) /\ Cardinality(Own) \in Nat
    BY FS_Subset, FS_CardinalityType DEF Numbered, Own
  <2>4. Own' = Own \cup {v} /\ v \notin Own
    BY <2>2, <2>3 DEF Own, Numbered, TypeOK, Version
  <2>5. Cardinality(Own') = Cardinality(Own) + 1
    BY <2>3, <2>4, FS_AddElement
  <2>6. IsFiniteSet(signed')
    BY <2>2, FS_AddElement DEF Numbered
  <2>7. \A w \in signed' : w.nth <= Cardinality(Own')
    BY <2>2, <2>3, <2>5 DEF Numbered, TypeOK, Version
  <2> QED
    BY <2>6, <2>7 DEF Numbered, Own
<1> QED
  BY <1>1, <1>2, StepSealsOrNot

LEMMA InitTypeOK == Init => TypeOK /\ Numbered
<1> SUFFICES ASSUME Init PROVE TypeOK /\ Numbered
  OBVIOUS
<1>1. CASE record = None /\ signed = {} /\ kept = [r \in Relays |-> None]
  <2>1. Own = {}
    BY <1>1 DEF Own
  <2>2. Numbered
    BY <1>1, <2>1, FS_EmptySet DEF Numbered
  <2> QED
    BY <1>1, <2>2, BoundsAssumption DEF Init, TypeOK
<1>2. ASSUME signed = {[nth |-> 0, at |-> 1, id |-> i, status |-> "open",
                        expires |-> 1 + Life] : i \in {0, 1}},
             record = [status |-> "open", created |-> 1, expires |-> 1 + Life,
                       publishedAt |-> 1],
             kept \in [Relays -> signed]
      PROVE  TypeOK /\ Numbered
  <2> DEFINE L(i) == [nth |-> 0, at |-> 1, id |-> i, status |-> "open",
                      expires |-> 1 + Life]
  <2>1. 1 + Life \in Expiry /\ 1 \in 1..MaxTime /\ {0, 1} \subseteq 0..(MaxVersions + 1)
    BY BoundsAssumption DEF Expiry
  <2>2. L(0) \in Version /\ L(1) \in Version /\ signed = {L(0), L(1)}
    BY <1>2, <2>1, BoundsAssumption DEF Version, Status
  <2>3. record \in Post
    BY <1>2, <2>1 DEF Post, Status
  <2>4. IsFiniteSet(signed)
    <3> HIDE DEF L
    <3>1. IsFiniteSet({L(0)} \cup {L(1)})
      BY FS_Singleton, FS_AddElement
    <3>2. signed = {L(0)} \cup {L(1)}
      BY <2>2
    <3> QED
      BY <3>1, <3>2
  <2>5. Own = {}
    BY <2>2 DEF Own
  <2>6. Cardinality(Own) = 0
    BY <2>5, FS_EmptySet
  <2>7. Numbered
    BY <2>2, <2>4, <2>6 DEF Numbered
  <2>8. /\ now = 1 /\ pool = {} /\ job = [t \in Tabs |-> "idle"]
        /\ mine = [t \in Tabs |-> None] /\ inHand = [t \in Tabs |-> {}]
        /\ published = signed /\ buried = [r \in Relays |-> 0]
        /\ read = [c \in Readers |-> {}] /\ held = [c \in Readers |-> None]
    BY DEF Init
  <2>9. signed \subseteq Version
    BY <2>2
  <2> HIDE DEF L
  <2>10. /\ now \in 1..MaxTime /\ record \in Post \cup {None} /\ signed \in SUBSET Version
         /\ mine \in [Tabs -> Post \cup {None}] /\ pool \in SUBSET Tabs
         /\ job \in [Tabs -> {"idle", "publishing"}]
         /\ inHand \in [Tabs -> SUBSET (signed \cup Request)]
    BY <2>1, <2>3, <2>8, <2>9
  <2>11. kept \in [Relays -> signed \cup {None}]
    BY <1>2
  <2>12. /\ published \in SUBSET (signed \cup Request) /\ buried \in [Relays -> 0..MaxTime]
         /\ read \in [Readers -> SUBSET signed]
         /\ held \in [Readers -> signed \cup {None}]
    BY <2>8, BoundsAssumption
  <2> QED
    BY <2>7, <2>10, <2>11, <2>12 DEF TypeOK
<1> QED
  BY <1>1, <1>2 DEF Init

LEMMA SealKeepsTypes == TypeOK /\ Numbered /\ Seals => TypeOK'
<1> SUFFICES ASSUME TypeOK, Numbered, Seals PROVE TypeOK'
  OBVIOUS
<1>1. PICK tab \in Tabs, p \in Post, t \in 0..MaxTime, extra \in SUBSET Request :
          Seal(tab, p, t, extra)
  BY DEF Seals
<1>2. PICK v \in Version :
        /\ signed' = signed \cup {v} /\ record' \in Post
        /\ inHand' = [inHand EXCEPT ![tab] = {v} \cup extra]
        /\ job' = [job EXCEPT ![tab] = "publishing"]
        /\ UNCHANGED <<now, mine, pool, published, relays, reader>>
  BY <1>1, Sealed
<1>3. /\ now' \in 1..MaxTime /\ record' \in Post \cup {None} /\ signed' \in SUBSET Version
      /\ mine' \in [Tabs -> Post \cup {None}] /\ pool' \in SUBSET Tabs
      /\ job' \in [Tabs -> {"idle", "publishing"}]
  BY <1>2 DEF TypeOK
<1>4. inHand' \in [Tabs -> SUBSET (signed' \cup Request)]
  BY <1>2 DEF TypeOK
<1>5. /\ published' \in SUBSET (signed' \cup Request)
      /\ kept' \in [Relays -> signed' \cup {None}] /\ buried' \in [Relays -> 0..MaxTime]
      /\ read' \in [Readers -> SUBSET signed']
      /\ held' \in [Readers -> signed' \cup {None}]
  BY <1>2 DEF TypeOK, relays, reader
<1> QED
  BY <1>3, <1>4, <1>5 DEF TypeOK

LEMMA NextTypeOK == TypeOK /\ Numbered /\ [Next]_vars => TypeOK'
<1> SUFFICES ASSUME TypeOK, Numbered, [Next]_vars PROVE TypeOK'
  OBVIOUS
<1> USE DEF TypeOK, page, author, relays, reader
<1>1. CASE Seals
  BY <1>1, SealKeepsTypes
<1>2. ASSUME NEW tab \in Tabs, PublishAll(tab) PROVE TypeOK'
  BY <1>2 DEF PublishAll
<1>3. ASSUME NEW tab \in Tabs, Forget(tab) PROVE TypeOK'
  BY <1>3 DEF Forget
<1>4. ASSUME NEW tab \in Tabs, Open(tab) PROVE TypeOK'
  BY <1>4 DEF Open
<1>5. ASSUME NEW tab \in Tabs, Close(tab) PROVE TypeOK'
  BY <1>5 DEF Close
<1>6. ASSUME NEW r \in Relays, NEW v \in published \ Request, Arrive(r, v) PROVE TypeOK'
  BY <1>6 DEF Arrive
<1>7. ASSUME NEW r \in Relays, NEW e \in published \cap Request, Bury(r, e) PROVE TypeOK'
  BY <1>7 DEF Bury, Request
<1>8. ASSUME NEW r \in Relays, Expire(r) PROVE TypeOK'
  BY <1>8 DEF Expire
<1>9. ASSUME NEW c \in Readers, NEW v \in published \ Request, Read(c, v) PROVE TypeOK'
  <2>1. v \in signed
    OBVIOUS
  <2>2. Accepted(held[c], v) \in signed \cup {None}
    BY <2>1 DEF Accepted
  <2> QED
    BY <1>9, <2>1, <2>2 DEF Read
<1>10. CASE Tick
  BY <1>10, BoundsAssumption DEF Tick
<1>11. CASE UNCHANGED vars
  BY <1>11 DEF vars
<1> QED
  BY <1>1, <1>2, <1>3, <1>4, <1>5, <1>6, <1>7, <1>8, <1>9, <1>10, <1>11,
     NewPostSeals, EditSeals, AcceptTakeSeals, WithdrawSeals
  DEF Next, Author, Network, Reader

\* Every variable of the board keeps its type: in particular whatever a relay
\* keeps or a reader holds was signed by the author.
THEOREM BoardTypeOK == Spec => []TypeOK
<1>1. Init => TypeOK /\ Numbered
  BY InitTypeOK
<1>2. TypeOK /\ Numbered /\ [Next]_vars => (TypeOK /\ Numbered)'
  BY NextTypeOK, NumberedStaysOrGrows
<1> QED
  BY <1>1, <1>2, PTL DEF Spec

----------------------------------------------------------------------------
(* A later version wins. *)

LEMMA InitStamps == Init => Stamps /\ Unlike /\ Mirrors
<1> SUFFICES ASSUME Init PROVE Stamps /\ Unlike /\ Mirrors
  OBVIOUS
<1>1. Numbered
  BY InitTypeOK
<1>2. CASE record = None /\ signed = {}
  BY <1>1, <1>2 DEF Stamps, RepublishIsNewer, Unlike, Mirrors
<1>3. CASE /\ signed = {[nth |-> 0, at |-> 1, id |-> i, status |-> "open",
                         expires |-> 1 + Life] : i \in {0, 1}}
           /\ record = [status |-> "open", created |-> 1, expires |-> 1 + Life,
                        publishedAt |-> 1]
  <2>1. \A v \in signed : /\ v.nth = 0 /\ v.at = 1 /\ v.status = record.status
                          /\ v.expires = record.expires /\ v.at <= record.publishedAt
    BY <1>3
  <2>2. Unlike
    BY <1>3 DEF Unlike
  <2> QED
    BY <1>1, <2>1, <2>2 DEF Stamps, RepublishIsNewer, Mirrors
<1> QED
  BY <1>2, <1>3 DEF Init

\* The version signed is above all that were, in number and in time.
LEMMA SealsAbove ==
    ASSUME TypeOK, Stamps, Seals
    PROVE  \E v \in Version :
              /\ signed' = signed \cup {v}
              /\ \A w \in signed : w.nth < v.nth /\ w.at < v.at
              /\ record' \in Post /\ v.at = record'.publishedAt
              /\ v.status = record'.status /\ v.expires = record'.expires
<1>1. PICK tab \in Tabs, p \in Post, t \in 0..MaxTime, extra \in SUBSET Request :
          Seal(tab, p, t, extra) /\ (record = None => signed = {})
  BY DEF Seals
<1>2. PICK v \in Version :
        /\ v.nth = Cardinality(Own) + 1
        /\ v.status = p.status /\ v.expires = p.expires
        /\ record # None => v.at > record.publishedAt
        /\ signed' = signed \cup {v}
        /\ record' = [p EXCEPT !.publishedAt = v.at] /\ record' \in Post
  BY <1>1, Sealed DEF Stamps
<1>3. Cardinality(Own) \in Nat
  BY FS_Subset, FS_CardinalityType DEF Stamps, Numbered, Own
<1>4. ASSUME NEW w \in signed PROVE w.nth < v.nth /\ w.at < v.at
  <2>1. w.nth \in Nat /\ w.at \in Nat /\ v.at \in Nat
    BY DEF TypeOK, Version
  <2>2. record # None /\ record \in Post
    BY <1>1 DEF TypeOK
  <2>3. w.at <= record.publishedAt /\ record.publishedAt \in Nat
    BY <2>2 DEF Stamps, RepublishIsNewer, Post
  <2> QED
    BY <1>2, <1>3, <2>1, <2>2, <2>3 DEF Stamps, Numbered
<1>5. v.at = record'.publishedAt /\ v.status = record'.status /\ v.expires = record'.expires
  BY <1>2 DEF Post
<1> QED
  BY <1>2, <1>4, <1>5

LEMMA NextStamps ==
    TypeOK /\ Stamps /\ Unlike /\ Mirrors /\ [Next]_vars => (Stamps /\ Unlike /\ Mirrors)'
<1> SUFFICES ASSUME TypeOK, Stamps, Unlike, Mirrors, [Next]_vars
             PROVE  (Stamps /\ Unlike /\ Mirrors)'
  OBVIOUS
<1>1. Numbered'
  BY NumberedStaysOrGrows DEF Stamps
<1>2. CASE SignsNothing
  BY <1>1, <1>2 DEF SignsNothing, Stamps, RepublishIsNewer, Unlike, Mirrors
<1>3. CASE Seals
  <2>1. PICK v \in Version :
          /\ signed' = signed \cup {v}
          /\ \A w \in signed : w.nth < v.nth /\ w.at < v.at
          /\ record' \in Post /\ v.at = record'.publishedAt
          /\ v.status = record'.status /\ v.expires = record'.expires
    BY <1>3, SealsAbove
  <2>2. \A w \in signed' : w.nth \in Nat /\ w.at \in Nat
    BY <2>1 DEF TypeOK, Version
  <2>3. RepublishIsNewer'
    BY <2>1, <2>2 DEF Stamps, RepublishIsNewer
  <2>4. Unlike'
    BY <2>1, <2>2 DEF Unlike
  <2>5. Mirrors'
    BY <2>1, <2>2 DEF Mirrors
  <2> QED
    BY <1>1, <2>3, <2>4, <2>5 DEF Stamps
<1> QED
  BY <1>2, <1>3, StepSealsOrNot

\* What is true of the author's side in every state.
BoardInv == TypeOK /\ Stamps /\ Unlike /\ Mirrors

LEMMA BoardInvariant == Spec => []BoardInv
<1>1. Init => BoardInv
  BY InitTypeOK, InitStamps DEF BoardInv
<1>2. BoardInv /\ [Next]_vars => BoardInv'
  BY NextTypeOK, NextStamps DEF BoardInv, Stamps
<1> QED
  BY <1>1, <1>2, PTL DEF Spec

\* Whatever tab signs it, and however the clock it reads lags, a later version
\* of a post is of a later second: no relay prefers what it replaced.
THEOREM RepublishStaysNewer == Spec => []RepublishIsNewer
<1>1. BoardInv => RepublishIsNewer
  BY DEF BoardInv, Stamps
<1> QED
  BY <1>1, BoardInvariant, PTL

----------------------------------------------------------------------------
(* What readers show. *)

\* Newest orders what was signed.
LEMMA NewestIsTotal ==
    ASSUME TypeOK, Unlike, NEW v \in signed, NEW w \in signed, v # w
    PROVE  Newest(v, w) \/ Newest(w, v)
<1>1. v.at \in Nat /\ w.at \in Nat /\ v.id \in Nat /\ w.id \in Nat
  BY BoundsAssumption DEF TypeOK, Version
<1>2. v.at # w.at \/ v.id # w.id
  BY DEF Unlike
<1> QED
  BY <1>1, <1>2 DEF Newest

LEMMA NewestIsTransitive ==
    ASSUME TypeOK, NEW u \in signed, NEW v \in signed, NEW w \in signed,
           Newest(u, v), Newest(v, w)
    PROVE  Newest(u, w)
<1>1. u.at \in Nat /\ v.at \in Nat /\ w.at \in Nat /\ u.id \in Nat /\ v.id \in Nat /\ w.id \in Nat
  BY BoundsAssumption DEF TypeOK, Version
<1> QED
  BY <1>1 DEF Newest

\* One merge of a version not read before.
LEMMA ReadShowsTheNewest ==
    ASSUME BoardInv, None \notin signed, ShowsTheNewestRead,
           NEW c \in Readers, NEW v \in published \ Request, Read(c, v)
    PROVE  ShowsTheNewestRead'
<1> USE DEF BoardInv
<1>1. v \in signed /\ v \notin read[c] /\ read[c] \subseteq signed
  BY DEF TypeOK, Read
<1>2. read' = [read EXCEPT ![c] = @ \cup {v}] /\ held' = [held EXCEPT ![c] = Accepted(@, v)]
  BY DEF Read
<1>3. read'[c] = read[c] \cup {v} /\ held'[c] = Accepted(held[c], v)
  BY <1>2 DEF TypeOK
<1>4. \A d \in Readers \ {c} : read'[d] = read[d] /\ held'[d] = held[d]
  BY <1>2 DEF TypeOK
<1>5. held'[c] \in read'[c] /\ \A w \in read'[c] \ {held'[c]} : Newest(held'[c], w)
  <2>1. CASE read[c] = {}
    BY <1>3, <2>1 DEF ShowsTheNewestRead, Accepted
  <2>2. CASE read[c] # {}
    <3>1. held[c] \in read[c] /\ held[c] \in signed /\ held[c] # None /\ held[c] # v
      BY <1>1, <2>2 DEF ShowsTheNewestRead
    <3>2. \A w \in read[c] \ {held[c]} : Newest(held[c], w)
      BY <2>2 DEF ShowsTheNewestRead
    <3>3. CASE Newest(v, held[c])
      <4>1. held'[c] = v
        BY <1>3, <3>1, <3>3 DEF Accepted, supersedes
      <4>2. \A w \in read[c] : Newest(v, w)
        BY <1>1, <3>1, <3>2, <3>3, NewestIsTransitive
      <4> QED
        BY <1>3, <4>1, <4>2
    <3>4. CASE ~Newest(v, held[c])
      <4>1. held'[c] = held[c]
        BY <1>3, <3>1, <3>4 DEF Accepted, supersedes
      <4>2. Newest(held[c], v)
        BY <1>1, <3>1, <3>4, NewestIsTotal
      <4> QED
        BY <1>3, <3>1, <3>2, <4>1, <4>2
    <3> QED
      BY <3>3, <3>4
  <2> QED
    BY <2>1, <2>2
<1> QED
  BY <1>3, <1>4, <1>5 DEF ShowsTheNewestRead

LEMMA NextShowsTheNewest ==
    BoardInv /\ None \notin signed /\ ShowsTheNewestRead /\ [Next]_vars => ShowsTheNewestRead'
<1> SUFFICES ASSUME BoardInv, None \notin signed, ShowsTheNewestRead, [Next]_vars
             PROVE  ShowsTheNewestRead'
  OBVIOUS
<1>1. CASE UNCHANGED reader
  BY <1>1 DEF reader, ShowsTheNewestRead
<1>2. CASE Reader
  BY <1>2, ReadShowsTheNewest DEF Reader
<1>3. CASE Author
  <2>1. UNCHANGED reader
    <3>1. PICK tab \in Tabs :
            \/ NewPost(tab) \/ Edit(tab) \/ AcceptTake(tab) \/ Withdraw(tab)
            \/ PublishAll(tab) \/ Forget(tab) \/ Open(tab) \/ Close(tab)
      BY <1>3 DEF Author
    <3>2. NewPost(tab) \/ Edit(tab) => UNCHANGED reader
      BY DEF NewPost, Edit, Seal
    <3>3. AcceptTake(tab) \/ Withdraw(tab) => UNCHANGED reader
      BY DEF AcceptTake, Withdraw, Seal
    <3>4. PublishAll(tab) \/ Forget(tab) \/ Open(tab) \/ Close(tab) => UNCHANGED reader
      BY DEF PublishAll, Forget, Open, Close
    <3> QED BY <3>1, <3>2, <3>3, <3>4
  <2> QED
    BY <1>1, <2>1
<1>4. CASE Network \/ Tick \/ UNCHANGED vars
  <2>1. UNCHANGED reader
    BY <1>4 DEF Network, Arrive, Bury, Expire, Tick, vars
  <2> QED
    BY <1>1, <2>1
<1> QED
  BY <1>2, <1>3, <1>4 DEF Next

\* What a page shows is the newest version it has read, in whatever order the
\* relays delivered what it read.
THEOREM ReadersShowTheNewest == Spec => []ShowsTheNewestRead
<1>1. Init => ShowsTheNewestRead
  BY DEF Init, ShowsTheNewestRead
<1>2. BoardInv => None \notin signed
  BY NoneAssumption DEF BoardInv, TypeOK
<1>3. BoardInv /\ ShowsTheNewestRead /\ [Next]_vars => ShowsTheNewestRead'
  BY <1>2, NextShowsTheNewest
<1> QED
  BY <1>1, <1>3, BoardInvariant, PTL DEF Spec

----------------------------------------------------------------------------
(* Forgetting. *)

\* The step in which a record disappears is a Forget.
LEMMA OnlyForgetForgets ==
    ASSUME BoardInv, [Next]_vars, record # None, record' = None
    PROVE  \E tab \in Tabs : Forget(tab)
<1> USE DEF BoardInv
<1>1. ~Seals
  BY SealsAbove, NoneAssumption
<1>2. \A tab \in Tabs : ~(NewPost(tab) \/ Edit(tab) \/ AcceptTake(tab) \/ Withdraw(tab))
  BY <1>1, NewPostSeals, EditSeals, AcceptTakeSeals, WithdrawSeals
<1>3. \A tab \in Tabs : ~(PublishAll(tab) \/ Open(tab) \/ Close(tab))
  BY DEF PublishAll, Open, Close, author
<1>4. ~(Network \/ Reader \/ Tick \/ UNCHANGED vars)
  BY DEF Network, Arrive, Bury, Expire, Reader, Read, Tick, vars, author
<1> QED
  BY <1>2, <1>3, <1>4 DEF Next, Author

\* What is forgotten was, by the last version signed in any tab, withdrawn or
\* past its expiry.
LEMMA ForgetsWhatFell ==
    ASSUME BoardInv, NEW tab \in Tabs, Forget(tab),
           NEW v \in signed, \A w \in signed : w.at <= v.at
    PROVE  v.status = "void" \/ v.expires <= now
<1>1. record # None /\ record \in Post
  BY DEF Forget, BoardInv, TypeOK
<1>2. v.status = record.status /\ v.expires = record.expires
  BY <1>1 DEF BoardInv, Mirrors
<1>3. PICK t \in Clock : ~Standing(record, t)
  BY DEF Forget
<1>4. t \in Nat /\ t <= now /\ now \in Nat /\ record.expires \in Nat
  BY <1>1, <1>3, BoundsAssumption DEF Clock, BoardInv, TypeOK, Post, Expiry
<1>5. record.status = "void" \/ ~(t < record.expires)
  BY <1>1, <1>3 DEF Standing, Post, Status
<1> QED
  BY <1>2, <1>4, <1>5

\* No tab forgets the record of an offer that stands, whichever tab last renewed
\* or reopened it.
THEOREM NoStandingOfferIsForgotten == Spec => ForgetsNoStandingOffer
<1> DEFINE Fell == record # None /\ record' = None =>
                     \A v \in signed : (\A w \in signed : w.at <= v.at)
                                         => v.status = "void" \/ v.expires <= now
<1>1. BoardInv /\ [Next]_vars => [Fell]_vars
  BY OnlyForgetForgets, ForgetsWhatFell
<1> QED
  BY <1>1, BoardInvariant, PTL DEF Spec, ForgetsNoStandingOffer

----------------------------------------------------------------------------
(* Readers agree. *)

\* "Two readers of the same relays must see the same board" (boardpost.go): two
\* readers that were given the same versions, in whatever orders, show the same.
SameReadingSameBoard ==
    \A c, d \in Readers : read[c] = read[d] => held[c] = held[d]

\* What two readers show does not depend on the order in which each was given what
\* both have read (useBoard.ts accept, boardpost.go supersedes).
THEOREM ReadersAgree == Spec => []SameReadingSameBoard
<1>1. ASSUME BoardInv, ShowsTheNewestRead, NEW c \in Readers, NEW d \in Readers,
             read[c] = read[d]
      PROVE  held[c] = held[d]
  <2>1. CASE read[c] = {}
    BY <1>1, <2>1 DEF ShowsTheNewestRead
  <2>2. CASE read[c] # {} /\ held[c] # held[d]
    <3>1. held[c] \in signed /\ held[d] \in signed
      BY <1>1, <2>2 DEF ShowsTheNewestRead, BoardInv, TypeOK
    <3>2. Newest(held[c], held[d]) /\ Newest(held[d], held[c])
      BY <1>1, <2>2 DEF ShowsTheNewestRead
    <3>3. /\ held[c].at \in Nat /\ held[d].at \in Nat
          /\ held[c].id \in Nat /\ held[d].id \in Nat
      BY <1>1, <3>1, BoundsAssumption DEF BoardInv, TypeOK, Version
    <3> QED BY <3>2, <3>3 DEF Newest
  <2> QED BY <2>1, <2>2
<1>2. BoardInv /\ ShowsTheNewestRead => SameReadingSameBoard
  BY <1>1 DEF SameReadingSameBoard
<1> QED
  BY <1>2, BoardInvariant, ReadersShowTheNewest, PTL

----------------------------------------------------------------------------
(* A post is a slot. *)

\* The slot's variables, as functions of the board's.
Made == {Number(v) : v \in signed}
Out == {Number(v) : v \in published \ Request}
Keeps == [r \in Relays |-> Number(kept[r])]
Shows == [c \in Readers |-> Number(held[c])]

LEMMA NumbersOfVersions ==
    ASSUME BoardInv, NEW v \in Version
    PROVE  Number(v) = v.nth + 1 /\ Number(v) \in 1..(MaxVersions + 1)
<1>1. v # None /\ v.nth \in 0..MaxVersions
  BY NoneAssumption DEF Version
<1> QED BY <1>1, BoundsAssumption DEF Number

LEMMA NumberOfNone == Number(None) = 0
BY DEF Number

\* By the rule that picks versions, the order of times is the order of numbers.
LEMMA NewestIsLater ==
    ASSUME BoardInv, NEW v \in signed, NEW w \in signed, Newest(v, w)
    PROVE  Number(w) <= Number(v)
<1>1. v \in Version /\ w \in Version
  BY DEF BoardInv, TypeOK
<1>2. /\ v.at \in Nat /\ w.at \in Nat /\ w.at <= v.at
      /\ v.nth \in Nat /\ w.nth \in Nat
  BY <1>1, BoundsAssumption DEF Version, Newest
<1>3. ~(v.nth < w.nth)
  BY <1>2 DEF BoardInv, Stamps, RepublishIsNewer
<1> QED BY <1>1, <1>2, <1>3, NumbersOfVersions

\* What was handed to a relay and is not a request is a version signed.
LEMMA PublishedIsSigned ==
    ASSUME BoardInv, NEW v \in published \ Request
    PROVE  /\ v \in signed /\ v \in Version /\ v # None
           /\ Number(v) \in Out /\ Number(v) \in Made /\ 0 < Number(v)
<1>1. v \in signed /\ v \in Version
  BY DEF BoardInv, TypeOK
<1>2. v # None
  BY <1>1, NoneAssumption
<1> QED BY <1>1, <1>2, NumbersOfVersions DEF Out, Made

LEMMA SealMakes ==
    ASSUME BoardInv, Seals
    PROVE  Abstract!Next
<1>1. PICK v \in Version :
        signed' = signed \cup {v} /\ \A w \in signed : w.nth < v.nth /\ w.at < v.at
  BY SealsAbove DEF BoardInv
<1>2. UNCHANGED <<published, relays, reader>>
  BY DEF Seals, Seal
<1>3. Made' = Made \cup {Number(v)}
  BY <1>1 DEF Made, Number
<1>4. \A m \in Made : m < Number(v)
  <2>1. ASSUME NEW w \in signed PROVE Number(w) < Number(v)
    <3>1. w \in Version /\ w.nth \in Nat /\ v.nth \in Nat
      BY DEF BoardInv, TypeOK, Version
    <3> QED BY <1>1, <3>1, NumbersOfVersions
  <2> QED BY <2>1 DEF Made
<1>5. UNCHANGED <<Out, Keeps, Shows>>
  BY <1>2 DEF Out, Keeps, Shows, relays, reader, Number
<1>6. Number(v) \in 1..(MaxVersions + 1)
  BY NumbersOfVersions
<1>7. Abstract!Make
  BY <1>3, <1>4, <1>5, <1>6 DEF Abstract!Make, Made, Out, Keeps, Shows
<1> QED BY <1>7 DEF Abstract!Next

LEMMA PublishAllPutsOut ==
    ASSUME BoardInv, NEW tab \in Tabs, PublishAll(tab)
    PROVE  Abstract!Next
<1>1. published \subseteq published' /\ published' \ Request \subseteq signed
  BY DEF PublishAll, BoardInv, TypeOK
<1>2. Out \subseteq Out' /\ Out' \subseteq Made
  BY <1>1 DEF Out, Made, Number
<1>3. UNCHANGED <<signed, kept, held>>
  BY DEF PublishAll, author, relays, reader
<1>4. UNCHANGED <<Made, Keeps, Shows>>
  BY <1>3 DEF Made, Keeps, Shows, Number
<1>5. Abstract!PutOut
  BY <1>2, <1>4 DEF Abstract!PutOut, Made, Out, Keeps, Shows
<1> QED BY <1>5 DEF Abstract!Next

LEMMA NetworkKeepsOrDrops ==
    ASSUME BoardInv, Network
    PROVE  Abstract!Next \/ UNCHANGED <<Made, Out, Keeps, Shows>>
<1>0. UNCHANGED <<signed, published, held>>
  BY DEF Network, Arrive, Bury, Expire, author, reader
<1>1. UNCHANGED <<Made, Out, Shows>>
  BY <1>0 DEF Made, Out, Shows, Number
<1>2. kept \in [Relays -> signed \cup {None}]
  BY DEF BoardInv, TypeOK
<1>3. ASSUME NEW r \in Relays, NEW v \in published \ Request, Arrive(r, v)
      PROVE  Abstract!Next \/ UNCHANGED Keeps
  <2>1. kept' = [kept EXCEPT ![r] = v] /\ (kept[r] = None \/ Newest(v, kept[r]))
    BY <1>3 DEF Arrive
  <2>2. Keeps' = [Keeps EXCEPT ![r] = Number(v)] /\ Keeps[r] = Number(kept[r])
    BY <1>2, <2>1 DEF Keeps, Number
  <2>3. v \in signed /\ Number(v) \in Out /\ 0 < Number(v) /\ v \in Version
    BY PublishedIsSigned
  <2>4. Keeps[r] < Number(v) \/ Keeps[r] = Number(v)
    <3>1. CASE kept[r] = None
      BY <2>2, <2>3, <3>1, NumberOfNone
    <3>2. CASE kept[r] # None
      <4>1. kept[r] \in signed /\ kept[r] \in Version /\ Newest(v, kept[r])
        BY <1>2, <2>1, <3>2 DEF BoardInv, TypeOK
      <4>2. Number(kept[r]) <= Number(v)
        BY <2>3, <4>1, NewestIsLater
      <4> QED BY <2>2, <2>3, <4>1, <4>2, NumbersOfVersions
    <3> QED BY <3>1, <3>2
  <2>5. CASE Keeps[r] < Number(v)
    <3>1. Abstract!Keep
      BY <1>1, <2>2, <2>3, <2>5 DEF Abstract!Keep, Made, Out, Keeps, Shows
    <3> QED BY <3>1 DEF Abstract!Next
  <2>6. CASE Keeps[r] = Number(v)
    BY <2>2, <2>6 DEF Keeps
  <2> QED BY <2>4, <2>5, <2>6
<1>4. ASSUME NEW r \in Relays,
             Expire(r) \/ \E e \in published \cap Request : Bury(r, e)
      PROVE  Abstract!Next \/ UNCHANGED Keeps
  <2>1. kept' = kept \/ kept' = [kept EXCEPT ![r] = None]
    BY <1>2, <1>4 DEF Expire, Bury
  <2>2. CASE kept' = kept
    BY <2>2 DEF Keeps, Number
  <2>3. CASE kept' = [kept EXCEPT ![r] = None]
    <3>1. Keeps' = [Keeps EXCEPT ![r] = 0]
      BY <1>2, <2>3 DEF Keeps, Number
    <3>2. Abstract!Drop
      BY <1>1, <3>1 DEF Abstract!Drop, Made, Out, Keeps, Shows
    <3> QED BY <3>2 DEF Abstract!Next
  <2> QED BY <2>1, <2>2, <2>3
<1> QED BY <1>1, <1>3, <1>4 DEF Network

LEMMA ReaderShows ==
    ASSUME BoardInv, Reader
    PROVE  Abstract!Next \/ UNCHANGED <<Made, Out, Keeps, Shows>>
<1>1. PICK c \in Readers, v \in published \ Request : Read(c, v)
  BY DEF Reader
<1>2. UNCHANGED <<signed, published, kept>>
  BY <1>1 DEF Read, author, relays
<1>3. UNCHANGED <<Made, Out, Keeps>>
  BY <1>2 DEF Made, Out, Keeps, Number
<1>4. held \in [Readers -> signed \cup {None}] /\ held' = [held EXCEPT ![c] = Accepted(held[c], v)]
  BY <1>1 DEF BoardInv, TypeOK, Read
<1>5. v \in signed /\ Number(v) \in Out /\ 0 < Number(v) /\ v \in Version
  BY PublishedIsSigned
<1>6. CASE Accepted(held[c], v) = held[c]
  <2>1. held' = held
    BY <1>4, <1>6
  <2> QED BY <1>3, <2>1 DEF Shows, Number
<1>7. CASE Accepted(held[c], v) # held[c]
  <2>1. Accepted(held[c], v) = v /\ (held[c] = None \/ Newest(v, held[c]))
    BY <1>7 DEF Accepted, supersedes
  <2>2. Shows' = [Shows EXCEPT ![c] = Number(v)] /\ Shows[c] = Number(held[c])
    BY <1>4, <2>1 DEF Shows, Number
  <2>3. Shows[c] < Number(v) \/ Shows[c] = Number(v)
    <3>1. CASE held[c] = None
      BY <1>5, <2>2, <3>1, NumberOfNone
    <3>2. CASE held[c] # None
      <4>1. held[c] \in signed /\ held[c] \in Version /\ Newest(v, held[c])
        BY <1>4, <2>1, <3>2 DEF BoardInv, TypeOK
      <4>2. Number(held[c]) <= Number(v)
        BY <1>5, <4>1, NewestIsLater
      <4> QED BY <1>5, <2>2, <4>1, <4>2, NumbersOfVersions
    <3> QED BY <3>1, <3>2
  <2>4. CASE Shows[c] < Number(v)
    <3>1. Abstract!Show
      BY <1>3, <1>5, <2>2, <2>4 DEF Abstract!Show, Made, Out, Keeps, Shows
    <3> QED BY <3>1 DEF Abstract!Next
  <2>5. CASE Shows[c] = Number(v)
    BY <1>3, <2>2, <2>5 DEF Shows
  <2> QED BY <2>3, <2>4, <2>5
<1> QED BY <1>6, <1>7

\* A step of the board is one of the slot, or none.
LEMMA BoardStepIsASlots ==
    ASSUME BoardInv, [Next]_vars
    PROVE  Abstract!Next \/ UNCHANGED <<Made, Out, Keeps, Shows>>
<1>1. CASE Seals
  BY <1>1, SealMakes
<1>2. ASSUME NEW tab \in Tabs, NewPost(tab) \/ Edit(tab) \/ AcceptTake(tab) \/ Withdraw(tab)
      PROVE  Seals
  BY <1>2, NewPostSeals, EditSeals, AcceptTakeSeals, WithdrawSeals DEF BoardInv
<1>3. ASSUME NEW tab \in Tabs, PublishAll(tab) PROVE Abstract!Next
  BY <1>3, PublishAllPutsOut
<1>4. ASSUME UNCHANGED <<signed, published, kept, held>>
      PROVE  UNCHANGED <<Made, Out, Keeps, Shows>>
  BY <1>4 DEF Made, Out, Keeps, Shows, Number
<1>5. ASSUME NEW tab \in Tabs, Forget(tab) \/ Open(tab) \/ Close(tab)
      PROVE  UNCHANGED <<signed, published, kept, held>>
  BY <1>5 DEF Forget, Open, Close, author, relays, reader
<1>6. CASE Tick \/ UNCHANGED vars
  BY <1>4, <1>6 DEF Tick, vars, author, relays, reader
<1> QED BY <1>1, <1>2, <1>3, <1>4, <1>5, <1>6, NetworkKeepsOrDrops, ReaderShows DEF Next, Author

LEMMA InitIsASlots == Init => Abstract!Init
<1> SUFFICES ASSUME Init PROVE Abstract!Init
  OBVIOUS
<1>1. BoardInv
  BY InitTypeOK, InitStamps DEF BoardInv
<1>2. published = signed /\ held = [c \in Readers |-> None] /\ signed \cap Request = {}
  <2>1. \A v \in signed : v \notin Request
    <3>1. ASSUME NEW v \in signed, v \in Request PROVE FALSE
      <4>1. "nth" \in DOMAIN v /\ DOMAIN v = {"forget"}
        BY <1>1, <3>1 DEF BoardInv, TypeOK, Version, Request
      <4> QED BY <4>1
    <3> QED BY <3>1
  <2> QED BY <2>1 DEF Init
<1>3. \A v \in signed : Number(v) = 1
  <2>1. \A v \in signed : v.nth = 0
    BY DEF Init
  <2>2. \A v \in signed : v \in Version
    BY <1>1 DEF BoardInv, TypeOK
  <2> QED BY <1>1, <2>1, <2>2, NumbersOfVersions
<1>4. Made \in SUBSET {1} /\ Out = Made
  BY <1>2, <1>3 DEF Made, Out
<1>5. Shows = [c \in Readers |-> 0]
  BY <1>2, NumberOfNone DEF Shows
<1>6. Keeps \in [Relays -> Out \cup {0}]
  <2>1. ASSUME NEW r \in Relays PROVE Number(kept[r]) \in Out \cup {0}
    <3>1. kept[r] \in signed \cup {None}
      BY <1>1 DEF BoardInv, TypeOK
    <3>2. CASE kept[r] = None
      BY <3>2, NumberOfNone
    <3>3. CASE kept[r] \in signed
      BY <3>3, <1>2 DEF Out
    <3> QED BY <3>1, <3>2, <3>3
  <2> QED BY <2>1 DEF Keeps
<1> QED BY <1>4, <1>5, <1>6 DEF Abstract!Init, Made, Out, Keeps, Shows

\* A post is a slot, for any tabs, clocks, relays and readers: what a relay serves
\* moves to later versions only, until it is dropped, and what a reader shows moves
\* to later versions only (boardpost.go SealPostAfter, useBoard.ts accept).
THEOREM PostStaysASlot == Spec => PostIsASlot
<1>1. BoardInv /\ [Next]_vars => [Abstract!Next]_<<Made, Out, Keeps, Shows>>
  BY BoardStepIsASlots
<1> QED BY <1>1, InitIsASlots, BoardInvariant, PTL
        DEF Spec, PostIsASlot, Abstract!Spec, Made, Out, Keeps, Shows
=============================================================================
