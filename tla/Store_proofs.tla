---------------------------- MODULE Store_proofs ----------------------------
(***************************************************************************)
(* Proofs about the store, for any number of calls and tabs and any number *)
(* of attempts: the types, what a refused call may have done, that an      *)
(* outcome lands on the record it belongs to, and that the calls of all    *)
(* tabs change the record as if each did so in one step.                   *)
(***************************************************************************)
EXTENDS Store, TLAPS

USE DEF Working, Granted, Saver

(***************************************************************************)
(* Types.                                                                  *)
(***************************************************************************)
LEMMA RecordsType ==
    /\ EmptyCopy \in Record
    /\ Existing \in Record
BY DEF EmptyCopy, Existing, Record

LEMMA WrittenType ==
    ASSUME TypeOK, NEW c \in Call
    PROVE  Written(c) \in Record
<1>1. /\ copy[c].version \in Nat
      /\ copy[c].marks \subseteq Call
  BY DEF TypeOK, Record
<1> QED BY <1>1 DEF Written, Record

\* What one call's step may do to the variables that Finish and Continue set.
LEMMA FinishType ==
    ASSUME TypeOK, NEW c \in Call, NEW a \in Answer, Finish(c, a)
    PROVE  /\ pc' \in [Call -> Phase]
           /\ copy' \in [Call -> Record]
           /\ tries' \in [Call -> 0..MaxRetry]
           /\ spent' \in [Call -> SUBSET Call]
           /\ answer' \in [Call -> Answer]
           /\ holder' \in Call \cup {NoCall}
           /\ UNCHANGED <<page, kind, stolen>>
BY RecordsType, BoundsAssumption DEF TypeOK, Finish, Settled, Phase, Answer

LEMMA InitType == Init => TypeOK
BY RecordsType, BoundsAssumption
   DEF Init, TypeOK, Record, Phase, Answer, Existing, EmptyCopy

LEMMA TypeStep == TypeOK /\ [Next]_vars => TypeOK'
<1> SUFFICES ASSUME TypeOK, [Next]_vars PROVE TypeOK'
  OBVIOUS
<1>1. ASSUME NEW c \in Call, Request(c) PROVE TypeOK'
  BY <1>1 DEF TypeOK, Request, page, local, lock, storage, Phase
<1>2. ASSUME NEW c \in Call, Grant(c) PROVE TypeOK'
  BY <1>2 DEF TypeOK, Grant, page, local, storage, Phase
<1>3. ASSUME NEW c \in Call, Steal(c) PROVE TypeOK'
  BY <1>3 DEF TypeOK, Steal, page, local, storage
<1>4. ASSUME NEW c \in Call, RequestRejected(c) PROVE TypeOK'
  BY <1>4 DEF TypeOK, RequestRejected, Refusal, Settled, page, local, lock, storage,
              Phase, Answer
<1>5. ASSUME NEW c \in Call, Work(c) PROVE TypeOK'
  <2>1. CASE Load(c)
    BY <2>1 DEF TypeOK, Load, Continue, page, lock, storage, Phase
  <2>2. CASE Abandon(c)
    BY <2>2, FinishType DEF TypeOK, Abandon, Answer, page, storage
  <2>3. CASE Broadcast(c)
    <3>1. Identity(copy[c].marks) \subseteq Call
      BY DEF TypeOK, Record, Identity
    <3> QED BY <2>3, <3>1 DEF TypeOK, Broadcast, Continue, page, lock, storage, Phase
  <2>4. CASE SaveCheck(c)
    BY <2>4 DEF TypeOK, SaveCheck, Continue, page, local, lock, storage, Phase
  <2>5. CASE SaveStale(c)
    BY <2>5, FinishType DEF TypeOK, SaveStale, Answer, page, storage
  <2>6. CASE SaveOutcomeAgain(c)
    BY <2>6, BoundsAssumption
       DEF TypeOK, SaveOutcomeAgain, Reattaches, Continue, page, lock, storage, Phase
  <2>7. CASE SaveOutcomeFails(c)
    BY <2>7, FinishType DEF TypeOK, SaveOutcomeFails, Answer, page, storage
  <2>8. CASE SaveWrite(c)
    BY <2>8, WrittenType DEF TypeOK, SaveWrite, Continue, page, lock, Phase
  <2>9. CASE SaveWriteFails(c)
    BY <2>9, FinishType DEF TypeOK, SaveWriteFails, Answer, page, storage
  <2>10. CASE SaveMore(c)
    BY <2>10 DEF TypeOK, SaveMore, Continue, page, local, lock, storage, Phase
  <2>11. CASE Return(c)
    BY <2>11, FinishType DEF TypeOK, Return, Answer, page, storage
  <2>12. CASE Delete(c)
    BY <2>12, FinishType DEF TypeOK, Delete, Answer, page
  <2>13. CASE Export(c)
    BY <2>13, FinishType DEF TypeOK, Export, Answer, page
  <2>14. CASE Import(c)
    BY <2>14 DEF TypeOK, Import, Continue, page, lock, storage, Phase
  <2>15. CASE ImportSkips(c)
    BY <2>15, FinishType DEF TypeOK, ImportSkips, Answer, page, storage
  <2> QED BY <1>5, <2>1, <2>2, <2>3, <2>4, <2>5, <2>6, <2>7, <2>8, <2>9, <2>10, <2>11,
             <2>12, <2>13, <2>14, <2>15 DEF Work
<1>6. ASSUME NEW t \in Tab, CloseTab(t) PROVE TypeOK'
  BY <1>6, RecordsType, BoundsAssumption
     DEF TypeOK, CloseTab, page, storage, Phase
<1>7. CASE UNCHANGED vars
  BY <1>7 DEF TypeOK, vars, page, local, lock, storage
<1> QED BY <1>1, <1>2, <1>3, <1>4, <1>5, <1>6, <1>7 DEF Next

\* Every variable keeps its type, however many calls, tabs and attempts.
THEOREM StoreTypeOK == Spec => []TypeOK
BY InitType, TypeStep, PTL DEF Spec

(***************************************************************************)
(* Marks.  A call leaves its mark on a record only by writing it, and a    *)
(* call that is refused or has not begun has written nothing: its mark is  *)
(* on no record, on no copy and in no backup.                              *)
(***************************************************************************)
Unmarked(c) == /\ stored # NoRecord => c \notin stored.marks
               /\ \A d \in Call : c \notin copy[d].marks
               /\ \A b \in backups : c \notin b.marks

Marks == \A c \in Call :
    /\ answer[c] = "refused" => pc[c] \in {"done", "gone"}
    /\ answer[c] = "refused" \/ pc[c] \in {"idle", "queued"} => Unmarked(c)

\* An outcome that is about to be written is on a copy of the record of the
\* output it spent; a funding switched meanwhile shows as a mark.
Own == \A c \in Call :
    kind[c] = "outcome" /\ pc[c] \in {"broadcast", "writing", "saved"}
        => Identity(copy[c].marks) = spent[c]

MarksInv == TypeOK /\ Marks /\ Own

LEMMA InitMarks == Init => Marks /\ Own
BY DEF Init, Marks, Own, Unmarked, Existing, EmptyCopy

\* A call that ends keeps every mark where it is, but for its own copy's.
LEMMA FinishMarks ==
    ASSUME TypeOK, Marks, Own, NEW c \in Call, NEW a \in Answer \ {"refused"},
           pc[c] \notin {"idle", "queued", "done", "gone"}, Finish(c, a),
           \/ UNCHANGED <<stored, backups>>
           \/ stored' = NoRecord /\ UNCHANGED backups
           \/ UNCHANGED stored /\ stored # NoRecord /\ backups' = backups \cup {stored}
    PROVE  Marks' /\ Own'
<1>1. \A d \in Call : Unmarked(d) => Unmarked(d)'
  BY DEF Finish, Unmarked, TypeOK, EmptyCopy
<1>2. \A d \in Call : /\ answer'[d] = "refused" => answer[d] = "refused"
                      /\ d # c => pc'[d] = pc[d]
  BY DEF Finish, Settled, TypeOK
<1>3. pc'[c] = "done"
  BY DEF Finish, TypeOK
<1>4. ASSUME NEW d \in Call
      PROVE  /\ answer'[d] = "refused" => pc'[d] \in {"done", "gone"}
             /\ answer'[d] = "refused" \/ pc'[d] \in {"idle", "queued"} => Unmarked(d)'
  <2>1. answer'[d] = "refused" \/ pc'[d] \in {"idle", "queued"} => Unmarked(d)
    BY <1>2, <1>3 DEF Marks
  <2>2. answer'[d] = "refused" => pc'[d] \in {"done", "gone"}
    BY <1>2, <1>3 DEF Marks
  <2> QED BY <1>1, <2>1, <2>2
<1>5. \A d \in Call \ {c} : copy'[d] = copy[d] /\ spent'[d] = spent[d] /\ kind'[d] = kind[d]
  BY DEF Finish, TypeOK
<1>6. Own'
  BY <1>2, <1>3, <1>5 DEF Own, Identity, Finish
<1>7. Marks'
  BY <1>4 DEF Marks
<1> QED BY <1>6, <1>7

LEMMA MarksStep == MarksInv /\ [Next]_vars => Marks' /\ Own'
<1> SUFFICES ASSUME MarksInv, [Next]_vars PROVE Marks' /\ Own'
  OBVIOUS
<1> USE DEF MarksInv
<1>1. ASSUME NEW c \in Call, Request(c) PROVE Marks' /\ Own'
  <2>1. Marks'
    BY <1>1 DEF Marks, Unmarked, TypeOK, Request, local, storage
  <2>2. \A d \in Call \ {c} : Identity(copy[d].marks)' = Identity(copy[d].marks)
    BY <1>1 DEF Marks, Unmarked, TypeOK, Request, local, Identity
  <2>3. Own'
    BY <1>1, <2>2 DEF Own, TypeOK, Request, local, page
  <2> QED BY <2>1, <2>3
<1>2. ASSUME NEW c \in Call, Grant(c) PROVE Marks' /\ Own'
  BY <1>2 DEF Marks, Unmarked, Own, Identity, TypeOK, Grant, local, storage
<1>3. ASSUME NEW c \in Call, Steal(c) PROVE Marks' /\ Own'
  BY <1>3 DEF Marks, Unmarked, Own, Identity, TypeOK, Steal, local, storage
<1>4. ASSUME NEW c \in Call, RequestRejected(c) PROVE Marks' /\ Own'
  BY <1>4 DEF Marks, Unmarked, Own, Identity, TypeOK, RequestRejected, Refusal, Settled,
              local, storage
<1>5. ASSUME NEW c \in Call, Work(c) PROVE Marks' /\ Own'
  <2>1. CASE Load(c)
    BY <2>1 DEF Marks, Unmarked, Own, Identity, TypeOK, Load, Continue, storage
  <2>2. CASE Abandon(c)
    BY <2>2, FinishMarks DEF Abandon, Answer, storage
  <2>3. CASE Broadcast(c)
    BY <2>3 DEF Marks, Unmarked, Own, Identity, TypeOK, Broadcast, Continue, storage
  <2>4. CASE SaveCheck(c)
    BY <2>4 DEF Marks, Unmarked, Own, Identity, TypeOK, SaveCheck, ReadyToSave, Continue,
                local, storage
  <2>5. CASE SaveStale(c)
    BY <2>5, FinishMarks DEF SaveStale, ReadyToSave, Answer, storage
  <2>6. CASE SaveOutcomeAgain(c)
    BY <2>6 DEF Marks, Unmarked, Own, Identity, TypeOK, SaveOutcomeAgain, Reattaches,
                Continue, storage
  <2>7. CASE SaveOutcomeFails(c)
    BY <2>7, FinishMarks DEF SaveOutcomeFails, Answer, storage
  <2>8. CASE SaveWrite(c)
    <3>1. \A d \in Call \ {c} : Unmarked(d) => Unmarked(d)'
      BY <2>8, RecordsType DEF Unmarked, TypeOK, SaveWrite, Written
    <3>2. Marks'
      BY <2>8, <3>1 DEF Marks, TypeOK, SaveWrite, Continue
    <3>3. kind[c] = "outcome" => Identity(Written(c).marks) = Identity(copy[c].marks)
      BY DEF Written, Identity, TypeOK
    <3>4. Own'
      BY <2>8, <3>3 DEF Own, Identity, TypeOK, SaveWrite, Continue
    <3> QED BY <3>2, <3>4
  <2>9. CASE SaveWriteFails(c)
    BY <2>9, FinishMarks DEF SaveWriteFails, Answer, storage
  <2>10. CASE SaveMore(c)
    BY <2>10 DEF Marks, Unmarked, Own, Identity, TypeOK, SaveMore, Continue, local, storage
  <2>11. CASE Return(c)
    BY <2>11, FinishMarks DEF Return, Answer, storage
  <2>12. CASE Delete(c)
    BY <2>12, FinishMarks DEF Delete, Answer
  <2>13. CASE Export(c)
    BY <2>13, FinishMarks DEF Export, Answer
  <2>14. CASE Import(c)
    BY <2>14 DEF Marks, Unmarked, Own, Identity, TypeOK, Import, Continue, storage
  <2>15. CASE ImportSkips(c)
    BY <2>15, FinishMarks DEF ImportSkips, Answer, storage
  <2> QED BY <1>5, <2>1, <2>2, <2>3, <2>4, <2>5, <2>6, <2>7, <2>8, <2>9, <2>10, <2>11,
             <2>12, <2>13, <2>14, <2>15 DEF Work
<1>6. ASSUME NEW t \in Tab, CloseTab(t) PROVE Marks' /\ Own'
  BY <1>6 DEF Marks, Unmarked, Own, Identity, TypeOK, CloseTab, Dies, EmptyCopy, storage
<1>7. CASE UNCHANGED vars
  BY <1>7 DEF Marks, Unmarked, Own, Identity, vars, local, storage
<1> QED BY <1>1, <1>2, <1>3, <1>4, <1>5, <1>6, <1>7 DEF Next

LEMMA MarksInvariant == Spec => []MarksInv
<1>1. Init => MarksInv
  BY InitType, InitMarks DEF MarksInv
<1>2. MarksInv /\ [Next]_vars => MarksInv'
  BY TypeStep, MarksStep DEF MarksInv
<1> QED BY <1>1, <1>2, PTL DEF Spec

\* A call told that nothing was changed has changed nothing and never will.
THEOREM RefusedIsUntouched == Spec => []RefusedMeansUntouched
<1>1. MarksInv => RefusedMeansUntouched
  BY DEF MarksInv, Marks, Unmarked, RefusedMeansUntouched
<1> QED BY <1>1, MarksInvariant, PTL

\* An outcome is recorded on the record of the output its transaction spent.
THEOREM OutcomeIsOnItsOwnRecord == Spec => []OutcomeOnItsOwnRecord
<1>1. MarksInv => OutcomeOnItsOwnRecord
  BY DEF MarksInv, Own, OutcomeOnItsOwnRecord
<1> QED BY <1>1, MarksInvariant, PTL

(***************************************************************************)
(* Creation.  A swap is created once: until it is, there is no record, no  *)
(* backup and no copy of one, and the one call that creates it has an      *)
(* empty copy.                                                             *)
(***************************************************************************)
Holds(c) == pc[c] \in {"loaded", "broadcast", "writing", "saved"}

\* Which calls may be how far.
Stages == \A c \in Call :
    /\ pc[c] = "idle" => kind[c] = "none"
    /\ pc[c] = "loaded" => kind[c] \in Saver \cup {"create"}
    /\ pc[c] = "broadcast" => kind[c] = "outcome"
    /\ pc[c] \in {"writing", "saved"} => kind[c] \in Saver \cup {"create", "import"}

Creation ==
    /\ ~created => stored = NoRecord /\ backups = {}
    /\ \A c, d \in Call : kind[c] = "create" /\ kind[d] = "create" => c = d
    /\ \A c \in Call : kind[c] = "create" /\ pc[c] \in {"queued", "running", "loaded", "writing"}
                       => ~created /\ copy[c] = EmptyCopy
    /\ \A c \in Call : pc[c] \in {"idle", "queued"} => copy[c] = EmptyCopy
    /\ \A c \in Call : kind[c] # "create" /\ Holds(c) => created

\* Versions start at one; zero is the copy of a record nobody has stored.
Versions ==
    /\ stored # NoRecord => stored.version > 0
    /\ \A b \in backups : b.version > 0
    /\ \A c \in Call : kind[c] # "create" /\ Holds(c) => copy[c].version > 0

(***************************************************************************)
(* Exclusion.  Between Save's compare and its write a call has its tab's   *)
(* mutex; a call that works under a lock nobody took has the lock; where   *)
(* there is no lock there is one tab.                                      *)
(***************************************************************************)
Mutexes == \A c \in Call : pc[c] = "writing" => mutex[tab[c]] = c

Alone == /\ locks /\ stolen = {} => \A c \in Call : Working(c) => holder = c
         /\ ~locks => \A c, d \in Call : tab[c] = tab[d]

(***************************************************************************)
(* Currency.  While the record is protected its versions tell copies       *)
(* apart: a copy with the record's version is the record, so what passes   *)
(* Save's compare is still current when it is written.                     *)
(***************************************************************************)
Current == Protected => \A c \in Call :
    /\ kind[c] \in Saver /\ Holds(c) /\ stored # NoRecord =>
         /\ copy[c].version <= stored.version
         /\ copy[c].version = stored.version => copy[c] = stored
    /\ kind[c] \in Saver /\ pc[c] = "writing" => stored # NoRecord /\ copy[c] = stored
    /\ kind[c] = "import" /\ pc[c] = "writing" => stored = NoRecord /\ copy[c] \in backups

AtomicInv == TypeOK /\ Stages /\ Creation /\ Versions /\ Mutexes /\ Alone /\ Current

LEMMA InitAtomic == Init => AtomicInv
<1> SUFFICES ASSUME Init PROVE AtomicInv
  OBVIOUS
<1>1. TypeOK
  BY InitType
<1>2. Stages /\ Creation /\ Versions
  BY RecordAssumption, RecordsType DEF Init, Stages, Creation, Versions, Holds, Existing
<1>3. Mutexes /\ Alone /\ Current
  BY DEF Init, Mutexes, Alone, Current, Holds
<1> QED BY <1>1, <1>2, <1>3 DEF AtomicInv

\* The protection is lost for good.
LEMMA ProtectedBefore ==
    ASSUME TypeOK, Stages, [Next]_vars, Protected'
    PROVE  Protected
<1>1. /\ locks' = locks /\ stolen \subseteq stolen'
      /\ \A c \in Call : kind[c] = "none" \/ kind'[c] = kind[c]
  <2>1. ASSUME NEW c \in Call, Request(c)
        PROVE  /\ locks' = locks /\ stolen \subseteq stolen'
               /\ \A d \in Call : kind[d] = "none" \/ kind'[d] = kind[d]
    BY <2>1 DEF Request, TypeOK, Stages, page, lock
  <2>2. CASE UNCHANGED <<locks, kind>> /\ stolen \subseteq stolen'
    BY <2>2
  <2>3. ASSUME NEW c \in Call, Work(c)
        PROVE  UNCHANGED <<locks, kind, stolen>>
    BY <2>3 DEF Work, Load, Abandon, Broadcast, SaveCheck, SaveStale, SaveOutcomeAgain,
                SaveOutcomeFails, SaveWrite, SaveWriteFails, SaveMore, Return, Delete,
                Export, Import, ImportSkips, Finish, Continue, page, lock
  <2> QED BY <2>1, <2>2, <2>3
          DEF Next, Grant, Steal, RequestRejected, CloseTab, vars, page, lock
<1> QED BY <1>1 DEF Protected

\* What a call that ends leaves of the storage: all of it, or what a delete
\* or an export of its own made of it.
LeavesStorage(c) ==
    \/ UNCHANGED storage
    \/ /\ Enter(c) /\ stored # NoRecord /\ stored' = NoRecord
       /\ UNCHANGED <<created, backups>>
    \/ /\ UNCHANGED <<created, stored>> /\ stored # NoRecord
       /\ backups' = backups \cup {stored}

LEMMA FinishAtomic ==
    ASSUME AtomicInv, TypeOK', Protected' => Protected,
           NEW c \in Call, Working(c), NEW a \in Answer, Finish(c, a), LeavesStorage(c),
           \/ UNCHANGED mutex
           \/ pc[c] = "writing" /\ mutex' = [mutex EXCEPT ![tab[c]] = NoCall]
    PROVE  AtomicInv'
<1> USE DEF AtomicInv, Finish
<1>1. Stages'
  BY DEF Stages, TypeOK
<1>2. Creation'
  BY DEF Creation, TypeOK, Holds, LeavesStorage, storage
<1>3. Versions'
  BY DEF Versions, TypeOK, Holds, LeavesStorage, storage
<1>4. Mutexes'
  BY NoCallAssumption DEF Mutexes, TypeOK, page
<1>5. Alone'
  BY NoCallAssumption DEF Alone, TypeOK, page
<1>6. Current'
  <2> SUFFICES ASSUME Protected' PROVE Current'
    BY DEF Current
  <2>1. ASSUME NEW d \in Call, pc'[d] = "writing" PROVE stored' = stored
    BY <2>1, NoCallAssumption DEF LeavesStorage, storage, Mutexes, Alone, Enter, TypeOK, Protected
  <2> QED BY <2>1 DEF Current, TypeOK, Holds, LeavesStorage, storage
<1> QED BY <1>1, <1>2, <1>3, <1>4, <1>5, <1>6
LEMMA AtomicStep == AtomicInv /\ [Next]_vars => AtomicInv'
<1> SUFFICES ASSUME AtomicInv, [Next]_vars PROVE AtomicInv'
  OBVIOUS
<1>types. TypeOK /\ TypeOK'
  BY TypeStep DEF AtomicInv
<1>protected. Protected' => Protected
  BY <1>types, ProtectedBefore DEF AtomicInv
<1> USE <1>types, <1>protected DEF Holds
<1>1. ASSUME NEW c \in Call, Request(c) PROVE AtomicInv'
  <2> USE <1>1 DEF Request, page, local, lock, storage
  <2>1. Stages' /\ Versions'
    BY DEF AtomicInv, TypeOK, Stages, Versions
  <2>2. Creation'
    BY DEF AtomicInv, TypeOK, Creation, Stages
  <2>3. Mutexes' /\ Alone'
    BY DEF AtomicInv, TypeOK, Mutexes, Alone
  <2>4. Current'
    BY DEF AtomicInv, TypeOK, Current
  <2> QED BY <2>1, <2>2, <2>3, <2>4 DEF AtomicInv
<1>2. ASSUME NEW c \in Call, Grant(c) PROVE AtomicInv'
  <2> USE <1>2 DEF Grant, LockIsFree, page, local, storage
  <2>1. Stages' /\ Versions' /\ Creation'
    BY DEF AtomicInv, TypeOK, Stages, Versions, Creation
  <2>2. Mutexes' /\ Alone'
    BY NoCallAssumption DEF AtomicInv, TypeOK, Mutexes, Alone
  <2>3. Current'
    BY DEF AtomicInv, TypeOK, Current
  <2> QED BY <2>1, <2>2, <2>3 DEF AtomicInv
<1>3. ASSUME NEW c \in Call, Steal(c) PROVE AtomicInv'
  BY <1>3 DEF Steal, AtomicInv, Stages, Creation, Versions, Mutexes, Alone, Current,
              Protected, page, local, storage
<1>4. ASSUME NEW c \in Call, RequestRejected(c) PROVE AtomicInv'
  <2> USE <1>4 DEF RequestRejected, page, local, lock, storage
  <2>1. Stages' /\ Versions' /\ Creation'
    BY DEF AtomicInv, TypeOK, Stages, Versions, Creation
  <2>2. Mutexes' /\ Alone' /\ Current'
    BY DEF AtomicInv, TypeOK, Mutexes, Alone, Current
  <2> QED BY <2>1, <2>2 DEF AtomicInv
<1>5. ASSUME NEW c \in Call, Work(c) PROVE AtomicInv'
  <2>1. CASE Load(c)
    <3> USE <2>1 DEF Load, Continue, page, lock, storage
    <3>1. Stages' /\ Versions' /\ Creation'
      BY DEF AtomicInv, TypeOK, Stages, Versions, Creation
    <3>2. Mutexes' /\ Alone'
      BY DEF AtomicInv, TypeOK, Mutexes, Alone
    <3>3. Current'
      BY DEF AtomicInv, TypeOK, Current, Stages, Versions, Record
    <3> QED BY <3>1, <3>2, <3>3 DEF AtomicInv
  <2>2. CASE Abandon(c)
    BY <2>2, FinishAtomic DEF Abandon, LeavesStorage, ReadyToSave, Answer, storage
  <2>3. CASE Broadcast(c)
    <3> USE <2>3 DEF Broadcast, Continue, page, lock, storage
    <3>1. Stages' /\ Versions' /\ Creation'
      BY DEF AtomicInv, TypeOK, Stages, Versions, Creation
    <3>2. Mutexes' /\ Alone'
      BY DEF AtomicInv, TypeOK, Mutexes, Alone
    <3>3. Current'
      BY DEF AtomicInv, TypeOK, Current, Stages, Versions, Record
    <3> QED BY <3>1, <3>2, <3>3 DEF AtomicInv
  <2>4. CASE SaveCheck(c)
    <3> USE <2>4 DEF SaveCheck, Continue, ReadyToSave, SameVersion, page, local, lock, storage
    <3>1. Stages' /\ Versions' /\ Creation'
      BY DEF AtomicInv, TypeOK, Stages, Versions, Creation
    <3>2. Mutexes' /\ Alone'
      BY NoCallAssumption DEF AtomicInv, TypeOK, Enter, Mutexes, Alone
    <3>3. Current'
      BY DEF AtomicInv, TypeOK, Current, Stages, Versions, Record
    <3> QED BY <3>1, <3>2, <3>3 DEF AtomicInv
  <2>5. CASE SaveStale(c)
    BY <2>5, FinishAtomic DEF SaveStale, LeavesStorage, ReadyToSave, Answer, storage
  <2>6. CASE SaveOutcomeAgain(c)
    <3> USE <2>6 DEF SaveOutcomeAgain, Continue, Reattaches, page, lock, storage
    <3>1. Stages' /\ Versions' /\ Creation'
      BY DEF AtomicInv, TypeOK, Stages, Versions, Creation
    <3>2. Mutexes' /\ Alone'
      BY DEF AtomicInv, TypeOK, Mutexes, Alone
    <3>3. /\ copy'[c] = stored /\ pc'[c] = "broadcast" /\ stored.version \in Nat
          /\ \A d \in Call \ {c} : copy'[d] = copy[d] /\ pc'[d] = pc[d]
          /\ UNCHANGED <<kind, stored, backups>>
      BY DEF TypeOK, Record
    <3>4. Current'
      <4>1. ASSUME Protected', NEW d \in Call \ {c} PROVE UNCHANGED <<copy[d], pc[d]>> /\ Protected
        BY <3>3, <4>1
      <4> QED BY <3>3, <4>1 DEF AtomicInv, Current
    <3> QED BY <3>1, <3>2, <3>4 DEF AtomicInv
  <2>7. CASE SaveOutcomeFails(c)
    BY <2>7, FinishAtomic DEF SaveOutcomeFails, LeavesStorage, ReadyToSave, Answer, storage
  <2>8. CASE SaveWrite(c)
    <3> USE <2>8 DEF SaveWrite, Continue, page, lock
    <3>1. Written(c) # NoRecord /\ Written(c).version > 0
      BY RecordAssumption, WrittenType DEF TypeOK, Written, Record
    <3>2. Stages'
      BY DEF AtomicInv, TypeOK, Stages
    <3>3. Versions'
      BY <3>1 DEF AtomicInv, TypeOK, Versions
    <3>4. Creation'
      BY DEF AtomicInv, TypeOK, Stages, Creation
    <3>5. Stages' /\ Versions' /\ Creation'
      BY <3>2, <3>3, <3>4
    <3>6. Mutexes' /\ Alone'
      BY NoCallAssumption DEF AtomicInv, TypeOK, Mutexes, Alone
    <3>7. ASSUME Protected', NEW d \in Call, d # c, Holds(d), kind[d] \in Saver
          PROVE  copy[d].version < Written(c).version
      BY <3>7
         DEF AtomicInv, TypeOK, Current, Stages, Versions, Creation, Mutexes, Alone,
             Protected, Written, EmptyCopy, Record
    <3>8. ASSUME Protected', NEW d \in Call, d # c PROVE pc[d] # "writing"
      BY <3>8 DEF AtomicInv, TypeOK, Mutexes, Alone, Protected
    <3>9. Current'
      BY <3>7, <3>8 DEF AtomicInv, TypeOK, Current, Record
    <3> QED BY <3>5, <3>6, <3>9 DEF AtomicInv
  <2>9. CASE SaveWriteFails(c)
    BY <2>9, FinishAtomic DEF SaveWriteFails, LeavesStorage, ReadyToSave, Answer, storage
  <2>10. CASE SaveMore(c)
    <3> USE <2>10 DEF SaveMore, Continue, page, local, lock, storage
    <3>1. Stages' /\ Versions' /\ Creation'
      BY DEF AtomicInv, TypeOK, Stages, Versions, Creation
    <3>2. Mutexes' /\ Alone'
      BY DEF AtomicInv, TypeOK, Mutexes, Alone
    <3>3. Current'
      BY DEF AtomicInv, TypeOK, Current, Stages, Versions, Record
    <3> QED BY <3>1, <3>2, <3>3 DEF AtomicInv
  <2>11. CASE Return(c)
    BY <2>11, FinishAtomic DEF Return, LeavesStorage, ReadyToSave, Answer, storage
  <2>12. CASE Delete(c)
    BY <2>12, FinishAtomic DEF Delete, LeavesStorage, ReadyToSave, Answer, storage
  <2>13. CASE Export(c)
    BY <2>13, FinishAtomic DEF Export, LeavesStorage, ReadyToSave, Answer, storage
  <2>14. CASE Import(c)
    <3> USE <2>14 DEF Import, Continue, page, lock, storage
    <3>1. Stages' /\ Versions' /\ Creation'
      BY DEF AtomicInv, TypeOK, Stages, Versions, Creation
    <3>2. Mutexes' /\ Alone'
      BY NoCallAssumption DEF AtomicInv, TypeOK, Enter, Mutexes, Alone
    <3>3. Current'
      BY DEF AtomicInv, TypeOK, Current, Stages, Versions, Record
    <3> QED BY <3>1, <3>2, <3>3 DEF AtomicInv
  <2>15. CASE ImportSkips(c)
    BY <2>15, FinishAtomic DEF ImportSkips, LeavesStorage, ReadyToSave, Answer, storage
  <2> QED BY <1>5, <2>1, <2>2, <2>3, <2>4, <2>5, <2>6, <2>7, <2>8, <2>9, <2>10, <2>11,
             <2>12, <2>13, <2>14, <2>15 DEF Work
<1>6. ASSUME NEW t \in Tab, CloseTab(t) PROVE AtomicInv'
  <2> USE <1>6 DEF CloseTab, Dies, page, storage
  <2>1. Stages' /\ Versions' /\ Creation'
    BY DEF AtomicInv, TypeOK, Stages, Versions, Creation
  <2>2. Mutexes' /\ Alone'
    BY NoCallAssumption DEF AtomicInv, TypeOK, Mutexes, Alone
  <2>3. Current'
    BY DEF AtomicInv, TypeOK, Current
  <2> QED BY <2>1, <2>2, <2>3 DEF AtomicInv
<1>7. CASE UNCHANGED vars
  BY <1>7 DEF AtomicInv, Stages, Creation, Versions, Mutexes, Alone, Current, Protected,
              vars, page, local, lock, storage
<1> QED BY <1>1, <1>2, <1>3, <1>4, <1>5, <1>6, <1>7 DEF Next
LEMMA AtomicInvariant == Spec => []AtomicInv
BY InitAtomic, AtomicStep, PTL DEF Spec

(***************************************************************************)
(* Refinement.  Only a write, a delete and an export are steps of the      *)
(* abstract record; all the rest of a call leaves it alone, and what loses *)
(* the protection lapses it.                                               *)
(***************************************************************************)
AbstractRecord == IF ~Protected THEN Lapsed
                  ELSE IF stored = NoRecord THEN NoRecord ELSE stored.marks
AbstractExports == {b.marks : b \in backups}
AbstractVars == <<AbstractRecord, AbstractExports, created>>

LEMMA InitImplements == Init => Promise!Init
<1> SUFFICES ASSUME Init PROVE Promise!Init
  OBVIOUS
<1>1. Protected
  BY DEF Init, Protected
<1>2. created = TRUE => stored = Existing /\ Existing # NoRecord /\ Existing.marks = {}
  BY RecordsType, RecordAssumption DEF Init, Existing
<1>3. AbstractRecord = IF created THEN {} ELSE NoRecord
  BY <1>1, <1>2 DEF AbstractRecord, Init
<1>4. AbstractExports \in SUBSET (IF created THEN {{}} ELSE {})
  BY <1>2 DEF AbstractExports, Init
<1> QED BY <1>3, <1>4 DEF Promise!Init, AbstractRecord, AbstractExports, Init

\* A step that leaves the storage alone is no step of the abstract record.
LEMMA StorageKept ==
    ASSUME UNCHANGED storage, Protected' => Protected
    PROVE  Promise!Lapse \/ UNCHANGED AbstractVars
<1>1. CASE ~Protected'
  BY <1>1 DEF Promise!Lapse
<1>2. CASE Protected'
  BY <1>2 DEF AbstractVars, AbstractRecord, AbstractExports, storage
<1> QED BY <1>1, <1>2

LEMMA WriteImplements ==
    ASSUME AtomicInv, NEW c \in Call, SaveWrite(c), Protected, Protected'
    PROVE  Promise!Next
<1> USE DEF AtomicInv
<1>1. /\ stored' = Written(c) /\ Written(c) \in Record /\ Written(c) # NoRecord
      /\ created' = TRUE /\ UNCHANGED backups
  BY RecordAssumption, WrittenType DEF SaveWrite
<1>2. AbstractRecord' = Written(c).marks /\ UNCHANGED AbstractExports
  BY <1>1 DEF AbstractRecord, AbstractExports
<1>3. CASE kind[c] = "create"
  <2>1. ~created /\ Written(c).marks = {c}
    BY <1>3 DEF SaveWrite, Creation, Written, EmptyCopy
  <2>2. Promise!Create
    BY <1>1, <1>2, <2>1 DEF Promise!Create, AbstractRecord, AbstractExports
  <2> QED BY <2>2 DEF Promise!Next
<1>4. CASE kind[c] \in Saver
  <2>1. /\ created /\ stored # NoRecord /\ stored \in Record
        /\ Written(c).marks = stored.marks \cup {c}
    BY <1>4 DEF SaveWrite, Creation, Current, Holds, Written, TypeOK
  <2>2. AbstractRecord = stored.marks /\ AbstractRecord \notin {NoRecord, Lapsed}
    BY <2>1, RecordAssumption DEF AbstractRecord, Record
  <2>3. Promise!Decide
    BY <1>1, <1>2, <2>1, <2>2, Zenon DEF Promise!Decide, AbstractRecord, AbstractExports, TypeOK
  <2> QED BY <2>3 DEF Promise!Next
<1>5. CASE kind[c] = "import"
  <2>1. /\ created /\ stored = NoRecord /\ copy[c] \in backups
        /\ Written(c).marks = copy[c].marks
    BY <1>5 DEF SaveWrite, Creation, Current, Holds, Written, TypeOK, Record
  <2>2. Promise!Import
    BY <1>1, <1>2, <2>1 DEF Promise!Import, AbstractRecord, AbstractExports, TypeOK
  <2> QED BY <2>2 DEF Promise!Next
<1> QED BY <1>3, <1>4, <1>5 DEF SaveWrite, Stages
LEMMA DeleteImplements ==
    ASSUME AtomicInv, NEW c \in Call, Delete(c), Protected' => Protected
    PROVE  Promise!Next \/ UNCHANGED AbstractVars
<1>1. CASE UNCHANGED storage
  BY <1>1, StorageKept DEF Promise!Next
<1>2. CASE stored # NoRecord /\ stored' = NoRecord /\ UNCHANGED <<created, backups>>
  <2>1. CASE ~Protected'
    BY <2>1 DEF Promise!Next, Promise!Lapse
  <2>2. CASE Protected'
    <3>1. AbstractRecord = stored.marks /\ AbstractRecord \notin {NoRecord, Lapsed}
      BY <1>2, <2>2, RecordAssumption DEF AbstractRecord, AtomicInv, TypeOK, Record
    <3>2. AbstractRecord' = NoRecord /\ UNCHANGED AbstractExports
      BY <1>2, <2>2 DEF AbstractRecord, AbstractExports
    <3>3. Promise!Delete
      BY <1>2, <3>1, <3>2 DEF Promise!Delete, AbstractRecord, AbstractExports
    <3> QED BY <3>3 DEF Promise!Next
  <2> QED BY <2>1, <2>2
<1> QED BY <1>1, <1>2 DEF Delete, storage

LEMMA ExportImplements ==
    ASSUME AtomicInv, NEW c \in Call, Export(c), Protected' => Protected
    PROVE  Promise!Next \/ UNCHANGED AbstractVars
<1>1. CASE stored = NoRecord
  BY <1>1, StorageKept DEF Export, storage, Promise!Next
<1>2. CASE ~Protected'
  BY <1>2 DEF Promise!Next, Promise!Lapse
<1>3. CASE stored # NoRecord /\ Protected'
  <2>1. AbstractRecord = stored.marks /\ AbstractRecord \notin {NoRecord, Lapsed}
    BY <1>3, RecordAssumption DEF AbstractRecord, AtomicInv, TypeOK, Record
  <2>2. UNCHANGED AbstractRecord /\ AbstractExports' = AbstractExports \cup {AbstractRecord}
    BY <1>3, <2>1 DEF AbstractRecord, AbstractExports, Export
  <2>3. Promise!Export
    BY <2>1, <2>2 DEF Promise!Export, AbstractRecord, AbstractExports, Export
  <2> QED BY <2>3 DEF Promise!Next
<1> QED BY <1>1, <1>2, <1>3

LEMMA StepImplements ==
    ASSUME AtomicInv, [Next]_vars
    PROVE  Promise!Next \/ UNCHANGED AbstractVars
<1>1. Protected' => Protected
  BY ProtectedBefore DEF AtomicInv
<1>2. CASE UNCHANGED storage
  BY <1>1, <1>2, StorageKept DEF Promise!Next
<1>3. ASSUME NEW c \in Call, SaveWrite(c) PROVE Promise!Next
  BY <1>1, <1>3, WriteImplements DEF Promise!Next, Promise!Lapse
<1>4. ASSUME NEW c \in Call, Delete(c) PROVE Promise!Next \/ UNCHANGED AbstractVars
  BY <1>1, <1>4, DeleteImplements
<1>5. ASSUME NEW c \in Call, Export(c) PROVE Promise!Next \/ UNCHANGED AbstractVars
  BY <1>1, <1>5, ExportImplements
<1> QED BY <1>2, <1>3, <1>4, <1>5
        DEF Next, Work, Request, Grant, Steal, RequestRejected, CloseTab, Load, Abandon,
            Broadcast, SaveCheck, SaveStale, SaveOutcomeAgain, SaveOutcomeFails,
            SaveWriteFails, SaveMore, Return, Import, ImportSkips, vars

\* The store implements the atomic record: however the calls of any number of
\* tabs interleave, they change the record as if each did so in one step, for as
\* long as no lock is taken away.
THEOREM StoreIsAtomic == Spec => RecordIsAtomic
<1>1. AtomicInv /\ [Next]_vars
        => [Promise!Next]_<<AbstractRecord, AbstractExports, created>>
  BY StepImplements DEF AbstractVars
<1> QED BY <1>1, InitImplements, AtomicInvariant, PTL
        DEF Spec, RecordIsAtomic, Promise!Spec, AbstractRecord, AbstractExports
=============================================================================
