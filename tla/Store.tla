------------------------------- MODULE Store -------------------------------
(***************************************************************************)
(* The store of swap records and the lock every call is made under         *)
(* (wasm/store.go, wasm/main_js.go underStoreLock, wasm/manager.go         *)
(* saveOutcome).                                                           *)
(*                                                                         *)
(* One swap's record, in the localStorage that every tab of the origin     *)
(* shares.  A call into the module loads the record, waits for the network *)
(* and saves what it decided.  Three things keep two such calls apart: the *)
(* browser's Web Lock, which spans tabs; the store's own mutex, which      *)
(* spans the calls of one tab; and the version in the record, compared     *)
(* before a write.  The record is modelled by its version and by the set   *)
(* of calls whose decisions it holds, so a lost decision is a lost mark.   *)
(***************************************************************************)
EXTENDS Naturals, FiniteSets

CONSTANTS Call,        \* the calls made, each at most once
          Tab,         \* the tabs (modules) open on the origin
          NoCall,      \* nobody holds the lock
          NoRecord,    \* nothing is stored under the swap's id
          Lapsed,      \* the abstract record once the lock was taken away
          MaxRetry,    \* saveOutcome's attempts after the first, 3 in the code
          MaxVersion   \* bound on the versions explored

ASSUME NoCallAssumption == NoCall \notin Call
ASSUME BoundsAssumption == MaxRetry \in Nat /\ MaxVersion \in Nat

VARIABLES locks,     \* the browser has the Web Locks API
          tab,       \* the tab each call is made in
          kind,      \* what each call does, "none" before it is made
          pc,        \* how far each call has got
          copy,      \* the record each call holds
          tries,     \* saveOutcome's attempts so far
          spent,     \* the funding and contract each broadcast spends
          answer,    \* what each call told the page
          holder,    \* the call holding the Web Lock, as the browser sees it
          stolen,    \* the calls whose lock another context took
          mutex,     \* the call inside each tab's store mutex
          created,   \* the swap's record was stored at some time
          stored,    \* the record in localStorage
          backups    \* the copies of it that were exported

page == <<locks, tab>>
local == <<copy, tries, spent>>
lock == <<holder, stolen>>
storage == <<created, stored, backups>>
vars == <<page, kind, pc, local, answer, lock, mutex, storage>>

----------------------------------------------------------------------------
Record == [version : Nat, marks : SUBSET Call]
ASSUME RecordAssumption == /\ NoRecord \notin Record
                           /\ \A marks \in SUBSET Call : marks \notin {NoRecord, Lapsed}

\* What the calls do to the store.  "update" is any load-decide-save handler,
\* "switch" a refresh that adopts another funding output, "outcome" a redeem or
\* a refund, which broadcasts before it saves.
Kind == {"create", "update", "switch", "outcome", "delete", "export", "import"}
Saver == {"update", "switch", "outcome"}
Answer == {"none", "ok", "error", "stale", "refused", "unrecorded"}
Phase == {"idle", "queued", "running", "loaded", "broadcast", "writing", "saved",
          "done", "gone"}

EmptyCopy == [version |-> 0, marks |-> {}]
Existing == [version |-> 1, marks |-> {}]

\* The work has begun: the lock's callback ran (granted.Store).
Granted(c) == pc[c] \notin {"idle", "queued"}
Working(c) == pc[c] \in {"running", "loaded", "broadcast", "writing", "saved"}

\* The first answer is the one the caller gets (settle, a sync.Once).
Settled(c, a) == IF answer[c] = "none" THEN [answer EXCEPT ![c] = a] ELSE answer

\* A form of SameVersion without the case of a record that is gone.
SameVersionUnlessGone(c) == stored # NoRecord => stored.version = copy[c].version

\* Save's compare: the record in the store is the one that was loaded.
SameVersion(c) == IF stored = NoRecord THEN copy[c].version = 0
                                       ELSE stored.version = copy[c].version

\* Which funding and contract a copy of the record names.
Identity(marks) == {m \in marks : kind[m] = "switch"}

----------------------------------------------------------------------------
Init == /\ tab \in [Call -> Tab]
        /\ locks \in BOOLEAN
        \* Without the API the module runs only outside a browser: one module.
        /\ locks \/ \A c, d \in Call : tab[c] = tab[d]
        /\ kind = [c \in Call |-> "none"]
        /\ pc = [c \in Call |-> "idle"]
        /\ copy = [c \in Call |-> EmptyCopy]
        /\ tries = [c \in Call |-> 0]
        /\ spent = [c \in Call |-> {}]
        /\ answer = [c \in Call |-> "none"]
        /\ holder = NoCall
        /\ stolen = {}
        /\ mutex = [t \in Tab |-> NoCall]
        \* The swap is there already, with or without a backup of it, or not.
        /\ created \in BOOLEAN
        /\ stored = IF created THEN Existing ELSE NoRecord
        /\ backups \in SUBSET (IF created THEN {Existing} ELSE {})

\* The page calls in.  A swap's id is random, so it is created once.
Request(c) ==
    /\ pc[c] = "idle"
    /\ \E k \in Kind :
         /\ k = "create" => ~created /\ \A d \in Call : kind[d] # "create"
         /\ kind' = [kind EXCEPT ![c] = k]
    /\ pc' = [pc EXCEPT ![c] = IF locks THEN "queued" ELSE "running"]
    /\ UNCHANGED <<page, local, answer, lock, mutex, storage>>

LockIsFree == holder = NoCall

\* The browser grants the lock: to one call at a time.
Grant(c) ==
    /\ pc[c] = "queued"
    /\ LockIsFree
    /\ holder' = c
    /\ pc' = [pc EXCEPT ![c] = "running"]
    /\ UNCHANGED <<page, kind, local, answer, stolen, mutex, storage>>

\* Another context takes the lock with "steal" and lets it go again; the
\* work that held it goes on.
Steal(c) ==
    /\ holder = c
    /\ holder' = NoCall
    /\ stolen' = stolen \cup {c}
    /\ UNCHANGED <<page, kind, pc, local, answer, mutex, storage>>

\* Forms of Refusal that ignore the granted flag, and that answer nothing.
RefusalOfAnyCall(c) == Settled(c, "refused")
RefusalUnanswered(c) == answer

\* The request's rejection handler: a refusal before the lock was granted is
\* the call's answer, one after it is not.
Refusal(c) == IF Granted(c) THEN answer ELSE Settled(c, "refused")

RequestRejected(c) ==
    /\ locks
    /\ pc[c] = "queued" \/ c \in stolen
    /\ answer' = Refusal(c)
    /\ pc' = [pc EXCEPT ![c] = IF Granted(c) THEN @ ELSE "done"]
    /\ UNCHANGED <<page, kind, local, lock, mutex, storage>>

\* The work is over: it answers, its promise lets the lock go, and its copy
\* of the record goes with it.
Finish(c, a) ==
    /\ pc' = [pc EXCEPT ![c] = "done"]
    /\ answer' = Settled(c, a)
    /\ holder' = IF holder = c THEN NoCall ELSE holder
    /\ copy' = [copy EXCEPT ![c] = EmptyCopy]
    /\ tries' = [tries EXCEPT ![c] = 0]
    /\ spent' = [spent EXCEPT ![c] = {}]
    /\ UNCHANGED <<page, kind, stolen>>

\* The call goes on, with its copy of the record as the action says.
Continue(c, phase) ==
    /\ pc' = [pc EXCEPT ![c] = phase]
    /\ UNCHANGED <<page, kind, answer, lock>>

\* Nobody else of this tab is inside the store.
Enter(c) == mutex[tab[c]] = NoCall

\* The fresh record of Manager.Create, or the one Store.Load reads.
Load(c) ==
    /\ pc[c] = "running" /\ Enter(c)
    /\ \/ kind[c] = "create" /\ UNCHANGED copy
       \/ /\ kind[c] \in Saver /\ stored # NoRecord
          /\ copy' = [copy EXCEPT ![c] = stored]
    /\ Continue(c, "loaded")
    /\ UNCHANGED <<tries, spent, mutex, storage>>

\* There is nothing to load, the handler refuses, or a node fails: the call
\* ends before it saved anything.
Abandon(c) ==
    /\ \/ pc[c] = "running" /\ kind[c] \in Saver /\ stored = NoRecord
       \/ pc[c] = "loaded"
    /\ Finish(c, "error")
    /\ UNCHANGED <<mutex, storage>>

\* Redeem and Refund put the transaction on the chain before they save.
Broadcast(c) ==
    /\ pc[c] = "loaded" /\ kind[c] = "outcome"
    /\ spent' = [spent EXCEPT ![c] = Identity(copy[c].marks)]
    /\ Continue(c, "broadcast")
    /\ UNCHANGED <<copy, tries, mutex, storage>>

ReadyToSave(c) == pc[c] = (IF kind[c] = "outcome" THEN "broadcast" ELSE "loaded")

\* Store.Save up to the write: the mutex is taken and the versions compared.
SaveCheck(c) ==
    /\ ReadyToSave(c) /\ Enter(c)
    /\ SameVersion(c)
    /\ mutex' = [mutex EXCEPT ![tab[c]] = c]
    /\ Continue(c, "writing")
    /\ UNCHANGED <<local, storage>>

\* Store.Save refuses a stale copy; every handler but saveOutcome gives up.
SaveStale(c) ==
    /\ ReadyToSave(c) /\ Enter(c)
    /\ kind[c] # "outcome"
    /\ ~SameVersion(c)
    /\ Finish(c, "stale")
    /\ UNCHANGED <<mutex, storage>>

\* Forms of Reattaches: one attempt too many, and onto any record.
ReattachesOnceMore(c) == /\ tries[c] <= MaxRetry
                         /\ stored # NoRecord
                         /\ Identity(stored.marks) = spent[c]
ReattachesAnywhere(c) == tries[c] < MaxRetry /\ stored # NoRecord

\* saveOutcome's loop body: the outcome goes on the record as it is now, if
\* that is still the record of the output the transaction spent.
Reattaches(c) == /\ tries[c] < MaxRetry
                 /\ stored # NoRecord
                 /\ Identity(stored.marks) = spent[c]

SaveOutcomeAgain(c) ==
    /\ pc[c] = "broadcast" /\ Enter(c)
    /\ ~SameVersion(c)
    /\ Reattaches(c)
    /\ copy' = [copy EXCEPT ![c] = stored]
    /\ tries' = [tries EXCEPT ![c] = @ + 1]
    /\ Continue(c, "broadcast")
    /\ UNCHANGED <<spent, mutex, storage>>

\* The answer names the transaction, and says that it is not on the record.
SaveOutcomeFails(c) ==
    /\ pc[c] = "broadcast" /\ Enter(c)
    /\ ~SameVersion(c)
    /\ ~Reattaches(c)
    /\ Finish(c, "unrecorded")
    /\ UNCHANGED <<mutex, storage>>

\* What is written: the copy, one version on, with the call's decision in it.
\* An imported record is written as it was exported.
Written(c) == [version |-> copy[c].version + 1,
               marks |-> copy[c].marks \cup (IF kind[c] = "import" THEN {} ELSE {c})]

SaveWrite(c) ==
    /\ pc[c] = "writing"
    /\ stored' = Written(c)
    /\ created' = TRUE
    /\ copy' = [copy EXCEPT ![c] = Written(c)]
    /\ mutex' = [mutex EXCEPT ![tab[c]] = NoCall]
    /\ Continue(c, "saved")
    /\ UNCHANGED <<tries, spent, backups>>

\* The quota refuses the write; there is no retry for that.
SaveWriteFails(c) ==
    /\ pc[c] = "writing"
    /\ mutex' = [mutex EXCEPT ![tab[c]] = NoCall]
    /\ Finish(c, IF kind[c] = "outcome" THEN "unrecorded" ELSE "error")
    /\ UNCHANGED storage

\* handleWalletSent saves, then saves again from the record it holds or
\* through a handler that loads afresh.
SaveMore(c) ==
    /\ pc[c] = "saved" /\ kind[c] = "update"
    /\ copy[c].version < MaxVersion
    /\ \E phase \in {"loaded", "running"} : Continue(c, phase)
    /\ UNCHANGED <<local, mutex, storage>>

Return(c) ==
    /\ pc[c] = "saved"
    /\ Finish(c, "ok")
    /\ UNCHANGED <<mutex, storage>>

\* Store.DeleteIf: the decision and the removal under one mutex.
Delete(c) ==
    /\ pc[c] = "running" /\ kind[c] = "delete" /\ Enter(c)
    /\ \/ stored # NoRecord /\ stored' = NoRecord /\ Finish(c, "ok")
       \/ UNCHANGED stored /\ Finish(c, "error")   \* refused, or nothing there
    /\ UNCHANGED <<mutex, created, backups>>

Export(c) ==
    /\ pc[c] = "running" /\ kind[c] = "export" /\ Enter(c)
    /\ backups' = IF stored = NoRecord THEN backups ELSE backups \cup {stored}
    /\ Finish(c, "ok")
    /\ UNCHANGED <<mutex, created, stored>>

\* Store.SaveIfAbsent up to the write.
Import(c) ==
    /\ pc[c] = "running" /\ kind[c] = "import" /\ Enter(c)
    /\ stored = NoRecord
    /\ \E b \in backups : copy' = [copy EXCEPT ![c] = b]
    /\ mutex' = [mutex EXCEPT ![tab[c]] = c]
    /\ Continue(c, "writing")
    /\ UNCHANGED <<tries, spent, storage>>

\* A record that is there is left alone; a file with nothing in it that can be
\* imported is an error.
ImportSkips(c) ==
    /\ pc[c] = "running" /\ kind[c] = "import" /\ Enter(c)
    /\ \/ stored # NoRecord /\ backups # {} /\ Finish(c, "ok")
       \/ Finish(c, "error")
    /\ UNCHANGED <<mutex, storage>>

\* A tab is closed or reloaded: its calls end where they are, and the
\* browser lets go of the lock one of them held.
Dies(c, t) == tab[c] = t /\ (pc[c] = "queued" \/ Working(c))

CloseTab(t) ==
    /\ \E c \in Call : Dies(c, t)
    /\ pc' = [c \in Call |-> IF Dies(c, t) THEN "gone" ELSE pc[c]]
    /\ copy' = [c \in Call |-> IF Dies(c, t) THEN EmptyCopy ELSE copy[c]]
    /\ tries' = [c \in Call |-> IF Dies(c, t) THEN 0 ELSE tries[c]]
    /\ spent' = [c \in Call |-> IF Dies(c, t) THEN {} ELSE spent[c]]
    /\ holder' = IF holder # NoCall /\ tab[holder] = t THEN NoCall ELSE holder
    /\ mutex' = [mutex EXCEPT ![t] = NoCall]
    /\ UNCHANGED <<page, kind, answer, stolen, storage>>

\* What a call does once it has the lock.
Work(c) == \/ Load(c) \/ Abandon(c) \/ Broadcast(c) \/ SaveCheck(c) \/ SaveStale(c)
           \/ SaveOutcomeAgain(c) \/ SaveOutcomeFails(c) \/ SaveWrite(c)
           \/ SaveWriteFails(c) \/ SaveMore(c) \/ Return(c)
           \/ Delete(c) \/ Export(c) \/ Import(c) \/ ImportSkips(c)

Next == \/ \E c \in Call : \/ Request(c) \/ Grant(c) \/ Steal(c) \/ RequestRejected(c)
                           \/ Work(c)
        \/ \E t \in Tab : CloseTab(t)

Spec == Init /\ [][Next]_vars

\* The browser grants a free lock to somebody who waits for it, and no wait of
\* the work is unbounded: every request it makes has a timeout of its own.
Fairness == \A c \in Call : WF_vars(Grant(c)) /\ WF_vars(Work(c))
LiveSpec == Spec /\ Fairness

----------------------------------------------------------------------------
TypeOK == /\ locks \in BOOLEAN
          /\ tab \in [Call -> Tab]
          /\ kind \in [Call -> Kind \cup {"none"}]
          /\ pc \in [Call -> Phase]
          /\ copy \in [Call -> Record]
          /\ tries \in [Call -> 0..MaxRetry]
          /\ spent \in [Call -> SUBSET Call]
          /\ answer \in [Call -> Answer]
          /\ holder \in Call \cup {NoCall}
          /\ stolen \subseteq Call
          /\ mutex \in [Tab -> Call \cup {NoCall}]
          /\ created \in BOOLEAN
          /\ stored \in Record \cup {NoRecord}
          /\ backups \subseteq Record

\* "Nothing was changed; reload the page and try again" (main_js.go) is true
\* of every call it is told to: the call never ran and never will.
RefusedMeansUntouched ==
    \A c \in Call : answer[c] = "refused" =>
        /\ pc[c] \in {"done", "gone"}
        /\ stored # NoRecord => c \notin stored.marks

\* A redeem or refund is recorded on a record of the very output and contract
\* its transaction spent, however often it had to reload (saveOutcome).
OutcomeOnItsOwnRecord ==
    \A c \in Call : kind[c] = "outcome" /\ pc[c] = "saved" =>
        Identity(copy[c].marks) = spent[c]

\* The lock was never taken away, and where there is none nothing is imported
\* (an imported record carries the version it was exported with, so a copy
\* loaded before a delete can match it).
Protected == stolen = {} /\ (locks \/ \A c \in Call : kind[c] # "import")

Promise == INSTANCE AtomicRecord
             WITH Absent <- NoRecord,
                  record <- IF ~Protected THEN Lapsed
                            ELSE IF stored = NoRecord THEN NoRecord
                            ELSE stored.marks,
                  exported <- {b.marks : b \in backups}

\* No decision is lost, and a deleted record does not come back from a copy a
\* call still held: the calls of all tabs together change the record as if
\* each did so in one step.
RecordIsAtomic == Promise!Spec

\* Every call the page makes is answered, unless its tab is closed first.
EveryCallAnswered ==
    \A c \in Call : kind[c] # "none" ~> (answer[c] # "none" \/ pc[c] = "gone")
=============================================================================
