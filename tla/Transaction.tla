----------------------------- MODULE Transaction -----------------------------
(***************************************************************************)
(* The transaction manager of hw5 (transaction.c) under its callers: the   *)
(* service thread of each transaction (server.c: PUT/GET operations, then  *)
(* COMMIT, or a client that goes away) and the store, which runs every     *)
(* operation under the mutex of its map and calls trans_add_dependency for *)
(* the pending creators of earlier versions, trans_ref and trans_abort on  *)
(* a conflict, and version_create / version_dispose for the versions.      *)
(* Memory is sequentially consistent; a field guarded by the mutex of its  *)
(* transaction is read and written in one action, an unguarded access is   *)
(* an action boundary.                                                     *)
(***************************************************************************)
EXTENDS TransList, Integers, Sequences

CONSTANTS NoThread,   \* nobody holds the mutex of the store's map
          MaxOps      \* bound: PUT and GET operations per transaction

ASSUME TransAssumption == NoThread \notin Trans /\ MaxOps \in Nat

VARIABLES pc,       \* what the service thread of each transaction is doing
          status,   \* the fields of TRANSACTION; "unborn" before trans_create
          refcnt,
          depends,  \* the dependency list, first node first
          waitcnt,
          sem,      \* the value of the semaphore
          mapLock,  \* the thread in the store, or NoThread
          walk,     \* creators of the versions the store has still to visit
          dtp,      \* the dependee of the running trans_add_dependency
          rest,     \* trans_commit: the dependency nodes from "next" on
          held,     \* versions in the store created by each transaction
          ops       \* operations done (only to bound them)

lockVars  == <<mapLock, walk, dtp, ops>>
transVars == <<pc, status, refcnt, depends, waitcnt, sem, mapLock, walk, dtp, rest, held, ops>>
vars == <<listVars, transVars>>

Status == {"pending", "committed", "aborted"}
Final  == {"committed", "aborted"}
PC == {"serve", "walk", "count", "await", "check", "notify", "done", "gone"}

Created == {t \in Trans : cpc[t] = "created"}

Init ==
  /\ ListInit
  /\ pc = [t \in Trans |-> "serve"]
  /\ status = [t \in Trans |-> "unborn"]
  /\ refcnt = [t \in Trans |-> 0]
  /\ depends = [t \in Trans |-> <<>>]
  /\ waitcnt = [t \in Trans |-> 0]
  /\ sem = [t \in Trans |-> 0]
  /\ mapLock = NoThread
  /\ walk = [t \in Trans |-> {}]
  /\ dtp = [t \in Trans |-> t]
  /\ rest = [t \in Trans |-> <<>>]
  /\ held = [t \in Trans |-> 0]
  /\ ops = [t \in Trans |-> 0]

Goto(t, where) == pc' = [pc EXCEPT ![t] = where]

----------------------------------------------------------------------------
(* trans_create: the id and the fields of the fresh, still private node. *)
Create(t) ==
  /\ ReadFirstId(t)
  /\ status' = [status EXCEPT ![t] = "pending"]
  /\ refcnt' = [refcnt EXCEPT ![t] = 1]
  /\ UNCHANGED <<pc, depends, waitcnt, sem, rest, held, lockVars>>

Insert(t) == Link(t) /\ UNCHANGED transVars

----------------------------------------------------------------------------
(* The store's side of an operation.  store_put and store_get lock the map *)
(* and walk the versions of one key in the order of their creators' ids;   *)
(* W is the set of those creators.                                         *)
StoreEnter(t) ==
  /\ t \in Created /\ pc[t] = "serve" /\ ops[t] < MaxOps
  /\ mapLock = NoThread
  /\ mapLock' = t
  /\ ops' = [ops EXCEPT ![t] = @ + 1]
  /\ \E W \in SUBSET (Created \ {t}) : walk' = [walk EXCEPT ![t] = W]
  /\ Goto(t, "walk")
  /\ UNCHANGED <<listVars, status, refcnt, depends, waitcnt, sem, dtp, rest, held>>

(* The next version the store visits is one by d. *)
Visits(t, d) == /\ pc[t] = "walk" /\ d \in walk[t]
                /\ \A e \in walk[t] : id[d] <= id[e]
                /\ id[d] <= id[t]

(* A version whose creator is not pending, or has the same id, adds no      *)
(* dependency; the store may dispose of a committed version e that this     *)
(* committed one replaces (version_dispose drops its creator's reference).  *)
PassVersion(t, d) ==
  /\ Visits(t, d)
  /\ status[d] # "pending" \/ id[d] = id[t]
  /\ walk' = [walk EXCEPT ![t] = @ \ {d}]
  /\ \/ UNCHANGED <<refcnt, held>>
     \/ \E e \in Created \ (walk[t] \cup {t}) :
          /\ status[d] = "committed" /\ status[e] = "committed" /\ held[e] > 0
          /\ held' = [held EXCEPT ![e] = @ - 1]
          /\ refcnt' = [refcnt EXCEPT ![e] = @ - 1]
  /\ UNCHANGED <<listVars, pc, status, depends, waitcnt, sem, mapLock, dtp, rest, ops>>

(* trans_add_dependency: the new dependency list.  A non-empty list is      *)
(* replaced; doesNotExist answers 1 when the dependee IS in the list.       *)
doesNotExist(d, list) == \E i \in 1..Len(list) : list[i] = d

WithDependee(list, d) ==
  IF list # <<>> THEN <<d>>
  ELSE IF ~doesNotExist(d, list) THEN <<d>> \o list ELSE list

(* Variants of AddDependee: no reference is taken; equal ids count as older. *)
AddDependeeNoRef(t, d) ==
  /\ Visits(t, d) /\ id[d] < id[t]
  /\ status[d] = "pending"
  /\ depends' = [depends EXCEPT ![t] = WithDependee(@, d)]
  /\ dtp' = [dtp EXCEPT ![t] = d]
  /\ walk' = [walk EXCEPT ![t] = @ \ {d}]
  /\ Goto(t, "count")
  /\ UNCHANGED <<listVars, status, refcnt, waitcnt, sem, mapLock, rest, held, ops>>

AddDependeeOfEqual(t, d) ==
  /\ Visits(t, d) /\ id[d] <= id[t]
  /\ status[d] = "pending"
  /\ depends' = [depends EXCEPT ![t] = WithDependee(@, d)]
  /\ refcnt' = [refcnt EXCEPT ![d] = @ + 1]
  /\ dtp' = [dtp EXCEPT ![t] = d]
  /\ walk' = [walk EXCEPT ![t] = @ \ {d}]
  /\ Goto(t, "count")
  /\ UNCHANGED <<listVars, status, waitcnt, sem, mapLock, rest, held, ops>>

(* trans_add_dependency up to trans_ref: the status of the dependee is read *)
(* without its mutex, the list belongs to the running thread.               *)
AddDependee(t, d) ==
  /\ Visits(t, d) /\ id[d] < id[t]
  /\ status[d] = "pending"
  /\ depends' = [depends EXCEPT ![t] = WithDependee(@, d)]
  /\ refcnt' = [refcnt EXCEPT ![d] = @ + 1]
  /\ dtp' = [dtp EXCEPT ![t] = d]
  /\ walk' = [walk EXCEPT ![t] = @ \ {d}]
  /\ Goto(t, "count")
  /\ UNCHANGED <<listVars, status, waitcnt, sem, mapLock, rest, held, ops>>

(* Variant of CountWaiter: the waiter is counted at the dependent. *)
CountWaiterAtDependent(t) ==
  /\ pc[t] = "count"
  /\ waitcnt' = [waitcnt EXCEPT ![t] = @ + 1]
  /\ Goto(t, "walk")
  /\ UNCHANGED <<listVars, status, refcnt, depends, sem, mapLock, walk, dtp, rest, held, ops>>

(* trans_add_dependency: one more waiter, under the dependee's mutex. *)
CountWaiter(t) ==
  /\ pc[t] = "count"
  /\ waitcnt' = [waitcnt EXCEPT ![dtp[t]] = @ + 1]
  /\ Goto(t, "walk")
  /\ UNCHANGED <<listVars, status, refcnt, depends, sem, mapLock, walk, dtp, rest, held, ops>>

(* trans_abort changes no status, and consumes a reference only of a         *)
(* transaction whose status is final.  On such a one it would also notify    *)
(* the waiters (aborted) or end the program (committed): the store never     *)
(* calls it on one, see OnlyPendingOperate.                                  *)
AbortStatus(s) == s
AbortConsumes(s) == IF s \in Final THEN 1 ELSE 0

(* A version of a younger transaction is in the way: the store takes a      *)
(* reference and calls trans_abort on the performing transaction.           *)
StoreConflict(t) ==
  /\ pc[t] = "walk" /\ walk[t] # {}
  /\ \A d \in walk[t] : id[t] < id[d]
  /\ refcnt' = [refcnt EXCEPT ![t] = @ + 1 - AbortConsumes(status[t])]
  /\ status' = [status EXCEPT ![t] = AbortStatus(@)]
  /\ walk' = [walk EXCEPT ![t] = {}]
  /\ mapLock' = NoThread
  /\ Goto(t, "serve")
  /\ UNCHANGED <<listVars, depends, waitcnt, sem, dtp, rest, held, ops>>

(* Otherwise the store adds a version by t (version_create takes a          *)
(* reference), or puts it in the place of one t has made before.            *)
StoreVersion(t) ==
  /\ pc[t] = "walk" /\ walk[t] = {}
  /\ \/ /\ held' = [held EXCEPT ![t] = @ + 1]
        /\ refcnt' = [refcnt EXCEPT ![t] = @ + 1]
     \/ held[t] > 0 /\ UNCHANGED <<held, refcnt>>
  /\ mapLock' = NoThread
  /\ Goto(t, "serve")
  /\ UNCHANGED <<listVars, status, depends, waitcnt, sem, walk, dtp, rest, ops>>

----------------------------------------------------------------------------
(* The client sends COMMIT: trans_commit starts on the dependency list. *)
StartCommit(t) ==
  /\ t \in Created /\ pc[t] = "serve"
  /\ rest' = [rest EXCEPT ![t] = depends[t]]
  /\ Goto(t, "await")
  /\ UNCHANGED <<listVars, status, refcnt, depends, waitcnt, sem, held, lockVars>>

(* Variant of AwaitDependee: the thread does not block (sem_trywait). *)
AwaitDependeeNonBlocking(t) ==
  /\ pc[t] = "await" /\ rest[t] # <<>>
  /\ Goto(t, "check")
  /\ UNCHANGED <<listVars, status, refcnt, depends, waitcnt, sem, rest, held, lockVars>>

(* P(&next -> trans -> sem) *)
AwaitDependee(t) ==
  /\ pc[t] = "await" /\ rest[t] # <<>>
  /\ sem[Head(rest[t])] > 0
  /\ sem' = [sem EXCEPT ![Head(rest[t])] = @ - 1]
  /\ Goto(t, "check")
  /\ UNCHANGED <<listVars, status, refcnt, depends, waitcnt, rest, held, lockVars>>

(* An aborted dependee aborts the dependent; else on to the next node. *)
CheckDependee(t) ==
  /\ pc[t] = "check"
  /\ IF status[Head(rest[t])] = "aborted"
     THEN /\ status' = [status EXCEPT ![t] = "aborted"]
          /\ Goto(t, "notify")
          /\ UNCHANGED rest
     ELSE /\ rest' = [rest EXCEPT ![t] = Tail(@)]
          /\ Goto(t, "await")
          /\ UNCHANGED status
  /\ UNCHANGED <<listVars, refcnt, depends, waitcnt, sem, held, lockVars>>

(* Variants of SetCommitted: the loop is left at once; waiters are notified  *)
(* although the status has not been stored.                                 *)
SetCommittedEarly(t) ==
  /\ pc[t] = "await"
  /\ status' = [status EXCEPT ![t] = "committed"]
  /\ Goto(t, "notify")
  /\ UNCHANGED <<listVars, refcnt, depends, waitcnt, sem, rest, held, lockVars>>

SetCommittedNoStatus(t) ==
  /\ pc[t] = "await" /\ rest[t] = <<>>
  /\ Goto(t, "notify")
  /\ UNCHANGED <<listVars, status, refcnt, depends, waitcnt, sem, rest, held, lockVars>>

(* All dependees are through: the transaction commits. *)
SetCommitted(t) ==
  /\ pc[t] = "await" /\ rest[t] = <<>>
  /\ status' = [status EXCEPT ![t] = "committed"]
  /\ Goto(t, "notify")
  /\ UNCHANGED <<listVars, refcnt, depends, waitcnt, sem, rest, held, lockVars>>

(* Variants of NotifyWaiter: the loop tests waitcnt after its body; one V    *)
(* answers for all waiters.                                                 *)
NotifyWaiterDoWhile(t) ==
  /\ pc[t] = "notify"
  /\ sem' = [sem EXCEPT ![t] = @ + 1]
  /\ waitcnt' = [waitcnt EXCEPT ![t] = @ - 1]
  /\ UNCHANGED <<listVars, pc, status, refcnt, depends, rest, held, lockVars>>

NotifyWaiterOnce(t) ==
  /\ pc[t] = "notify" /\ waitcnt[t] # 0
  /\ sem' = [sem EXCEPT ![t] = @ + 1]
  /\ waitcnt' = [waitcnt EXCEPT ![t] = 0]
  /\ UNCHANGED <<listVars, pc, status, refcnt, depends, rest, held, lockVars>>

(* One round of notify_waiters; waitcnt is read before the mutex is taken,  *)
(* but only this thread ever lowers it.                                     *)
NotifyWaiter(t) ==
  /\ pc[t] = "notify" /\ waitcnt[t] # 0
  /\ sem' = [sem EXCEPT ![t] = @ + 1]
  /\ waitcnt' = [waitcnt EXCEPT ![t] = @ - 1]
  /\ UNCHANGED <<listVars, pc, status, refcnt, depends, rest, held, lockVars>>

(* Variants of FinishCommit: the service loop goes on after COMMIT; it goes  *)
(* on with the same transaction made pending again.                         *)
FinishCommitNoBreak(t) ==
  /\ pc[t] = "notify" /\ waitcnt[t] = 0
  /\ refcnt' = [refcnt EXCEPT ![t] = @ - 1]
  /\ Goto(t, "serve")
  /\ UNCHANGED <<listVars, status, depends, waitcnt, sem, rest, held, lockVars>>

FinishCommitReuse(t) ==
  /\ pc[t] = "notify" /\ waitcnt[t] = 0
  /\ status' = [status EXCEPT ![t] = "pending"]
  /\ Goto(t, "serve")
  /\ UNCHANGED <<listVars, refcnt, depends, waitcnt, sem, rest, held, lockVars>>

(* The loop has seen waitcnt 0: drop the reference, reply, end the thread. *)
FinishCommit(t) ==
  /\ pc[t] = "notify" /\ waitcnt[t] = 0
  /\ refcnt' = [refcnt EXCEPT ![t] = @ - 1]
  /\ Goto(t, "done")
  /\ UNCHANGED <<listVars, status, depends, waitcnt, sem, rest, held, lockVars>>

(* The connection ends before COMMIT: the thread ends, the transaction stays. *)
Disconnect(t) ==
  /\ t \in Created /\ pc[t] = "serve"
  /\ Goto(t, "gone")
  /\ UNCHANGED <<listVars, status, refcnt, depends, waitcnt, sem, rest, held, lockVars>>

----------------------------------------------------------------------------
StoreStep(t) == \/ \E d \in Trans : PassVersion(t, d) \/ AddDependee(t, d)
                \/ CountWaiter(t) \/ StoreConflict(t) \/ StoreVersion(t)

CommitStep(t) == \/ AwaitDependee(t) \/ CheckDependee(t) \/ SetCommitted(t)
                 \/ NotifyWaiter(t) \/ FinishCommit(t)

Step(t) == Create(t) \/ Insert(t) \/ StoreStep(t) \/ CommitStep(t)

Next == \E t \in Trans : Step(t) \/ StoreEnter(t) \/ StartCommit(t) \/ Disconnect(t)

(* Every thread runs on whenever it can; what the client sends next, and    *)
(* whether it sends anything, is not assumed.                               *)
Fairness == \A t \in Trans : WF_vars(Step(t))

Spec == Init /\ [][Next]_vars /\ Fairness

----------------------------------------------------------------------------
(* Type correctness of every field and local variable. *)
TypeOK ==
  /\ ListTypeOK
  /\ pc \in [Trans -> PC]
  /\ status \in [Trans -> Status \cup {"unborn"}]
  /\ refcnt \in [Trans -> Int]
  /\ depends \in [Trans -> Seq(Trans)]
  /\ waitcnt \in [Trans -> Nat]
  /\ sem \in [Trans -> Nat]
  /\ mapLock \in Trans \cup {NoThread}
  /\ walk \in [Trans -> SUBSET Trans]
  /\ dtp \in [Trans -> Trans]
  /\ rest \in [Trans -> Seq(Trans)]
  /\ held \in [Trans -> Nat]
  /\ ops \in [Trans -> 0..MaxOps]

Dependees(t) == {depends[t][i] : i \in 1..Len(depends[t])}

(* transaction.h: the steps below make decisions of CommitRule, atomically.  *)
Rule == INSTANCE CommitRule WITH deps <- [t \in Trans |-> Dependees(t)]

(* The manager implements CommitRule: however P, the status checks and       *)
(* notify_waiters of the threads interleave, a transaction commits only when *)
(* all dependees its list holds have committed.                              *)
ImplementsRule == Rule!RuleSpec

(* t is in trans_commit, about to do or blocked in P on the semaphore of d. *)
Waiting(t, d) == pc[t] = "await" /\ rest[t] # <<>> /\ Head(rest[t]) = d

(* A semaphore holds a token only after its transaction has got its final    *)
(* status: a dependent that comes out of P never reads "pending" (line 186). *)
TokenMeansFinal == \A d \in Trans : sem[d] > 0 => status[d] \in Final

(* A committed transaction has only committed transactions in its dependency *)
(* list: trans_commit does not overtake the dependees the list still holds.  *)
CommitOrder ==
  \A t \in Trans : status[t] = "committed" =>
    \A d \in Dependees(t) : status[d] = "committed"

(* t is counted in waitcnt of d, or has its token, and has still to take it. *)
Owed(d) == {t \in Trans : /\ d \in Dependees(t)
                           /\ ~(pc[t] = "count" /\ dtp[t] = d)
                           /\ \/ pc[t] \in {"serve", "walk", "count"}
                              \/ Waiting(t, d)}

(* No dependent ever takes the token of another: the tokens posted and the   *)
(* waiters notify_waiters has still to post for are enough for everyone who  *)
(* was counted and has not yet come out of P.                                *)
EnoughTokens == \A d \in Trans : Cardinality(Owed(d)) <= sem[d] + waitcnt[d]

(* No set of transactions all of whose members wait for another member: the  *)
(* dependencies follow the ids, so commits cannot deadlock on each other,    *)
(* even though ids are not unique.                                           *)
NoCommitCycle ==
  \A S \in SUBSET Trans : S # {} =>
    \E t \in S : \A d \in S : ~Waiting(t, d)

Pointers(t) == (IF pc[t] = "done" \/ status[t] = "unborn" THEN 0 ELSE 1) + held[t]
               + Cardinality({u \in Trans : t \in Dependees(u)})

(* The reference count covers every pointer to the transaction: its thread,  *)
(* the versions it created and the dependency lists it is in, so that it     *)
(* reaches 0 only when nothing refers to the transaction any more.           *)
PointersCounted == \A t \in Trans : Pointers(t) <= refcnt[t]

(* The store works for pending transactions only, so the trans_abort of a    *)
(* conflict never meets a committed one and never ends the server (exit).    *)
OnlyPendingOperate ==
  \A t \in Trans : pc[t] \in {"walk", "count"} => status[t] = "pending"

(* trans_get_status: "if the value returned is either TRANS_COMMITTED or     *)
(* TRANS_ABORTED, then that value is the stable final status".               *)
FinalStatusStable ==
  [][\A t \in Trans : status[t] \in Final => status'[t] = status[t]]_vars

(* A thread counts itself as a waiter of d after d has decided (the status   *)
(* was read before), or did so after notify_waiters of d had ended.          *)
CountedLate(d) == \/ \E u \in Trans : pc[u] = "count" /\ dtp[u] = d /\ status[d] \in Final
                  \/ pc[d] = "done" /\ waitcnt[d] > 0

(* The wait of trans_commit ends once the dependee has decided, unless some  *)
(* transaction was counted late: nothing but the unlocked status check of    *)
(* trans_add_dependency can strand a dependent.                              *)
StrandedOnlyByLateCount ==
  \A t, d \in Trans :
    (Waiting(t, d) /\ status[d] \in Final) ~> (~Waiting(t, d) \/ CountedLate(d))

----------------------------------------------------------------------------
(* trans_commit: "requires waiting for all transactions in its dependency    *)
(* set to either commit or abort": the wait ends once the dependee is final. *)
CommitWaitsOnlyForPending ==
  \A t, d \in Trans : (Waiting(t, d) /\ status[d] \in Final) ~> ~Waiting(t, d)

(* trans_abort: "If the transaction is pending, then it is set to the        *)
(* aborted state".                                                           *)
AbortAborts ==
  [][\A t \in Trans : StoreConflict(t) => status'[t] = "aborted"]_vars
=============================================================================
