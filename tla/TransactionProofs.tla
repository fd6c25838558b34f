-------------------------- MODULE TransactionProofs --------------------------
(***************************************************************************)
(* Proofs about the list that trans_create builds without a lock, about the *)
(* transaction manager, and about the commit protocol as a whole: it       *)
(* implements CommitRule, and no commits wait for each other in a circle.  *)
(* They hold for any number of transactions and of operations.             *)
(***************************************************************************)
EXTENDS Transaction, FiniteSetTheorems, WellFoundedInduction, TLAPS

----------------------------------------------------------------------------
(* The list of transactions *)

Linked == {t \in Trans : cpc[t] \in {"linked", "created"}}

(* What makes the walks safe: a node is pointed at only after line 86 of    *)
(* its creation, so its own fields are written and its creator has read     *)
(* everything it will read; only a node past line 87 can be found as tail.  *)
ListInv ==
  /\ ListTypeOK
  /\ \A t \in Trans : cpc[t] # "start" => id[t] > 0
  /\ \A t \in Trans : cpc[t] \in {"prepared", "located"} => next[t] = List
  /\ \A t \in Trans : cpc[t] \notin {"start", "numbered"} => next[t] # Null
  /\ \A n \in Node : next[n] \in Trans => next[n] \in Linked
  /\ prev[List] \in Trans => cpc[prev[List]] = "created"
  /\ \A t \in Trans : cpc[t] = "located" =>
       tail[t] # Null /\ (tail[t] \in Trans => cpc[tail[t]] = "created")
  /\ \A t \in Trans : cursor[t] \in Trans => cursor[t] \in Linked

LEMMA ListInvInit == ListInit => ListInv
  BY ListAssumption DEF ListInit, ListInv, ListTypeOK, CreatePC, Node, Linked

LEMMA ListInvNext == ListInv /\ [ListNext]_listVars => ListInv'
<1> USE ListAssumption
<1> SUFFICES ASSUME ListInv, [ListNext]_listVars PROVE ListInv'
  OBVIOUS
<1> USE DEF ListInv, ListTypeOK, CreatePC, Node, Linked
<1>1. CASE UNCHANGED listVars
  BY <1>1 DEF listVars
<1>2. ASSUME NEW t \in Trans, ReadFirstId(t) PROVE ListInv'
  BY <1>2 DEF ReadFirstId
<1>3. ASSUME NEW t \in Trans, PrepareNode(t) PROVE ListInv'
  BY <1>3 DEF PrepareNode
<1>4. ASSUME NEW t \in Trans, ReadTail(t) PROVE ListInv'
  BY <1>4 DEF ReadTail
<1>5. ASSUME NEW t \in Trans, LinkNode(t) PROVE ListInv'
  BY <1>5 DEF LinkNode
<1>6. ASSUME NEW t \in Trans, SetTail(t) PROVE ListInv'
  BY <1>6 DEF SetTail
<1>7. ASSUME NEW t \in Trans, ShowStart(t) PROVE ListInv'
  BY <1>7 DEF ShowStart
<1>8. ASSUME NEW t \in Trans, ShowStep(t) PROVE ListInv'
  BY <1>8 DEF ShowStep
<1> QED
  BY <1>1, <1>2, <1>3, <1>4, <1>5, <1>6, <1>7, <1>8 DEF ListNext, Link

(* Type correctness of the list: no thread ever dereferences a pointer that  *)
(* trans_create has not written yet.                                        *)
THEOREM ListTypeCorrect == ListSpec => []ListTypeOK
<1>1. ListInv => ListTypeOK
  BY DEF ListInv
<1> QED
  BY ListInvInit, ListInvNext, <1>1, PTL DEF ListSpec

(* Whatever trans_show_all and trans_fini can reach is initialised. *)
THEOREM ReachableInitialised == ListSpec => []ReachableIsInitialised
<1>1. ListInv => ReachableIsInitialised
  BY ListAssumption DEF ListInv, ListTypeOK, ReachableIsInitialised, Linked, CreatePC, Node
<1> QED
  BY ListInvInit, ListInvNext, <1>1, PTL DEF ListSpec

(* Linking a node whose next pointer is the sentinel closes no cycle. *)
LEMMA NoCycleNext == ListInv /\ NoCycle /\ [ListNext]_listVars => NoCycle'
<1> USE ListAssumption
<1> SUFFICES ASSUME ListInv, NoCycle, [ListNext]_listVars,
                    NEW S \in SUBSET Trans, S # {}
             PROVE  \E u \in S : next'[u] \notin S
  BY DEF NoCycle
<1> USE DEF ListInv, ListTypeOK, Node
<1>a. PICK u \in S : next[u] \notin S
  BY DEF NoCycle
<1>1. CASE UNCHANGED next
  BY <1>1, <1>a
<1>2. ASSUME NEW t \in Trans, PrepareNode(t) PROVE \E v \in S : next'[v] \notin S
  <2>1. next' = [next EXCEPT ![t] = List]
    BY <1>2 DEF PrepareNode
  <2>2. CASE u = t
    BY <2>1, <2>2
  <2>3. CASE u # t
    BY <2>1, <2>3, <1>a
  <2> QED BY <2>2, <2>3
<1>3. ASSUME NEW t \in Trans, LinkNode(t) PROVE \E v \in S : next'[v] \notin S
  <2>1. next' = [next EXCEPT ![tail[t]] = t] /\ next[t] = List
        /\ tail[t] \in Node /\ tail[t] # t
    BY <1>3 DEF LinkNode
  <2>2. CASE t \in S
    BY <2>1, <2>2
  <2>3. CASE t \notin S
    BY <2>1, <2>3, <1>a
  <2> QED BY <2>2, <2>3
<1> QED
  BY <1>1, <1>2, <1>3 DEF ListNext, listVars, Link, ReadFirstId, ReadTail, SetTail,
                          ShowStart, ShowStep

(* The unlocked insertions never close a cycle the walks could be caught in. *)
THEOREM NoCycleInvariant == ListSpec => []NoCycle
<1>1. ListInit => NoCycle
  BY ListAssumption DEF ListInit, NoCycle, Node
<1> QED
  BY ListInvInit, ListInvNext, NoCycleNext, <1>1, PTL DEF ListSpec

----------------------------------------------------------------------------
Started == {t \in Trans : cpc[t] # "start"}

(* No id exceeds the number of transactions whose creation has begun, and    *)
(* the sentinel keeps the id 0 of a zeroed global.                          *)
StartedBound == /\ id[List] = 0
                /\ \A t \in Started : id[t] <= Cardinality(Started)

LEMMA StartedFinite == IsFiniteSet(Started) /\ Cardinality(Started) \in Nat
                       /\ Cardinality(Started) <= Cardinality(Trans)
  BY ListAssumption, FS_Subset, FS_CardinalityType DEF Started

LEMMA StartedBoundNext ==
  ListInv /\ StartedBound /\ [ListNext]_listVars => StartedBound'
<1> USE ListAssumption
<1> SUFFICES ASSUME ListInv, StartedBound, [ListNext]_listVars
             PROVE  StartedBound'
  OBVIOUS
<1> USE DEF ListInv, ListTypeOK, Node
<1>1. CASE UNCHANGED id /\ Started' = Started
  BY <1>1 DEF StartedBound
<1>2. ASSUME NEW t \in Trans, ReadFirstId(t) PROVE StartedBound'
  <2>1. id' = [id EXCEPT ![t] = id[next[List]] + 1] /\ Started' = Started \cup {t}
        /\ t \notin Started
    BY <1>2 DEF ReadFirstId, Started
  <2>2. Cardinality(Started') = Cardinality(Started) + 1
    BY <2>1, StartedFinite, FS_AddElement
  <2>3. id[next[List]] <= Cardinality(Started)
    <3>1. CASE next[List] = List
      BY <3>1, StartedFinite DEF StartedBound
    <3>2. CASE next[List] \in Trans
      BY <3>2 DEF StartedBound, Started, Linked
    <3> QED BY <3>1, <3>2
  <2>4. ASSUME NEW u \in Started' PROVE id'[u] <= Cardinality(Started')
    <3>1. CASE u = t
      BY <3>1, <2>1, <2>2, <2>3, StartedFinite
    <3>2. CASE u # t
      BY <3>2, <2>1, <2>2, StartedFinite DEF StartedBound, Started
    <3> QED BY <3>1, <3>2
  <2> QED
    BY <2>1, <2>4 DEF StartedBound
<1>3. ASSUME NEW t \in Trans, Link(t) \/ ShowStart(t) \/ ShowStep(t)
      PROVE  UNCHANGED id /\ Started' = Started
  BY <1>3 DEF Link, PrepareNode, ReadTail, LinkNode, SetTail, ShowStart, ShowStep, Started, CreatePC
<1>4. CASE UNCHANGED listVars
  BY <1>4, <1>1 DEF listVars, Started
<1> QED
  BY <1>1, <1>2, <1>3, <1>4 DEF ListNext

(* Ids stay within the number of transactions, so none ever wraps around. *)
THEOREM IdsBounded == ListSpec => []IdBounded
<1>1. ListInit => StartedBound
  BY DEF ListInit, StartedBound, Started, Node
<1>2. ListInv /\ StartedBound => IdBounded
  BY StartedFinite, ListAssumption, FS_CardinalityType
     DEF ListInv, ListTypeOK, Node, StartedBound, Started, IdBounded
<1> QED
  BY ListInvInit, ListInvNext, StartedBoundNext, <1>1, <1>2, PTL DEF ListSpec

----------------------------------------------------------------------------
(* The transaction manager *)

(* The fields and locals of Transaction have their types. *)
FieldsOK ==
  /\ pc \in [Trans -> PC]
  /\ status \in [Trans -> Status \cup {"unborn"}]
  /\ refcnt \in [Trans -> Int]
  /\ depends \in [Trans -> Seq(Trans)]
  /\ waitcnt \in [Trans -> Nat]
  /\ sem \in [Trans -> Nat]
  /\ mapLock \in Trans \cup {NoThread}
  /\ walk \in [Trans -> SUBSET Trans]
  /\ dtp \in [Trans -> Trans]
  /\ rest \in [Trans -> Seq(Trans)]
  /\ held \in [Trans -> Nat]
  /\ ops \in [Trans -> 0..MaxOps]

(* A transaction is pending from its creation until its thread reaches       *)
(* notify_waiters, and final from there on.                                 *)
Phase ==
  \A t \in Trans :
    /\ status[t] = "unborn" <=> cpc[t] = "start"
    /\ status[t] \in Final <=> pc[t] \in {"notify", "done"}
    /\ pc[t] # "serve" => cpc[t] = "created"

(* trans_commit of t between its test of the loop and the store of status:   *)
(* the nodes it has passed belong to committed dependees, and after P the    *)
(* dependee has decided.                                                    *)
Progressing ==
  \A t \in Trans :
    /\ pc[t] \in {"await", "check"} =>
         \A d \in Dependees(t) : status[d] = "committed"
                                 \/ \E j \in 1..Len(rest[t]) : rest[t][j] = d
    /\ pc[t] = "check" => rest[t] # <<>> /\ status[Head(rest[t])] \in Final

TransInv == ListInv /\ FieldsOK /\ Phase /\ TokenMeansFinal /\ Progressing /\ CommitOrder

LEMMA TransInvInit == Init => TransInv
  BY ListInvInit, TransAssumption
     DEF Init, TransInv, FieldsOK, Phase, TokenMeansFinal, Progressing, CommitOrder,
         PC, Status, Final, ListInit

(* Every step is a step of the list module or leaves the list alone. *)
LEMMA ListStep == [Next]_vars => [ListNext]_listVars
<1> SUFFICES ASSUME [Next]_vars PROVE [ListNext]_listVars
  OBVIOUS
<1>1. CASE UNCHANGED vars
  BY <1>1 DEF vars
<1>2. ASSUME NEW t \in Trans, Create(t) \/ Insert(t) PROVE ListNext
  BY <1>2 DEF Create, Insert, ListNext
<1>3. ASSUME NEW t \in Trans,
             StoreStep(t) \/ CommitStep(t) \/ StoreEnter(t) \/ StartCommit(t) \/ Disconnect(t)
      PROVE  UNCHANGED listVars
  BY <1>3 DEF StoreStep, CommitStep, StoreEnter, StartCommit, Disconnect, PassVersion,
     AddDependee, CountWaiter, StoreConflict, StoreVersion, AwaitDependee, CheckDependee,
     SetCommitted, NotifyWaiter, FinishCommit
<1> QED
  BY <1>1, <1>2, <1>3 DEF Next, Step

LEMMA WithDependeeType ==
  ASSUME NEW list \in Seq(Trans), NEW d \in Trans
  PROVE  /\ WithDependee(list, d) \in Seq(Trans)
         /\ \A i \in 1..Len(WithDependee(list, d)) :
              WithDependee(list, d)[i] = d \/ \E j \in 1..Len(list) : list[j] = WithDependee(list, d)[i]
  BY DEF WithDependee, doesNotExist

LEMMA GotoType ==
  ASSUME pc \in [Trans -> PC], NEW t \in Trans, NEW where \in PC, Goto(t, where)
  PROVE  pc' \in [Trans -> PC]
  BY DEF Goto

LEMMA FieldsOKNext == FieldsOK /\ Progressing /\ [Next]_vars => FieldsOK'
<1> SUFFICES ASSUME FieldsOK, Progressing, [Next]_vars PROVE FieldsOK'
  OBVIOUS
<1>a. held \in [Trans -> Nat] /\ refcnt \in [Trans -> Int] /\ sem \in [Trans -> Nat]
  BY DEF FieldsOK
<1>p. \A where \in {"serve", "walk", "count", "await", "check", "notify", "done", "gone"} :
        where \in PC
  BY DEF PC
<1>s. "pending" \in Status /\ "committed" \in Status /\ "aborted" \in Status
  BY DEF Status
<1> USE DEF FieldsOK, lockVars, transVars
<1>1. CASE UNCHANGED vars
  BY <1>1 DEF vars
<1>2. ASSUME NEW t \in Trans, Create(t) PROVE FieldsOK'
  <2>1. status' \in [Trans -> Status \cup {"unborn"}] /\ refcnt' \in [Trans -> Int]
    BY <1>2, <1>s DEF Create
  <2> QED
    BY <1>2, <2>1 DEF Create
<1>3. ASSUME NEW t \in Trans, Insert(t) PROVE FieldsOK'
  BY <1>3 DEF Insert
<1>4. ASSUME NEW t \in Trans, StoreEnter(t) PROVE FieldsOK'
  BY <1>4, GotoType, <1>p, TransAssumption DEF StoreEnter, Created
<1>5. ASSUME NEW t \in Trans, NEW d \in Trans, PassVersion(t, d) PROVE FieldsOK'
  <2>1. walk' \in [Trans -> SUBSET Trans]
    BY <1>5 DEF PassVersion
  <2>2. refcnt' \in [Trans -> Int] /\ held' \in [Trans -> Nat]
    <3>1. CASE UNCHANGED <<refcnt, held>>
      BY <3>1
    <3>2. ASSUME NEW e \in Trans, held[e] > 0, held' = [held EXCEPT ![e] = @ - 1],
                 refcnt' = [refcnt EXCEPT ![e] = @ - 1]
          PROVE  refcnt' \in [Trans -> Int] /\ held' \in [Trans -> Nat]
      <4>1. held[e] - 1 \in Nat /\ refcnt[e] - 1 \in Int
        <5> HIDE DEF FieldsOK
        <5> QED BY <3>2, <1>a
      <4> QED
        BY <3>2, <4>1
    <3> QED
      BY <1>5, <3>1, <3>2 DEF PassVersion, Created
  <2> QED
    BY <1>5, <2>1, <2>2 DEF PassVersion
<1>6. ASSUME NEW t \in Trans, NEW d \in Trans, AddDependee(t, d) PROVE FieldsOK'
  <2>1. WithDependee(depends[t], d) \in Seq(Trans)
    BY WithDependeeType
  <2>2. depends' \in [Trans -> Seq(Trans)] /\ refcnt' \in [Trans -> Int]
        /\ dtp' \in [Trans -> Trans]
    BY <1>6, <2>1 DEF AddDependee
  <2>3. walk' \in [Trans -> SUBSET Trans]
    BY <1>6 DEF AddDependee
  <2> QED
    BY <1>6, <2>2, <2>3, GotoType, <1>p DEF AddDependee
<1>7. ASSUME NEW t \in Trans, CountWaiter(t) PROVE FieldsOK'
  <2>1. waitcnt' \in [Trans -> Nat]
    BY <1>7 DEF CountWaiter
  <2> QED
    BY <1>7, <2>1, GotoType, <1>p DEF CountWaiter
<1>8. ASSUME NEW t \in Trans, StoreConflict(t) PROVE FieldsOK'
  <2>1. refcnt' \in [Trans -> Int]
    BY <1>8 DEF StoreConflict, AbortConsumes
  <2>2. status' = status
    BY <1>8 DEF StoreConflict, AbortStatus
  <2> QED
    BY <1>8, <2>1, <2>2, GotoType, <1>p, TransAssumption DEF StoreConflict
<1>9. ASSUME NEW t \in Trans, StoreVersion(t) PROVE FieldsOK'
  <2>1. refcnt' \in [Trans -> Int] /\ held' \in [Trans -> Nat]
    <3>1. CASE UNCHANGED <<refcnt, held>>
      BY <3>1
    <3>2. CASE held' = [held EXCEPT ![t] = @ + 1] /\ refcnt' = [refcnt EXCEPT ![t] = @ + 1]
      <4>1. held[t] + 1 \in Nat /\ refcnt[t] + 1 \in Int
        OBVIOUS
      <4> QED
        BY <3>2, <4>1
    <3> QED
      BY <1>9, <3>1, <3>2 DEF StoreVersion
  <2> QED
    BY <1>9, <2>1, GotoType, <1>p, TransAssumption DEF StoreVersion
<1>10. ASSUME NEW t \in Trans, StartCommit(t) PROVE FieldsOK'
  BY <1>10, GotoType, <1>p DEF StartCommit
<1>11. ASSUME NEW t \in Trans, AwaitDependee(t) PROVE FieldsOK'
  <2>1. Head(rest[t]) \in Trans
    BY <1>11 DEF AwaitDependee
  <2>2. sem' \in [Trans -> Nat]
    <3>1. sem[Head(rest[t])] - 1 \in Nat
      <4> HIDE DEF FieldsOK
      <4> QED BY <1>11, <2>1, <1>a DEF AwaitDependee
    <3> QED
      BY <1>11, <2>1, <3>1 DEF AwaitDependee
  <2> QED
    BY <1>11, <2>2, GotoType, <1>p DEF AwaitDependee
<1>12. ASSUME NEW t \in Trans, CheckDependee(t) PROVE FieldsOK'
  <2>1. Tail(rest[t]) \in Seq(Trans)
    BY <1>12 DEF CheckDependee, Progressing
  <2>2. CASE status[Head(rest[t])] = "aborted"
    BY <1>12, <2>2, GotoType, <1>p, <1>s DEF CheckDependee
  <2>3. CASE status[Head(rest[t])] # "aborted"
    <3>1. rest' \in [Trans -> Seq(Trans)]
      BY <1>12, <2>1, <2>3 DEF CheckDependee
    <3> QED
      BY <1>12, <2>3, <3>1, GotoType, <1>p DEF CheckDependee
  <2> QED
    BY <2>2, <2>3
<1>13. ASSUME NEW t \in Trans, SetCommitted(t) PROVE FieldsOK'
  BY <1>13, GotoType, <1>p, <1>s DEF SetCommitted
<1>14. ASSUME NEW t \in Trans, NotifyWaiter(t) PROVE FieldsOK'
  <2>1. sem' \in [Trans -> Nat] /\ waitcnt' \in [Trans -> Nat]
    BY <1>14 DEF NotifyWaiter
  <2> QED
    BY <1>14, <2>1 DEF NotifyWaiter
<1>15. ASSUME NEW t \in Trans, FinishCommit(t) PROVE FieldsOK'
  <2>1. refcnt' \in [Trans -> Int]
    BY <1>15 DEF FinishCommit
  <2> QED
    BY <1>15, <2>1, GotoType, <1>p DEF FinishCommit
<1>16. ASSUME NEW t \in Trans, Disconnect(t) PROVE FieldsOK'
  BY <1>16, GotoType, <1>p DEF Disconnect
<1> QED
  BY <1>1, <1>2, <1>3, <1>4, <1>5, <1>6, <1>7, <1>8, <1>9, <1>10, <1>11, <1>12, <1>13,
     <1>14, <1>15, <1>16 DEF Next, Step, StoreStep, CommitStep

----------------------------------------------------------------------------
(* The phases are kept, and a final status never changes again. *)
LEMMA PhaseNext ==
  ListInv /\ FieldsOK /\ Phase /\ Progressing /\ [Next]_vars
    => /\ Phase'
       /\ \A u \in Trans : status[u] \in Final => status'[u] = status[u]
<1> SUFFICES ASSUME ListInv, FieldsOK, Phase, Progressing, [Next]_vars
             PROVE  /\ Phase'
                    /\ \A u \in Trans : status[u] \in Final => status'[u] = status[u]
  OBVIOUS
<1>a. /\ pc \in [Trans -> PC] /\ status \in [Trans -> Status \cup {"unborn"}]
      /\ cpc \in [Trans -> CreatePC]
  BY DEF FieldsOK, ListInv, ListTypeOK
<1> DEFINE Goal == /\ Phase'
                   /\ \A u \in Trans : status[u] \in Final => status'[u] = status[u]
<1> USE <1>a DEF Phase, Final, Status, Goto, lockVars, transVars
<1>1. CASE UNCHANGED <<pc, status, cpc>>
  BY <1>1
<1>2. ASSUME NEW t \in Trans, Create(t) PROVE Goal
  BY <1>2 DEF Create, ReadFirstId
<1>3. ASSUME NEW t \in Trans, Insert(t) PROVE Goal
  BY <1>3 DEF Insert, Link, PrepareNode, ReadTail, LinkNode, SetTail
<1>4. ASSUME NEW t \in Trans, StoreEnter(t) PROVE Goal
  BY <1>4 DEF StoreEnter, Created, listVars
<1>5. ASSUME NEW t \in Trans, NEW d \in Trans, AddDependee(t, d) PROVE Goal
  BY <1>5 DEF AddDependee, Visits, listVars
<1>6. ASSUME NEW t \in Trans, CountWaiter(t) PROVE Goal
  BY <1>6 DEF CountWaiter, listVars
<1>7. ASSUME NEW t \in Trans, StoreConflict(t) PROVE Goal
  BY <1>7 DEF StoreConflict, AbortStatus, listVars
<1>8. ASSUME NEW t \in Trans, StoreVersion(t) PROVE Goal
  BY <1>8 DEF StoreVersion, listVars
<1>9. ASSUME NEW t \in Trans, StartCommit(t) PROVE Goal
  BY <1>9 DEF StartCommit, Created, listVars
<1>10. ASSUME NEW t \in Trans, AwaitDependee(t) PROVE Goal
  BY <1>10 DEF AwaitDependee, listVars
<1>11. ASSUME NEW t \in Trans, CheckDependee(t) PROVE Goal
  BY <1>11 DEF CheckDependee, listVars
<1>12. ASSUME NEW t \in Trans, SetCommitted(t) PROVE Goal
  BY <1>12 DEF SetCommitted, listVars
<1>13. ASSUME NEW t \in Trans, FinishCommit(t) PROVE Goal
  BY <1>13 DEF FinishCommit, listVars
<1>14. ASSUME NEW t \in Trans, Disconnect(t) PROVE Goal
  BY <1>14 DEF Disconnect, Created, listVars
<1>15. ASSUME NEW t \in Trans, NEW d \in Trans, PassVersion(t, d) \/ NotifyWaiter(t)
       PROVE  UNCHANGED <<pc, status, cpc>>
  BY <1>15 DEF PassVersion, NotifyWaiter, listVars
<1>16. CASE UNCHANGED vars
  BY <1>16, <1>1 DEF vars, listVars
<1> QED
  BY <1>1, <1>2, <1>3, <1>4, <1>5, <1>6, <1>7, <1>8, <1>9, <1>10, <1>11, <1>12, <1>13,
     <1>14, <1>15, <1>16 DEF Next, Step, StoreStep, CommitStep

(* Tokens are posted in notify_waiters only, whose caller has decided. *)
LEMMA TokenNext ==
  ListInv /\ FieldsOK /\ Phase /\ Progressing /\ TokenMeansFinal /\ [Next]_vars
    => TokenMeansFinal'
<1> SUFFICES ASSUME ListInv, FieldsOK, Phase, Progressing, TokenMeansFinal, [Next]_vars
             PROVE  TokenMeansFinal'
  OBVIOUS
<1>a. /\ sem \in [Trans -> Nat]
      /\ \A u \in Trans : status[u] \in Final => status'[u] = status[u]
  BY PhaseNext DEF FieldsOK
<1>1. ASSUME NEW t \in Trans, AwaitDependee(t)
      PROVE  \A d \in Trans : sem'[d] > 0 => sem[d] > 0
  <2>1. Head(rest[t]) \in Trans
    BY <1>1 DEF AwaitDependee, FieldsOK
  <2> QED
    BY <1>1, <1>a, <2>1 DEF AwaitDependee
<1>2. ASSUME NEW t \in Trans, NotifyWaiter(t) PROVE TokenMeansFinal'
  <2>1. status[t] \in Final
    BY <1>2 DEF NotifyWaiter, Phase
  <2> QED
    BY <1>2, <1>a, <2>1 DEF NotifyWaiter, TokenMeansFinal
<1>3. ASSUME NEW t \in Trans, Create(t) \/ Insert(t) \/ StoreStep(t) \/ CheckDependee(t)
             \/ SetCommitted(t) \/ FinishCommit(t) \/ StoreEnter(t) \/ StartCommit(t)
             \/ Disconnect(t)
      PROVE  sem' = sem
  BY <1>3 DEF Create, Insert, StoreStep, PassVersion, AddDependee, CountWaiter,
     StoreConflict, StoreVersion, CheckDependee, SetCommitted, FinishCommit, StoreEnter,
     StartCommit, Disconnect, transVars
<1>4. CASE UNCHANGED vars
  BY <1>4, <1>a DEF vars, transVars, TokenMeansFinal
<1> QED
  BY <1>a, <1>1, <1>2, <1>3, <1>4 DEF Next, Step, CommitStep, TokenMeansFinal

(* A step of t touches pc, rest and depends of no other transaction, and     *)
(* depends of t only while the store visits versions for it.                *)
LEMMA Locality ==
  FieldsOK /\ [Next]_vars =>
    \A u \in Trans :
      /\ pc[u] # "walk" => depends'[u] = depends[u]
      /\ pc'[u] = pc[u] => rest'[u] = rest[u]
<1> SUFFICES ASSUME FieldsOK, [Next]_vars, NEW u \in Trans
             PROVE  /\ pc[u] # "walk" => depends'[u] = depends[u]
                    /\ pc'[u] = pc[u] => rest'[u] = rest[u]
  OBVIOUS
<1>a. pc \in [Trans -> PC] /\ depends \in [Trans -> Seq(Trans)] /\ rest \in [Trans -> Seq(Trans)]
  BY DEF FieldsOK
<1>1. ASSUME NEW t \in Trans, NEW d \in Trans, AddDependee(t, d)
      PROVE  /\ pc[u] # "walk" => depends'[u] = depends[u]
             /\ rest' = rest
  BY <1>1, <1>a DEF AddDependee, Visits
<1>2. ASSUME NEW t \in Trans, StartCommit(t) \/ CheckDependee(t)
      PROVE  /\ depends' = depends
             /\ pc'[u] = pc[u] => rest'[u] = rest[u]
  BY <1>2, <1>a DEF StartCommit, CheckDependee, Goto
<1>3. ASSUME NEW t \in Trans, NEW d \in Trans,
             Create(t) \/ Insert(t) \/ PassVersion(t, d) \/ CountWaiter(t)
             \/ StoreConflict(t) \/ StoreVersion(t) \/ AwaitDependee(t) \/ SetCommitted(t)
             \/ NotifyWaiter(t) \/ FinishCommit(t) \/ StoreEnter(t) \/ Disconnect(t)
      PROVE  UNCHANGED <<depends, rest>>
  BY <1>3 DEF Create, Insert, PassVersion, CountWaiter, StoreConflict, StoreVersion,
     AwaitDependee, SetCommitted, NotifyWaiter, FinishCommit, StoreEnter, Disconnect, transVars
<1>4. CASE UNCHANGED vars
  BY <1>4 DEF vars, transVars
<1> QED
  BY <1>1, <1>2, <1>3, <1>4 DEF Next, Step, StoreStep, CommitStep

LEMMA ProgressingNext ==
  TransInv /\ [Next]_vars => Progressing'
<1> SUFFICES ASSUME TransInv, [Next]_vars PROVE Progressing'
  OBVIOUS
<1> USE DEF TransInv
<1>a. /\ pc \in [Trans -> PC] /\ depends \in [Trans -> Seq(Trans)]
      /\ rest \in [Trans -> Seq(Trans)]
  BY DEF FieldsOK
<1>f. \A u \in Trans : status[u] \in Final => status'[u] = status[u]
  BY PhaseNext
<1> DEFINE Passed(u) == \A d \in Dependees(u) : status[d] = "committed"
                                 \/ \E j \in 1..Len(rest[u]) : rest[u][j] = d
<1> DEFINE Good(u) == /\ pc[u] \in {"await", "check"} => Passed(u)
                      /\ pc[u] = "check" => rest[u] # <<>> /\ status[Head(rest[u])] \in Final
<1>k. ASSUME NEW u \in Trans, pc'[u] = pc[u] PROVE Good(u)'
  <2>1. CASE pc[u] \in {"await", "check"}
    <3>1. depends'[u] = depends[u] /\ rest'[u] = rest[u]
      BY <1>k, <2>1, Locality
    <3>2. Dependees(u)' = Dependees(u) /\ Dependees(u) \subseteq Trans
      BY <3>1, <1>a DEF Dependees
    <3>3. Passed(u) /\ (pc[u] = "check" => rest[u] # <<>> /\ status[Head(rest[u])] \in Final)
      BY <2>1 DEF Progressing
    <3>4. Passed(u)'
      BY <3>1, <3>2, <3>3, <1>f DEF Final
    <3>5. pc[u] = "check" => Head(rest[u]) \in Trans
      BY <3>3, <1>a
    <3> QED
      BY <3>1, <3>3, <3>4, <3>5, <1>f, <1>k
  <2>2. CASE pc[u] \notin {"await", "check"}
    BY <2>2, <1>k
  <2> QED BY <2>1, <2>2
<1>o. ASSUME NEW u \in Trans, pc'[u] \notin {"await", "check"} PROVE Good(u)'
  BY <1>o
<1>1. ASSUME NEW t \in Trans, StartCommit(t) PROVE Good(t)'
  <2>1. rest'[t] = depends[t] /\ depends' = depends /\ pc'[t] = "await"
    BY <1>1, <1>a DEF StartCommit, Goto
  <2>2. Passed(t)'
    BY <2>1 DEF Dependees
  <2> QED
    BY <2>1, <2>2
<1>2. ASSUME NEW t \in Trans, AwaitDependee(t) PROVE Good(t)'
  <2>1. /\ pc[t] = "await" /\ rest[t] # <<>> /\ sem[Head(rest[t])] > 0
        /\ rest' = rest /\ depends' = depends /\ status' = status /\ pc'[t] = "check"
    BY <1>2, <1>a DEF AwaitDependee, Goto
  <2>2. Head(rest[t]) \in Trans
    BY <2>1, <1>a
  <2>3. status[Head(rest[t])] \in Final
    BY <2>1, <2>2 DEF TokenMeansFinal
  <2>4. Passed(t)
    BY <2>1 DEF Progressing
  <2>5. Passed(t)'
    BY <2>1, <2>4 DEF Dependees
  <2> QED
    BY <2>1, <2>3, <2>5
<1>3. ASSUME NEW t \in Trans, CheckDependee(t), status[Head(rest[t])] # "aborted" PROVE Good(t)'
  <2>1. /\ pc[t] = "check" /\ rest'[t] = Tail(rest[t]) /\ pc'[t] = "await"
        /\ depends' = depends /\ status' = status
    BY <1>3, <1>a DEF CheckDependee, Goto
  <2>2. /\ rest[t] # <<>> /\ status[Head(rest[t])] = "committed" /\ Passed(t)
    BY <1>3, <2>1 DEF Progressing, Final
  <2>3. Dependees(t)' = Dependees(t)
    BY <2>1 DEF Dependees
  <2>4. ASSUME NEW d \in Dependees(t), status[d] # "committed"
        PROVE  \E j \in 1..Len(Tail(rest[t])) : Tail(rest[t])[j] = d
    <3>1. PICK j \in 1..Len(rest[t]) : rest[t][j] = d
      BY <2>2, <2>4
    <3>2. j # 1
      BY <3>1, <2>2, <2>4, <1>a
    <3>3. /\ j - 1 \in 1..Len(Tail(rest[t])) /\ Tail(rest[t])[j - 1] = d
      BY <3>1, <3>2, <2>2, <1>a
    <3> QED
      BY <3>3
  <2> QED
    BY <2>1, <2>3, <2>4
<1>4. ASSUME NEW t \in Trans,
             \/ StartCommit(t) \/ AwaitDependee(t) \/ CheckDependee(t) \/ SetCommitted(t)
             \/ FinishCommit(t) \/ Disconnect(t) \/ StoreEnter(t) \/ CountWaiter(t)
             \/ StoreConflict(t) \/ StoreVersion(t) \/ \E d \in Trans : AddDependee(t, d)
      PROVE  \A u \in Trans : Good(u)'
  <2>1. \A u \in Trans \ {t} : pc'[u] = pc[u]
    BY <1>4, <1>a DEF Goto, StartCommit, AwaitDependee, CheckDependee, SetCommitted,
       FinishCommit, Disconnect, StoreEnter, CountWaiter, StoreConflict, StoreVersion, AddDependee
  <2>2. \/ pc'[t] \notin {"await", "check"}
        \/ StartCommit(t) \/ AwaitDependee(t)
        \/ CheckDependee(t) /\ status[Head(rest[t])] # "aborted"
    BY <1>4, <1>a DEF Goto, CheckDependee, SetCommitted, FinishCommit, Disconnect,
       StoreEnter, CountWaiter, StoreConflict, StoreVersion, AddDependee
  <2>3. Good(t)'
    BY <2>2, <1>o, <1>1, <1>2, <1>3
  <2> HIDE DEF Good
  <2> QED
    BY <2>1, <2>3, <1>k
<1>5. ASSUME NEW t \in Trans, NEW d \in Trans,
             Create(t) \/ Insert(t) \/ PassVersion(t, d) \/ NotifyWaiter(t)
      PROVE  pc' = pc
  BY <1>5 DEF Create, Insert, PassVersion, NotifyWaiter, transVars
<1>6. CASE UNCHANGED vars
  BY <1>6, <1>k DEF vars, transVars, Progressing
<1>7. \A u \in Trans : Good(u)'
  <2> HIDE DEF Good
  <2>1. CASE pc' = pc
    BY <2>1, <1>k
  <2> QED
    BY <2>1, <1>4, <1>5, <1>6 DEF Next, Step, StoreStep, CommitStep, vars, transVars
<1> QED
  BY <1>7 DEF Progressing

(* trans_commit stores "committed" only when the loop is through.            *)
LEMMA CommitOrderNext == TransInv /\ [Next]_vars => CommitOrder'
<1> SUFFICES ASSUME TransInv, [Next]_vars,
                    NEW u \in Trans, status'[u] = "committed"
             PROVE  \A d \in Dependees(u)' : status'[d] = "committed"
  BY DEF CommitOrder
<1> USE DEF TransInv
<1>a. /\ pc \in [Trans -> PC] /\ depends \in [Trans -> Seq(Trans)]
      /\ rest \in [Trans -> Seq(Trans)] /\ status \in [Trans -> Status \cup {"unborn"}]
  BY DEF FieldsOK
<1>f. \A v \in Trans : status[v] \in Final => status'[v] = status[v]
  BY PhaseNext
<1>d. Dependees(u) \subseteq Trans
  BY <1>a DEF Dependees
<1>1. CASE status[u] = "committed"
  <2>1. depends'[u] = depends[u]
    BY <1>1, Locality DEF Phase, Final
  <2>2. Dependees(u)' = Dependees(u)
    BY <2>1 DEF Dependees
  <2> QED
    BY <1>1, <1>d, <1>f, <2>2 DEF CommitOrder, Final
<1>2. CASE status[u] # "committed"
  <2>1. SetCommitted(u)
    <3>1. ASSUME NEW t \in Trans, Create(t) \/ StoreConflict(t) \/ CheckDependee(t)
          PROVE  status'[u] # "committed"
      BY <3>1, <1>2, <1>a DEF Create, StoreConflict, AbortStatus, CheckDependee
    <3>2. ASSUME NEW t \in Trans, NEW d \in Trans,
                 Insert(t) \/ PassVersion(t, d) \/ AddDependee(t, d) \/ CountWaiter(t)
                 \/ StoreVersion(t) \/ AwaitDependee(t) \/ NotifyWaiter(t) \/ FinishCommit(t)
                 \/ StoreEnter(t) \/ StartCommit(t) \/ Disconnect(t)
          PROVE  status' = status
      BY <3>2 DEF Insert, PassVersion, AddDependee, CountWaiter, StoreVersion, AwaitDependee,
         NotifyWaiter, FinishCommit, StoreEnter, StartCommit, Disconnect, transVars
    <3>3. ASSUME NEW t \in Trans, SetCommitted(t) PROVE t = u
      BY <3>3, <1>2, <1>a DEF SetCommitted
    <3>4. CASE UNCHANGED vars
      BY <3>4, <1>2 DEF vars, transVars
    <3> QED
      BY <1>2, <3>1, <3>2, <3>3, <3>4 DEF Next, Step, StoreStep, CommitStep
  <2>2. pc[u] = "await" /\ rest[u] = <<>> /\ depends' = depends
    BY <2>1 DEF SetCommitted
  <2>3. \A d \in Dependees(u) : status[d] = "committed"
    BY <2>2 DEF Progressing
  <2>4. Dependees(u)' = Dependees(u)
    BY <2>2 DEF Dependees
  <2> QED
    BY <1>d, <1>f, <2>3, <2>4 DEF Final
<1> QED
  BY <1>1, <1>2

LEMMA TransInvNext == TransInv /\ [Next]_vars => TransInv'
  BY ListStep, ListInvNext, FieldsOKNext, PhaseNext, TokenNext, ProgressingNext, CommitOrderNext
     DEF TransInv

LEMMA TransInvariant == Spec => []TransInv
  BY TransInvInit, TransInvNext, PTL DEF Spec

(* Every field and local variable keeps its type. *)
THEOREM TypeCorrect == Spec => []TypeOK
<1>1. TransInv => TypeOK
  BY DEF TransInv, ListInv, FieldsOK, TypeOK
<1> QED
  BY TransInvariant, <1>1, PTL

(* A dependent that comes out of P reads a final status: a semaphore has     *)
(* tokens only after its transaction has decided.                           *)
THEOREM TokensMeanFinal == Spec => []TokenMeansFinal
<1>1. TransInv => TokenMeansFinal
  BY DEF TransInv
<1> QED
  BY TransInvariant, <1>1, PTL

(* No transaction commits before the dependees its list holds. *)
THEOREM CommitsInOrder == Spec => []CommitOrder
<1>1. TransInv => CommitOrder
  BY DEF TransInv
<1> QED
  BY TransInvariant, <1>1, PTL

(* The store never operates for a transaction that has decided, so the       *)
(* exit of trans_abort is not reached.                                      *)
THEOREM OnlyPendingOperates == Spec => []OnlyPendingOperate
<1>1. TransInv => OnlyPendingOperate
  BY DEF TransInv, ListInv, ListTypeOK, FieldsOK, Phase, OnlyPendingOperate, Final, Status, CreatePC
<1> QED
  BY TransInvariant, <1>1, PTL

(* A status trans_get_status has returned as final is stable. *)
THEOREM FinalStatusIsStable == Spec => FinalStatusStable
<1>1. TransInv /\ [Next]_vars =>
        [\A t \in Trans : status[t] \in Final => status'[t] = status[t]]_vars
  BY PhaseNext DEF TransInv
<1> QED
  BY TransInvariant, <1>1, PTL DEF Spec, FinalStatusStable

----------------------------------------------------------------------------
(* Counting pointers and waiters *)

Dependents(t) == {u \in Trans : t \in Dependees(u)}

(* trans_add_dependency replaces the node of a list that is not empty, so a  *)
(* list has one node at most, and trans_commit has passed all it has of them *)
(* once it has come out of P.                                               *)
OneDependee == \A t \in Trans : Len(depends[t]) <= 1 /\ Len(rest[t]) <= 1

(* The nodes trans_commit has still to pass are nodes of the list. *)
RestListed ==
  \A t \in Trans : pc[t] \in {"await", "check"} =>
    \A i \in 1..Len(rest[t]) : rest[t][i] \in Dependees(t)

(* Nothing refers to a transaction that has not been created. *)
UnbornUnknown ==
  \A t \in Trans : status[t] = "unborn" => held[t] = 0 /\ Dependents(t) = {}

CountInv == OneDependee /\ RestListed /\ UnbornUnknown /\ EnoughTokens /\ PointersCounted

(* Sets of transactions are finite, and so are their sizes. *)
LEMMA TransFinite ==
  ASSUME NEW S \in SUBSET Trans
  PROVE  IsFiniteSet(S) /\ Cardinality(S) \in Nat
  BY FS_Subset, FS_CardinalityType, ListAssumption

(* One transaction more, or less, changes the size of a set by one. *)
LEMMA TransSizes ==
  ASSUME NEW S \in SUBSET Trans, NEW R \in SUBSET Trans, NEW t
  PROVE  /\ R \subseteq S => Cardinality(R) <= Cardinality(S)
         /\ R \subseteq S \cup {t} => Cardinality(R) <= Cardinality(S) + 1
         /\ t \in S /\ R \subseteq S \ {t} => Cardinality(R) <= Cardinality(S) - 1
<1>1. /\ IsFiniteSet(S) /\ Cardinality(S) \in Nat /\ IsFiniteSet(R) /\ Cardinality(R) \in Nat
  BY TransFinite
<1>2. ASSUME R \subseteq S PROVE Cardinality(R) <= Cardinality(S)
  BY <1>1, <1>2, FS_Subset
<1>3. ASSUME R \subseteq S \cup {t} PROVE Cardinality(R) <= Cardinality(S) + 1
  <2>1. IsFiniteSet(S \cup {t}) /\ Cardinality(S \cup {t}) <= Cardinality(S) + 1
    <3>1. CASE t \in S
      <4>1. S \cup {t} = S
        BY <3>1
      <4> QED
        BY <1>1, <4>1
    <3>2. CASE t \notin S
      <4>1. IsFiniteSet(S \cup {t}) /\ Cardinality(S \cup {t}) = Cardinality(S) + 1
        BY <1>1, <3>2, FS_AddElement
      <4> QED
        BY <1>1, <4>1
    <3> QED
      BY <3>1, <3>2
  <2>2. Cardinality(R) <= Cardinality(S \cup {t}) /\ Cardinality(S \cup {t}) \in Nat
    BY <1>3, <2>1, FS_Subset, FS_CardinalityType
  <2> QED
    BY <1>1, <2>1, <2>2
<1>4. ASSUME t \in S, R \subseteq S \ {t} PROVE Cardinality(R) <= Cardinality(S) - 1
  <2>1. IsFiniteSet(S \ {t}) /\ Cardinality(S \ {t}) = Cardinality(S) - 1
    BY <1>1, <1>4, FS_RemoveElement
  <2> QED
    BY <1>4, <2>1, FS_Subset
<1> QED
  BY <1>2, <1>3, <1>4

(* No dependency, no reference and no waiter at first. *)
LEMMA CountInvInit == Init => CountInv
<1> SUFFICES ASSUME Init PROVE CountInv
  OBVIOUS
<1>1. \A t \in Trans : /\ depends[t] = <<>> /\ rest[t] = <<>> /\ pc[t] = "serve" /\ status[t] = "unborn"
                       /\ held[t] = 0 /\ refcnt[t] = 0 /\ sem[t] = 0 /\ waitcnt[t] = 0
  BY DEF Init
<1>2. \A t \in Trans : Dependees(t) = {}
  BY <1>1 DEF Dependees
<1>3. \A t \in Trans : Dependents(t) = {} /\ Owed(t) = {}
  BY <1>2 DEF Dependents, Owed
<1>4. \A t \in Trans : Cardinality({u \in Trans : t \in Dependees(u)}) = 0 /\ Cardinality(Owed(t)) = 0
  BY <1>3, FS_EmptySet DEF Dependents
<1>5. EnoughTokens
  <2> SUFFICES ASSUME NEW d \in Trans PROVE Cardinality(Owed(d)) <= sem[d] + waitcnt[d]
    BY DEF EnoughTokens
  <2>1. sem[d] = 0 /\ waitcnt[d] = 0
    BY <1>1
  <2>2. Cardinality(Owed(d)) = 0
    BY <1>4
  <2> QED
    BY <2>1, <2>2
<1>6. \A t \in Trans : Pointers(t) = 0
  BY <1>1, <1>4 DEF Pointers
<1>7. PointersCounted
  BY <1>1, <1>6 DEF PointersCounted
<1> QED
  BY <1>1, <1>3, <1>5, <1>7 DEF CountInv, OneDependee, RestListed, UnbornUnknown

(* The list of a transaction with a dependee more holds this one only. *)
LEMMA WithOneDependee ==
  ASSUME NEW list \in Seq(Trans), NEW d \in Trans, Len(list) <= 1
  PROVE  WithDependee(list, d) = <<d>>
<1>1. CASE list = <<>>
  <2>1. ~doesNotExist(d, list) /\ <<d>> \o list = <<d>>
    BY <1>1 DEF doesNotExist
  <2> QED
    BY <1>1, <2>1 DEF WithDependee
<1>2. CASE list # <<>>
  BY <1>2 DEF WithDependee
<1> QED
  BY <1>1, <1>2

(* What one step does to the dependency lists: only trans_add_dependency     *)
(* changes one, its new node is the dependee it has taken a reference of.    *)
LEMMA DependsStep ==
  ASSUME TransInv, OneDependee, [Next]_vars
  PROVE  \/ depends' = depends
         \/ \E t, d \in Trans : /\ AddDependee(t, d)
                                /\ depends'[t] = <<d>> /\ Dependees(t)' = {d}
                                /\ \A u \in Trans \ {t} : depends'[u] = depends[u] /\ Dependees(u)' = Dependees(u)
<1>a. depends \in [Trans -> Seq(Trans)]
  BY DEF TransInv, FieldsOK
<1>1. ASSUME NEW t \in Trans, NEW d \in Trans, AddDependee(t, d)
      PROVE  /\ depends'[t] = <<d>> /\ Dependees(t)' = {d}
             /\ \A u \in Trans \ {t} : depends'[u] = depends[u] /\ Dependees(u)' = Dependees(u)
  <2>1. WithDependee(depends[t], d) = <<d>>
    BY <1>a, WithOneDependee DEF OneDependee
  <2>2. depends' = [depends EXCEPT ![t] = <<d>>]
    BY <1>1, <2>1 DEF AddDependee
  <2>3. depends'[t] = <<d>> /\ \A u \in Trans \ {t} : depends'[u] = depends[u]
    BY <1>a, <2>2
  <2>4. Dependees(t)' = {d}
    BY <2>3 DEF Dependees
  <2>5. \A u \in Trans \ {t} : Dependees(u)' = Dependees(u)
    BY <2>3 DEF Dependees
  <2> QED
    BY <2>3, <2>4, <2>5
<1>2. ASSUME NEW t \in Trans, NEW d \in Trans,
             Create(t) \/ Insert(t) \/ PassVersion(t, d) \/ CountWaiter(t) \/ StoreConflict(t)
             \/ StoreVersion(t) \/ CommitStep(t) \/ StoreEnter(t) \/ StartCommit(t) \/ Disconnect(t)
      PROVE  depends' = depends
  BY <1>2 DEF Create, Insert, PassVersion, CountWaiter, StoreConflict, StoreVersion,
     CommitStep, AwaitDependee, CheckDependee, SetCommitted, NotifyWaiter, FinishCommit,
     StoreEnter, StartCommit, Disconnect, transVars
<1>3. CASE UNCHANGED vars
  BY <1>3 DEF vars, transVars
<1> QED
  BY <1>1, <1>2, <1>3 DEF Next, Step, StoreStep

(* In these sessions a transaction depends on one other at most, and who is   *)
(* still to be waited for is one it depends on.                              *)
LEMMA OneDependeeNext ==
  ASSUME TransInv, OneDependee, RestListed, [Next]_vars
  PROVE  OneDependee' /\ RestListed'
<1>a. /\ depends \in [Trans -> Seq(Trans)] /\ rest \in [Trans -> Seq(Trans)] /\ pc \in [Trans -> PC]
  BY DEF TransInv, FieldsOK
<1>1. \A u \in Trans : Len(depends'[u]) <= 1
  <2>1. CASE depends' = depends
    BY <2>1 DEF OneDependee
  <2>2. ASSUME NEW t \in Trans, NEW d \in Trans, depends'[t] = <<d>>,
               \A u \in Trans \ {t} : depends'[u] = depends[u]
        PROVE  \A u \in Trans : Len(depends'[u]) <= 1
    <3>1. Len(depends'[t]) <= 1
      BY <2>2
    <3> QED
      BY <2>2, <3>1 DEF OneDependee
  <2>3. \/ depends' = depends
        \/ \E t, d \in Trans : depends'[t] = <<d>> /\ \A u \in Trans \ {t} : depends'[u] = depends[u]
    BY DependsStep
  <2> QED
    BY <2>1, <2>2, <2>3
<1>2. ASSUME NEW t \in Trans, StartCommit(t)
      PROVE  \A u \in Trans : Len(rest'[u]) <= 1
             /\ (pc'[u] \in {"await", "check"} => \A i \in 1..Len(rest'[u]) : rest'[u][i] \in Dependees(u)')
  <2>1. depends' = depends /\ rest' = [rest EXCEPT ![t] = depends[t]] /\ \A u \in Trans \ {t} : pc'[u] = pc[u]
    BY <1>2, <1>a DEF StartCommit, Goto
  <2>2. \A u \in Trans : Dependees(u)' = Dependees(u)
    BY <2>1 DEF Dependees
  <2>3. \A i \in 1..Len(depends[t]) : depends[t][i] \in Dependees(t)
    BY DEF Dependees
  <2> QED
    BY <1>a, <2>1, <2>2, <2>3 DEF OneDependee, RestListed
<1>3. ASSUME NEW t \in Trans, CheckDependee(t)
      PROVE  \A u \in Trans : Len(rest'[u]) <= 1
             /\ (pc'[u] \in {"await", "check"} => \A i \in 1..Len(rest'[u]) : rest'[u][i] \in Dependees(u)')
  <2>1. /\ depends' = depends /\ \A u \in Trans \ {t} : pc'[u] = pc[u] /\ rest'[u] = rest[u]
        /\ pc[t] = "check" /\ rest[t] # <<>>
        /\ rest'[t] \in {rest[t], Tail(rest[t])}
    BY <1>3, <1>a DEF CheckDependee, Goto, TransInv, Progressing
  <2>2. \A u \in Trans : Dependees(u)' = Dependees(u)
    BY <2>1 DEF Dependees
  <2>3. Len(rest[t]) <= 1 /\ Tail(rest[t]) \in Seq(Trans) /\ Len(Tail(rest[t])) = Len(rest[t]) - 1
    BY <1>a, <2>1 DEF OneDependee
  <2>4. /\ rest'[t] = rest[t] => Len(rest'[t]) <= 1
        /\ rest'[t] = rest[t] => \A i \in 1..Len(rest'[t]) : rest'[t][i] \in Dependees(t)
    BY <2>1, <2>3 DEF RestListed
  <2>5. Len(Tail(rest[t])) = 0
    BY <1>a, <2>1, <2>3
  <2>6. CASE rest'[t] = rest[t]
    BY <1>a, <2>1, <2>2, <2>4, <2>6 DEF OneDependee, RestListed
  <2>7. CASE rest'[t] = Tail(rest[t])
    <3>1. Len(rest'[t]) = 0 /\ 1..0 = {}
      BY <2>5, <2>7
    <3>2. Len(rest'[t]) <= 1 /\ \A i \in 1..Len(rest'[t]) : rest'[t][i] \in Dependees(t)
      BY <3>1
    <3> QED
      BY <1>a, <2>1, <2>2, <3>2 DEF OneDependee, RestListed
  <2> QED
    BY <2>1, <2>6, <2>7
<1>4. ASSUME rest' = rest,
             \A u \in Trans : pc'[u] \in {"await", "check"} => pc[u] \in {"await", "check"} /\ depends'[u] = depends[u]
      PROVE  \A u \in Trans : Len(rest'[u]) <= 1
             /\ (pc'[u] \in {"await", "check"} => \A i \in 1..Len(rest'[u]) : rest'[u][i] \in Dependees(u)')
  BY <1>4 DEF OneDependee, RestListed, Dependees
<1>5. ASSUME NEW t \in Trans, NEW d \in Trans,
             Create(t) \/ Insert(t) \/ PassVersion(t, d) \/ AddDependee(t, d) \/ CountWaiter(t)
             \/ StoreConflict(t) \/ StoreVersion(t) \/ AwaitDependee(t) \/ SetCommitted(t)
             \/ NotifyWaiter(t) \/ FinishCommit(t) \/ StoreEnter(t) \/ Disconnect(t)
      PROVE  /\ rest' = rest
             /\ \A u \in Trans : pc'[u] \in {"await", "check"} => pc[u] \in {"await", "check"}
  BY <1>5, <1>a DEF Create, Insert, PassVersion, AddDependee, CountWaiter, StoreConflict,
     StoreVersion, AwaitDependee, SetCommitted, NotifyWaiter, FinishCommit, StoreEnter,
     Disconnect, transVars, Goto
<1>6. CASE UNCHANGED vars
  BY <1>6, <1>1, <1>4 DEF vars, transVars, OneDependee, RestListed
<1>7. \A u \in Trans : pc[u] \in {"await", "check"} => depends'[u] = depends[u]
  BY Locality DEF TransInv
<1> QED
  <2>1. \A u \in Trans : Len(rest'[u]) <= 1
             /\ (pc'[u] \in {"await", "check"} => \A i \in 1..Len(rest'[u]) : rest'[u][i] \in Dependees(u)')
    BY <1>2, <1>3, <1>4, <1>5, <1>7, <1>6 DEF Next, Step, StoreStep, CommitStep, OneDependee, RestListed
  <2> QED
    BY <1>1, <2>1 DEF OneDependee, RestListed

(* A transaction is counted when it has taken its reference, and takes its   *)
(* token when it comes out of P; nothing else makes anyone owed one.         *)
LEMMA EnoughTokensNext ==
  ASSUME TransInv, OneDependee, RestListed, EnoughTokens, [Next]_vars
  PROVE  EnoughTokens'
<1>a. /\ pc \in [Trans -> PC] /\ depends \in [Trans -> Seq(Trans)] /\ rest \in [Trans -> Seq(Trans)]
      /\ sem \in [Trans -> Nat] /\ waitcnt \in [Trans -> Nat] /\ dtp \in [Trans -> Trans]
  BY DEF TransInv, FieldsOK
<1>b. \A e \in Trans : Owed(e) \in SUBSET Trans /\ Owed(e)' \in SUBSET Trans
  BY DEF Owed
<1>c. \A e \in Trans : Cardinality(Owed(e)) \in Nat /\ Cardinality(Owed(e)') \in Nat
                       /\ sem[e] \in Nat /\ waitcnt[e] \in Nat
  BY <1>a, <1>b, TransFinite
<1>0. ASSUME sem' = sem, waitcnt' = waitcnt, \A e \in Trans : Owed(e)' \subseteq Owed(e)
      PROVE  EnoughTokens'
  <2> SUFFICES ASSUME NEW e \in Trans PROVE Cardinality(Owed(e)') <= sem[e] + waitcnt[e]
    BY <1>0 DEF EnoughTokens
  <2>1. Cardinality(Owed(e)') <= Cardinality(Owed(e))
    BY <1>0, <1>b, TransSizes
  <2>2. Cardinality(Owed(e)) <= sem[e] + waitcnt[e]
    BY DEF EnoughTokens
  <2> QED
    BY <1>c, <2>1, <2>2
<1>d. ASSUME depends' = depends
      PROVE  \A u \in Trans : Dependees(u)' = Dependees(u)
  BY <1>d DEF Dependees
<1>1. ASSUME NEW t \in Trans, NEW d \in Trans, AddDependee(t, d) PROVE EnoughTokens'
  <2>1. /\ sem' = sem /\ waitcnt' = waitcnt /\ rest' = rest
        /\ pc[t] = "walk" /\ pc'[t] = "count" /\ dtp'[t] = d
        /\ \A u \in Trans \ {t} : pc'[u] = pc[u] /\ dtp'[u] = dtp[u]
    BY <1>1, <1>a DEF AddDependee, Visits, Goto
  <2>2. Dependees(t)' = {d} /\ \A u \in Trans \ {t} : Dependees(u)' = Dependees(u)
    <3>1. WithDependee(depends[t], d) = <<d>>
      BY <1>a, WithOneDependee DEF OneDependee
    <3>2. depends'[t] = <<d>> /\ \A u \in Trans \ {t} : depends'[u] = depends[u]
      BY <1>1, <1>a, <3>1 DEF AddDependee
    <3> QED
      BY <3>2 DEF Dependees
  <2>3. \A e \in Trans : t \notin Owed(e)'
    BY <2>1, <2>2 DEF Owed
  <2>4. \A e \in Trans : \A u \in Trans \ {t} : u \in Owed(e)' => u \in Owed(e)
    BY <2>1, <2>2 DEF Owed, Waiting
  <2> QED
    BY <1>0, <1>b, <2>1, <2>3, <2>4
<1>2. ASSUME NEW t \in Trans, CountWaiter(t) PROVE EnoughTokens'
  <2> PICK d \in Trans : d = dtp[t]
    BY <1>a
  <2>1. /\ sem' = sem /\ waitcnt'[d] = waitcnt[d] + 1 /\ rest' = rest /\ depends' = depends
        /\ pc[t] = "count" /\ pc'[t] = "walk" /\ dtp' = dtp
        /\ \A u \in Trans \ {t} : pc'[u] = pc[u]
        /\ \A e \in Trans \ {d} : waitcnt'[e] = waitcnt[e]
    BY <1>2, <1>a DEF CountWaiter, Goto, lockVars
  <2>2. \A u \in Trans : Dependees(u)' = Dependees(u)
    BY <1>d, <2>1
  <2>3. \A e \in Trans : \A u \in Trans \ {t} : u \in Owed(e)' => u \in Owed(e)
    BY <2>1, <2>2 DEF Owed, Waiting
  <2>4. \A e \in Trans \ {d} : t \in Owed(e)' => t \in Owed(e)
    BY <2>1, <2>2 DEF Owed
  <2> SUFFICES ASSUME NEW e \in Trans PROVE Cardinality(Owed(e)') <= sem'[e] + waitcnt'[e]
    BY DEF EnoughTokens
  <2>5. Cardinality(Owed(e)) <= sem[e] + waitcnt[e]
    BY DEF EnoughTokens
  <2>6. CASE e = d
    <3>1. Owed(e)' \subseteq Owed(e) \cup {t}
      BY <1>b, <2>3
    <3>2. Cardinality(Owed(e)') <= Cardinality(Owed(e)) + 1
      BY <1>b, <3>1, TransSizes
    <3> QED
      BY <1>c, <2>1, <2>5, <2>6, <3>2
  <2>7. CASE e # d
    <3>1. Owed(e)' \subseteq Owed(e)
      BY <1>b, <2>3, <2>4, <2>7
    <3>2. Cardinality(Owed(e)') <= Cardinality(Owed(e))
      BY <1>b, <3>1, TransSizes
    <3> QED
      BY <1>c, <2>1, <2>5, <2>7, <3>2
  <2> QED
    BY <2>6, <2>7
<1>3. ASSUME NEW t \in Trans, AwaitDependee(t) PROVE EnoughTokens'
  <2> PICK d \in Trans : d = Head(rest[t])
    BY <1>3, <1>a DEF AwaitDependee
  <2>1. /\ sem[d] > 0 /\ sem'[d] = sem[d] - 1 /\ waitcnt' = waitcnt /\ rest' = rest /\ depends' = depends
        /\ pc[t] = "await" /\ rest[t] # <<>> /\ pc'[t] = "check" /\ dtp' = dtp
        /\ \A u \in Trans \ {t} : pc'[u] = pc[u]
        /\ \A e \in Trans \ {d} : sem'[e] = sem[e]
    BY <1>3, <1>a DEF AwaitDependee, Goto, lockVars
  <2>2. \A u \in Trans : Dependees(u)' = Dependees(u)
    BY <1>d, <2>1
  <2>3. \A e \in Trans : \A u \in Trans \ {t} : u \in Owed(e)' => u \in Owed(e)
    BY <2>1, <2>2 DEF Owed, Waiting
  <2>4. \A e \in Trans : t \notin Owed(e)'
    BY <2>1 DEF Owed, Waiting
  <2>5. t \in Owed(d)
    <3>1. rest[t][1] = d /\ 1 \in 1..Len(rest[t])
      BY <1>a, <2>1
    <3>2. d \in Dependees(t)
      BY <2>1, <3>1 DEF RestListed
    <3> QED
      BY <2>1, <3>2 DEF Owed, Waiting
  <2> SUFFICES ASSUME NEW e \in Trans PROVE Cardinality(Owed(e)') <= sem'[e] + waitcnt'[e]
    BY DEF EnoughTokens
  <2>6. Cardinality(Owed(e)) <= sem[e] + waitcnt[e]
    BY DEF EnoughTokens
  <2>7. CASE e = d
    <3>1. Owed(e)' \subseteq Owed(e) \ {t}
      BY <1>b, <2>3, <2>4
    <3>2. Cardinality(Owed(e)') <= Cardinality(Owed(e)) - 1
      BY <1>b, <2>5, <2>7, <3>1, TransSizes
    <3> QED
      BY <1>c, <2>1, <2>6, <2>7, <3>2
  <2>8. CASE e # d
    <3>1. Owed(e)' \subseteq Owed(e)
      BY <1>b, <2>3, <2>4
    <3>2. Cardinality(Owed(e)') <= Cardinality(Owed(e))
      BY <1>b, <3>1, TransSizes
    <3> QED
      BY <1>c, <2>1, <2>6, <2>8, <3>2
  <2> QED
    BY <2>7, <2>8
<1>4. ASSUME NEW t \in Trans, NotifyWaiter(t) PROVE EnoughTokens'
  <2>1. /\ sem'[t] = sem[t] + 1 /\ waitcnt'[t] = waitcnt[t] - 1
        /\ \A e \in Trans \ {t} : sem'[e] = sem[e] /\ waitcnt'[e] = waitcnt[e]
        /\ UNCHANGED <<pc, depends, rest, dtp>>
    BY <1>4, <1>a DEF NotifyWaiter, lockVars
  <2>2. \A e \in Trans : Owed(e)' = Owed(e)
    BY <1>d, <2>1 DEF Owed, Waiting
  <2> SUFFICES ASSUME NEW e \in Trans PROVE Cardinality(Owed(e)') <= sem'[e] + waitcnt'[e]
    BY DEF EnoughTokens
  <2>3. Cardinality(Owed(e)) <= sem[e] + waitcnt[e] /\ Cardinality(Owed(e)') = Cardinality(Owed(e))
    BY <2>2 DEF EnoughTokens
  <2>4. sem'[e] + waitcnt'[e] = sem[e] + waitcnt[e]
    BY <1>c, <2>1
  <2> QED
    BY <2>3, <2>4
<1>5. ASSUME NEW t \in Trans, CheckDependee(t) PROVE EnoughTokens'
  <2>0. pc[t] = "check" /\ rest[t] # <<>>
    BY <1>5 DEF CheckDependee, TransInv, Progressing
  <2>1. /\ UNCHANGED <<depends, sem, waitcnt, dtp>> /\ pc[t] = "check" /\ rest[t] # <<>>
        /\ \A u \in Trans \ {t} : pc'[u] = pc[u] /\ rest'[u] = rest[u]
        /\ pc'[t] = "notify" \/ (rest'[t] = Tail(rest[t]) /\ pc'[t] = "await")
    <3>1. UNCHANGED <<depends, sem, waitcnt, dtp>>
      BY <1>5 DEF CheckDependee, lockVars
    <3>2. CASE status[Head(rest[t])] = "aborted"
      BY <1>5, <1>a, <2>0, <3>1, <3>2 DEF CheckDependee, Goto
    <3>3. CASE status[Head(rest[t])] # "aborted"
      BY <1>5, <1>a, <2>0, <3>1, <3>3 DEF CheckDependee, Goto
    <3> QED
      BY <3>2, <3>3
  <2>2. \A u \in Trans : Dependees(u)' = Dependees(u)
    BY <1>d, <2>1
  <2>3. \A e \in Trans : \A u \in Trans \ {t} : u \in Owed(e)' => u \in Owed(e)
    BY <2>1, <2>2 DEF Owed, Waiting
  <2>4. Tail(rest[t]) = <<>>
    <3>1. Len(rest[t]) <= 1
      BY DEF OneDependee
    <3> QED
      BY <1>a, <2>1, <3>1
  <2>5. \A e \in Trans : t \notin Owed(e)'
    BY <2>1, <2>4 DEF Owed, Waiting
  <2> QED
    BY <1>0, <1>b, <2>1, <2>3, <2>5
<1>6. ASSUME NEW t \in Trans, StartCommit(t) PROVE EnoughTokens'
  <2>1. /\ UNCHANGED <<depends, sem, waitcnt, dtp>> /\ pc[t] = "serve" /\ pc'[t] = "await"
        /\ \A u \in Trans \ {t} : pc'[u] = pc[u] /\ rest'[u] = rest[u]
    BY <1>6, <1>a DEF StartCommit, Goto, lockVars
  <2>2. \A u \in Trans : Dependees(u)' = Dependees(u)
    BY <1>d, <2>1
  <2>3. \A e \in Trans : \A u \in Trans : u \in Owed(e)' => u \in Owed(e)
    BY <2>1, <2>2 DEF Owed, Waiting
  <2> QED
    BY <1>0, <1>b, <2>1, <2>3
<1>7. ASSUME NEW t \in Trans, NEW d \in Trans,
             Create(t) \/ Insert(t) \/ PassVersion(t, d) \/ StoreConflict(t) \/ StoreVersion(t)
             \/ SetCommitted(t) \/ FinishCommit(t) \/ StoreEnter(t) \/ Disconnect(t)
      PROVE  EnoughTokens'
  <2>1. /\ UNCHANGED <<depends, sem, waitcnt, dtp, rest>>
        /\ \A u \in Trans : \/ pc'[u] = pc[u]
                            \/ pc[u] \in {"serve", "walk"} /\ pc'[u] \in {"serve", "walk"}
                            \/ pc'[u] \in {"notify", "done", "gone"}
    BY <1>7, <1>a DEF Create, Insert, PassVersion, StoreConflict, StoreVersion, SetCommitted,
       FinishCommit, StoreEnter, Disconnect, Goto, transVars, lockVars, Visits
  <2>2. \A u \in Trans : Dependees(u)' = Dependees(u)
    BY <1>d, <2>1
  <2>3. \A e \in Trans : \A u \in Trans : u \in Owed(e)' => u \in Owed(e)
    BY <2>1, <2>2 DEF Owed, Waiting
  <2> QED
    BY <1>0, <1>b, <2>1, <2>3
<1>8. CASE UNCHANGED vars
  <2>1. \A e \in Trans : Owed(e)' = Owed(e)
    BY <1>8 DEF Owed, Waiting, Dependees, vars, transVars
  <2> QED
    BY <1>0, <1>8, <2>1 DEF vars, transVars
<1> QED
  BY <1>1, <1>2, <1>3, <1>4, <1>5, <1>6, <1>7, <1>8 DEF Next, Step, StoreStep, CommitStep

(* Every pointer the store or a thread takes or drops is counted. *)
LEMMA PointersCountedNext ==
  ASSUME TransInv, OneDependee, UnbornUnknown, PointersCounted, [Next]_vars
  PROVE  UnbornUnknown' /\ PointersCounted'
<1>a. /\ pc \in [Trans -> PC] /\ status \in [Trans -> Status \cup {"unborn"}]
      /\ depends \in [Trans -> Seq(Trans)] /\ refcnt \in [Trans -> Int] /\ held \in [Trans -> Nat]
  BY DEF TransInv, FieldsOK
<1> DEFINE Running(e) == IF pc[e] = "done" \/ status[e] = "unborn" THEN 0 ELSE 1
<1> DEFINE Kept(e) == /\ status'[e] = "unborn" => held'[e] = 0 /\ Dependents(e)' = {}
                      /\ Pointers(e)' <= refcnt'[e]
<1>b. \A e \in Trans : Dependents(e) \in SUBSET Trans /\ Dependents(e)' \in SUBSET Trans
  BY DEF Dependents
<1>c. ASSUME NEW e \in Trans
      PROVE  /\ Pointers(e) = Running(e) + held[e] + Cardinality(Dependents(e))
             /\ Pointers(e)' = Running(e)' + held'[e] + Cardinality(Dependents(e)')
             /\ Cardinality(Dependents(e)) \in Nat /\ Cardinality(Dependents(e)') \in Nat
             /\ Running(e) \in Nat /\ Running(e)' \in Nat /\ held[e] \in Nat /\ refcnt[e] \in Int
             /\ Pointers(e) <= refcnt[e]
             /\ status[e] = "unborn" => held[e] = 0 /\ Dependents(e) = {}
  <2>1. Cardinality(Dependents(e)) \in Nat /\ Cardinality(Dependents(e)') \in Nat
    BY <1>b, TransFinite
  <2>2. Pointers(e) = Running(e) + held[e] + Cardinality(Dependents(e))
    BY DEF Pointers, Dependents
  <2>3. Pointers(e)' = Running(e)' + held'[e] + Cardinality(Dependents(e)')
    BY DEF Pointers, Dependents
  <2>4. Pointers(e) <= refcnt[e] /\ (status[e] = "unborn" => held[e] = 0 /\ Dependents(e) = {})
    BY DEF PointersCounted, UnbornUnknown
  <2> QED
    BY <1>a, <2>1, <2>2, <2>3, <2>4
<1>d. ASSUME depends' = depends
      PROVE  \A e \in Trans : Dependents(e)' = Dependents(e)
  BY <1>d DEF Dependents, Dependees
<1>k. ASSUME NEW e \in Trans, NEW r \in Int, NEW h \in Int, NEW p \in Int,
             p + h <= r,
             refcnt'[e] = refcnt[e] + r, held'[e] = held[e] + h, Running(e)' = Running(e) + p,
             Dependents(e)' = Dependents(e),
             status'[e] = "unborn" => status[e] = "unborn" /\ h = 0
      PROVE  Kept(e)
  <2>1. status'[e] = "unborn" => held'[e] = 0 /\ Dependents(e)' = {}
    BY <1>c, <1>k
  <2>2. Cardinality(Dependents(e)') = Cardinality(Dependents(e))
    BY <1>k
  <2>3. /\ Pointers(e)' = Running(e)' + held'[e] + Cardinality(Dependents(e))
        /\ Pointers(e) = Running(e) + held[e] + Cardinality(Dependents(e))
        /\ Pointers(e) <= refcnt[e]
        /\ Cardinality(Dependents(e)) \in Nat /\ Running(e) \in Nat /\ held[e] \in Nat /\ refcnt[e] \in Int
    BY <1>c, <2>2
  <2>4. Pointers(e)' <= refcnt'[e]
    <3> HIDE DEF Running
    <3> QED
      BY <1>k, <2>3
  <2> QED
    BY <2>1, <2>4
<1>s. ASSUME NEW e \in Trans, refcnt'[e] = refcnt[e], held'[e] = held[e], Running(e)' = Running(e),
             Dependents(e)' = Dependents(e), status'[e] = "unborn" => status[e] = "unborn"
      PROVE  Kept(e)
  <2>1. refcnt'[e] = refcnt[e] + 0 /\ held'[e] = held[e] + 0 /\ Running(e)' = Running(e) + 0
    BY <1>c, <1>s
  <2> HIDE DEF Running, Kept
  <2> QED
    BY <1>k, <1>s, <2>1
<1>1. ASSUME NEW t \in Trans, Create(t), NEW e \in Trans PROVE Kept(e)
  <2>1. /\ status'[t] = "pending" /\ refcnt'[t] = 1 /\ held' = held /\ pc' = pc /\ cpc[t] = "start"
        /\ depends' = depends
        /\ \A u \in Trans \ {t} : status'[u] = status[u] /\ refcnt'[u] = refcnt[u]
    BY <1>1, <1>a DEF Create, ReadFirstId
  <2>2. Dependents(e)' = Dependents(e)
    BY <1>d, <2>1
  <2>3. CASE e = t
    <3>1. status[t] = "unborn"
      BY <2>1 DEF TransInv, Phase
    <3>2. held[t] = 0 /\ Dependents(t)' = {}
      BY <1>c, <2>2, <2>3, <3>1
    <3>3. Cardinality(Dependents(t)') = 0
      BY <3>2, FS_EmptySet
    <3>4. Running(t)' \in {0, 1} /\ Pointers(t)' = Running(t)' + 0 + 0
      BY <1>c, <2>1, <3>2, <3>3
    <3>5. Pointers(t)' <= refcnt'[t]
      BY <2>1, <3>4
    <3> QED
      BY <2>1, <2>3, <3>5
  <2>4. CASE e # t
    BY <1>s, <2>1, <2>2, <2>4
  <2> QED
    BY <2>3, <2>4
<1>2. ASSUME NEW t \in Trans, NEW d \in Trans, PassVersion(t, d), NEW e \in Trans PROVE Kept(e)
  <2>1. pc' = pc /\ status' = status /\ depends' = depends
    BY <1>2 DEF PassVersion
  <2>2. Dependents(e)' = Dependents(e) /\ Running(e)' = Running(e)
    BY <1>d, <2>1
  <2>3. \/ UNCHANGED <<refcnt, held>>
        \/ \E x \in Trans : /\ held' = [held EXCEPT ![x] = @ - 1] /\ status[x] = "committed"
                            /\ refcnt' = [refcnt EXCEPT ![x] = @ - 1]
    BY <1>2 DEF PassVersion, Created
  <2>4. \/ refcnt'[e] = refcnt[e] /\ held'[e] = held[e]
        \/ refcnt'[e] = refcnt[e] + (-1) /\ held'[e] = held[e] + (-1) /\ status[e] = "committed"
    BY <1>a, <2>3
  <2>5. CASE refcnt'[e] = refcnt[e] /\ held'[e] = held[e]
    BY <1>s, <2>1, <2>2, <2>5
  <2>6. CASE refcnt'[e] = refcnt[e] + (-1) /\ held'[e] = held[e] + (-1) /\ status[e] = "committed"
    <3>1. Running(e)' = Running(e) + 0
      BY <1>c, <2>2
    <3>2. status'[e] # "unborn"
      BY <2>1, <2>6
    <3> HIDE DEF Running, Kept
    <3> QED
      BY <1>k, <2>2, <2>6, <3>1, <3>2
  <2> QED
    BY <2>4, <2>5, <2>6
<1>3. ASSUME NEW t \in Trans, NEW d \in Trans, AddDependee(t, d), NEW e \in Trans PROVE Kept(e)
  <2>1. /\ status' = status /\ held' = held /\ pc[t] = "walk" /\ pc'[t] = "count"
        /\ refcnt'[d] = refcnt[d] + 1 /\ status[d] = "pending"
        /\ \A u \in Trans \ {t} : pc'[u] = pc[u]
        /\ \A u \in Trans \ {d} : refcnt'[u] = refcnt[u]
    BY <1>3, <1>a DEF AddDependee, Visits, Goto
  <2>2. Dependees(t)' = {d} /\ \A u \in Trans \ {t} : Dependees(u)' = Dependees(u)
    <3>1. WithDependee(depends[t], d) = <<d>>
      BY <1>a, WithOneDependee DEF OneDependee
    <3>2. depends'[t] = <<d>> /\ \A u \in Trans \ {t} : depends'[u] = depends[u]
      BY <1>3, <1>a, <3>1 DEF AddDependee
    <3> QED
      BY <3>2 DEF Dependees
  <2>3. Running(e)' = Running(e)
    BY <2>1
  <2>4. CASE e = d
    <3>1. Dependents(e)' \subseteq Dependents(e) \cup {t}
      BY <2>2, <2>4 DEF Dependents
    <3>2. Cardinality(Dependents(e)') <= Cardinality(Dependents(e)) + 1
      BY <1>b, <3>1, TransSizes
    <3>3. /\ Pointers(e)' = Running(e) + held[e] + Cardinality(Dependents(e)')
          /\ Pointers(e) = Running(e) + held[e] + Cardinality(Dependents(e))
          /\ refcnt'[e] = refcnt[e] + 1
      BY <1>c, <2>1, <2>3, <2>4
    <3>4. Pointers(e)' <= refcnt'[e]
      <4> HIDE DEF Running
      <4> QED
        BY <1>c, <3>2, <3>3
    <3> QED
      BY <2>1, <2>4, <3>4
  <2>5. CASE e # d
    <3>1. Dependents(e)' \subseteq Dependents(e)
      BY <2>2, <2>5 DEF Dependents
    <3>2. Cardinality(Dependents(e)') <= Cardinality(Dependents(e))
      BY <1>b, <3>1, TransSizes
    <3>3. /\ Pointers(e)' = Running(e) + held[e] + Cardinality(Dependents(e)')
          /\ Pointers(e) = Running(e) + held[e] + Cardinality(Dependents(e))
          /\ refcnt'[e] = refcnt[e]
      BY <1>c, <2>1, <2>3, <2>5
    <3>4. Pointers(e)' <= refcnt'[e]
      <4> HIDE DEF Running
      <4> QED
        BY <1>c, <3>2, <3>3
    <3>5. status'[e] = "unborn" => held'[e] = 0 /\ Dependents(e)' = {}
      BY <1>c, <2>1, <3>1
    <3> QED
      BY <3>4, <3>5
  <2> QED
    BY <2>4, <2>5
<1>4. ASSUME NEW t \in Trans, StoreConflict(t), NEW e \in Trans PROVE Kept(e)
  <2>1. /\ status' = status /\ held' = held /\ depends' = depends
        /\ pc[t] = "walk" /\ pc'[t] = "serve"
        /\ refcnt'[t] = refcnt[t] + (1 - AbortConsumes(status[t]))
        /\ AbortConsumes(status[t]) \in {0, 1}
        /\ \A u \in Trans \ {t} : pc'[u] = pc[u] /\ refcnt'[u] = refcnt[u]
    BY <1>4, <1>a DEF StoreConflict, AbortStatus, AbortConsumes, Goto
  <2>2. Dependents(e)' = Dependents(e) /\ Running(e)' = Running(e)
    BY <1>d, <2>1
  <2>3. CASE e = t
    <3>1. held'[e] = held[e] + 0 /\ Running(e)' = Running(e) + 0
      BY <1>c, <2>1, <2>2
    <3>2. 1 - AbortConsumes(status[t]) \in Int /\ 0 + 0 <= 1 - AbortConsumes(status[t])
      BY <2>1
    <3>3. /\ refcnt'[e] = refcnt[e] + (1 - AbortConsumes(status[t]))
          /\ status'[e] = "unborn" => status[e] = "unborn" /\ 0 = 0
      BY <2>1, <2>3
    <3> HIDE DEF Running, Kept
    <3> QED
      BY <1>k, <2>2, <3>1, <3>2, <3>3
  <2>4. CASE e # t
    BY <1>s, <2>1, <2>2, <2>4
  <2> QED
    BY <2>3, <2>4
<1>5. ASSUME NEW t \in Trans, StoreVersion(t), NEW e \in Trans PROVE Kept(e)
  <2>1. /\ status' = status /\ depends' = depends /\ pc[t] = "walk" /\ pc'[t] = "serve"
        /\ \A u \in Trans \ {t} : pc'[u] = pc[u]
        /\ \/ held' = [held EXCEPT ![t] = @ + 1] /\ refcnt' = [refcnt EXCEPT ![t] = @ + 1]
           \/ UNCHANGED <<held, refcnt>>
    BY <1>5, <1>a DEF StoreVersion, Goto
  <2>2. Dependents(e)' = Dependents(e) /\ Running(e)' = Running(e)
    BY <1>d, <2>1
  <2>3. \/ refcnt'[e] = refcnt[e] /\ held'[e] = held[e]
        \/ e = t /\ refcnt'[e] = refcnt[e] + 1 /\ held'[e] = held[e] + 1
    BY <1>a, <2>1
  <2>4. CASE refcnt'[e] = refcnt[e] /\ held'[e] = held[e]
    BY <1>s, <2>1, <2>2, <2>4
  <2>5. CASE e = t /\ refcnt'[e] = refcnt[e] + 1 /\ held'[e] = held[e] + 1
    <3>1. Running(e)' = Running(e) + 0
      BY <1>c, <2>2
    <3>2. status'[e] # "unborn"
      BY <2>1, <2>5 DEF TransInv, Phase
    <3> HIDE DEF Running, Kept
    <3> QED
      BY <1>k, <2>2, <2>5, <3>1, <3>2
  <2> QED
    BY <2>3, <2>4, <2>5
<1>6. ASSUME NEW t \in Trans, FinishCommit(t), NEW e \in Trans PROVE Kept(e)
  <2>1. /\ status' = status /\ held' = held /\ depends' = depends
        /\ pc[t] = "notify" /\ pc'[t] = "done" /\ refcnt'[t] = refcnt[t] + (-1)
        /\ \A u \in Trans \ {t} : pc'[u] = pc[u] /\ refcnt'[u] = refcnt[u]
    BY <1>6, <1>a DEF FinishCommit, Goto, lockVars
  <2>2. Dependents(e)' = Dependents(e)
    BY <1>d, <2>1
  <2>3. CASE e = t
    <3>1. status[t] # "unborn"
      BY <2>1 DEF TransInv, Phase, Final
    <3>2. held'[e] = held[e] + 0 /\ Running(e)' = Running(e) + (-1)
      BY <1>c, <2>1, <2>3, <3>1
    <3>3. /\ refcnt'[e] = refcnt[e] + (-1)
          /\ status'[e] = "unborn" => status[e] = "unborn" /\ 0 = 0
          /\ -1 \in Int /\ 0 \in Int /\ -1 + 0 <= -1
      BY <2>1, <2>3
    <3> HIDE DEF Running, Kept
    <3> QED
      BY <1>k, <2>2, <3>2, <3>3
  <2>4. CASE e # t
    BY <1>s, <2>1, <2>2, <2>4
  <2> QED
    BY <2>3, <2>4
<1>7. ASSUME NEW t \in Trans, NEW e \in Trans,
             Insert(t) \/ CountWaiter(t) \/ AwaitDependee(t) \/ CheckDependee(t) \/ SetCommitted(t)
             \/ NotifyWaiter(t) \/ StoreEnter(t) \/ StartCommit(t) \/ Disconnect(t)
      PROVE  Kept(e)
  <2>1. /\ UNCHANGED <<refcnt, held, depends>>
        /\ pc'[e] = "done" <=> pc[e] = "done"
        /\ status'[e] = "unborn" <=> status[e] = "unborn"
    <3>1. ASSUME CheckDependee(t) \/ SetCommitted(t)
          PROVE  status[t] # "unborn" /\ status'[t] # "unborn" /\ \A u \in Trans \ {t} : status'[u] = status[u]
      <4>1. pc[t] \in {"await", "check"}
        BY <3>1 DEF CheckDependee, SetCommitted
      <4>2. status[t] # "unborn"
        BY <4>1 DEF TransInv, Phase
      <4> QED
        BY <1>a, <3>1, <4>2 DEF CheckDependee, SetCommitted
    <3>2. CASE CheckDependee(t) \/ SetCommitted(t)
      <4>1. UNCHANGED <<refcnt, held, depends>> /\ (pc'[e] = "done" <=> pc[e] = "done")
        BY <1>a, <3>2 DEF CheckDependee, SetCommitted, Goto, lockVars
      <4> QED
        BY <3>1, <3>2, <4>1
    <3>3. CASE ~(CheckDependee(t) \/ SetCommitted(t))
      BY <1>7, <1>a, <3>3 DEF Insert, CountWaiter, AwaitDependee, NotifyWaiter, StoreEnter,
         StartCommit, Disconnect, Goto, lockVars, transVars
    <3> QED
      BY <3>2, <3>3
  <2>2. Dependents(e)' = Dependents(e) /\ Running(e)' = Running(e)
    BY <1>d, <2>1
  <2> QED
    BY <1>s, <2>1, <2>2
<1>8. ASSUME UNCHANGED vars, NEW e \in Trans PROVE Kept(e)
  <2>1. UNCHANGED <<refcnt, held, depends, pc, status>>
    BY <1>8 DEF vars, transVars
  <2>2. Dependents(e)' = Dependents(e) /\ Running(e)' = Running(e)
    BY <1>d, <2>1
  <2> QED
    BY <1>s, <2>1, <2>2
<1>9. ASSUME NEW e \in Trans PROVE Kept(e)
  <2> HIDE DEF Kept
  <2> QED
    BY <1>1, <1>2, <1>3, <1>4, <1>5, <1>6, <1>7, <1>8 DEF Next, Step, StoreStep, CommitStep
<1> QED
  BY <1>9 DEF UnbornUnknown, PointersCounted

(* Tokens and pointers are counted in every state of the manager. *)
LEMMA CountInvariant == Spec => [](TransInv /\ CountInv)
<1>1. Init => CountInv
  BY CountInvInit
<1>2. TransInv /\ CountInv /\ [Next]_vars => CountInv'
  BY OneDependeeNext, EnoughTokensNext, PointersCountedNext DEF CountInv
<1> QED
  BY TransInvInit, TransInvNext, <1>1, <1>2, PTL DEF Spec

(* However the dependents of a transaction come and go, the tokens posted on *)
(* its semaphore and the waiters notify_waiters has still to post for are    *)
(* enough for all that were counted: nobody takes the token of another.      *)
THEOREM TokensSuffice == Spec => []EnoughTokens
<1>1. CountInv => EnoughTokens
  BY DEF CountInv
<1> QED
  BY CountInvariant, <1>1, PTL

(* The reference count of a transaction covers the pointers of its thread,   *)
(* of the versions it created and of the dependency lists it is in.          *)
THEOREM PointersAreCovered == Spec => []PointersCounted
<1>1. CountInv => PointersCounted
  BY DEF CountInv
<1> QED
  BY CountInvariant, <1>1, PTL

----------------------------------------------------------------------------
(* The commit protocol *)

ruleDeps == [t \in Trans |-> Dependees(t)]

LEMMA WithDependeeHas ==
  ASSUME NEW list \in Seq(Trans), NEW d \in Trans
  PROVE  \E i \in 1..Len(WithDependee(list, d)) : WithDependee(list, d)[i] = d
<1>1. CASE list # <<>> \/ ~doesNotExist(d, list)
  <2>1. WithDependee(list, d) = <<d>>
    <3>1. list = <<>> => <<d>> \o list = <<d>>
      OBVIOUS
    <3> QED
      BY <1>1, <3>1 DEF WithDependee
  <2> QED
    BY <2>1
<1>2. CASE list = <<>> /\ doesNotExist(d, list)
  BY <1>2 DEF WithDependee, doesNotExist
<1> QED
  BY <1>1, <1>2

(* A dependee a step adds is pending and not the dependent itself; the step  *)
(* can only drop others.                                                    *)
LEMMA AddIsDepend ==
  TransInv /\ (\E t, d \in Trans : AddDependee(t, d))
    => \E t, d \in Trans :
         /\ t # d /\ status[t] = "pending" /\ status[d] = "pending" /\ status' = status
         /\ \E D \in SUBSET ruleDeps[t] : ruleDeps' = [ruleDeps EXCEPT ![t] = D \cup {d}]
<1> SUFFICES ASSUME TransInv, NEW t \in Trans, NEW d \in Trans, AddDependee(t, d)
             PROVE  /\ t # d /\ status[t] = "pending" /\ status[d] = "pending"
                    /\ status' = status
                    /\ \E D \in SUBSET ruleDeps[t] :
                         ruleDeps' = [ruleDeps EXCEPT ![t] = D \cup {d}]
  OBVIOUS
<1>a. depends \in [Trans -> Seq(Trans)] /\ status \in [Trans -> Status \cup {"unborn"}]
  BY DEF TransInv, FieldsOK
<1>1. id[t] \in Nat /\ id[d] \in Nat /\ id[d] < id[t]
  BY DEF AddDependee, TransInv, ListInv, ListTypeOK, Node
<1>2. status[t] = "pending" /\ status[d] = "pending" /\ status' = status
  BY <1>a DEF AddDependee, Visits, TransInv, Phase, Status, Final
<1>3. depends' = [depends EXCEPT ![t] = WithDependee(depends[t], d)]
  BY DEF AddDependee
<1> DEFINE D == Dependees(t)' \ {d}
<1>4. d \in Dependees(t)'
  BY <1>a, <1>3, WithDependeeHas DEF Dependees
<1>5. D \in SUBSET ruleDeps[t]
  <2>1. \A i \in 1..Len(depends'[t]) :
          depends'[t][i] = d \/ \E j \in 1..Len(depends[t]) : depends[t][j] = depends'[t][i]
    <3>1. depends'[t] = WithDependee(depends[t], d) /\ depends[t] \in Seq(Trans)
      BY <1>a, <1>3
    <3> DEFINE L == WithDependee(depends[t], d)
    <3>2. \A i \in 1..Len(L) : L[i] = d \/ \E j \in 1..Len(depends[t]) : depends[t][j] = L[i]
      BY <3>1, WithDependeeType
    <3> QED
      BY <3>1, <3>2
  <2>2. ASSUME NEW e \in Dependees(t)', e # d PROVE e \in Dependees(t)
    <3>1. PICK i \in 1..Len(depends'[t]) : e = depends'[t][i]
      BY <2>2 DEF Dependees
    <3>2. PICK j \in 1..Len(depends[t]) : depends[t][j] = e
      BY <2>1, <2>2, <3>1
    <3> QED
      BY <3>2 DEF Dependees
  <2> QED
    BY <2>2 DEF ruleDeps
<1>6. ruleDeps' = [ruleDeps EXCEPT ![t] = D \cup {d}]
  <2>1. \A u \in Trans : u # t => Dependees(u)' = Dependees(u)
    BY <1>a, <1>3 DEF Dependees
  <2>2. Dependees(t)' = D \cup {d}
    BY <1>4
  <2> QED
    BY <2>1, <2>2 DEF ruleDeps
<1>7. t # d
  BY <1>1
<1>8. \E E \in SUBSET ruleDeps[t] : ruleDeps' = [ruleDeps EXCEPT ![t] = E \cup {d}]
  <2> HIDE DEF D
  <2> QED BY <1>5, <1>6
<1> QED
  BY <1>2, <1>7, <1>8

LEMMA RuleStep == TransInv /\ [Next]_vars => [Rule!RuleNext]_<<status, ruleDeps>>
<1> SUFFICES ASSUME TransInv, [Next]_vars
             PROVE  Rule!RuleNext \/ UNCHANGED <<status, ruleDeps>>
  OBVIOUS
<1>a. /\ depends \in [Trans -> Seq(Trans)] /\ status \in [Trans -> Status \cup {"unborn"}]
      /\ rest \in [Trans -> Seq(Trans)] /\ Phase /\ Progressing
  BY DEF TransInv, FieldsOK
<1>s. depends' = depends => ruleDeps' = ruleDeps
  BY DEF ruleDeps, Dependees
<1>r. \A t \in Trans : ruleDeps[t] = Dependees(t)
  BY DEF ruleDeps
<1> USE DEF Rule!RuleNext, ruleDeps
<1>1. ASSUME NEW t \in Trans, Create(t) PROVE Rule!RuleNext
  <2>1. Rule!Begin(t)
    BY <1>1, <1>s, <1>a DEF Rule!Begin, Create, ReadFirstId, Phase
  <2> QED BY <2>1
<1>2. ASSUME NEW t \in Trans, NEW d \in Trans, AddDependee(t, d) PROVE Rule!RuleNext
  <2>1. PICK u \in Trans, e \in Trans :
         /\ u # e /\ status[u] = "pending" /\ status[e] = "pending" /\ status' = status
         /\ \E D \in SUBSET ruleDeps[u] : ruleDeps' = [ruleDeps EXCEPT ![u] = D \cup {e}]
    BY <1>2, AddIsDepend
  <2>2. Rule!Depend(u, e)
    BY <2>1 DEF Rule!Depend
  <2> QED BY <2>2
<1>3. ASSUME NEW t \in Trans, CheckDependee(t)
      PROVE  Rule!RuleNext \/ UNCHANGED <<status, ruleDeps>>
  <2>1. CASE status[Head(rest[t])] = "aborted"
    <3>1. status[t] = "pending"
      BY <1>3, <1>a DEF CheckDependee, Phase, Status, Final
    <3>2. Rule!Abort(t)
      BY <1>3, <2>1, <3>1, <1>s DEF Rule!Abort, CheckDependee
    <3> QED BY <3>2
  <2>2. CASE status[Head(rest[t])] # "aborted"
    BY <1>3, <2>2, <1>s DEF CheckDependee
  <2> QED BY <2>1, <2>2
<1>4. ASSUME NEW t \in Trans, SetCommitted(t) PROVE Rule!RuleNext
  <2>1. status[t] = "pending"
    BY <1>4, <1>a DEF SetCommitted, Phase, Status, Final
  <2>2. \A d \in Dependees(t) : status[d] = "committed"
    BY <1>4, <1>a DEF SetCommitted, Progressing
  <2>3. Rule!Commit(t)
    BY <1>4, <2>1, <2>2, <1>s DEF Rule!Commit, SetCommitted
  <2> QED BY <2>3
<1>5. ASSUME NEW t \in Trans, NEW d \in Trans,
             Insert(t) \/ PassVersion(t, d) \/ CountWaiter(t) \/ StoreConflict(t)
             \/ StoreVersion(t) \/ AwaitDependee(t) \/ NotifyWaiter(t) \/ FinishCommit(t)
             \/ StoreEnter(t) \/ StartCommit(t) \/ Disconnect(t)
      PROVE  UNCHANGED <<status, depends>>
  BY <1>5, <1>a DEF Insert, PassVersion, CountWaiter, StoreConflict, AbortStatus, StoreVersion,
     AwaitDependee, NotifyWaiter, FinishCommit, StoreEnter, StartCommit, Disconnect, transVars
<1>6. CASE UNCHANGED vars
  BY <1>6, <1>s DEF vars, transVars
<1> QED
  BY <1>1, <1>2, <1>3, <1>4, <1>5, <1>6, <1>s DEF Next, Step, StoreStep, CommitStep

(* The transaction manager implements CommitRule. *)
THEOREM ImplementsCommitRule == Spec => ImplementsRule
<1>1. Init => Rule!RuleInit
  <2> SUFFICES ASSUME Init PROVE Rule!RuleInit
    OBVIOUS
  <2>1. \A t \in Trans : Dependees(t) = {}
    BY DEF Init, Dependees
  <2> QED
    BY <2>1 DEF Init, Rule!RuleInit
<1>2. TransInv /\ [Next]_vars => [Rule!RuleNext]_<<status, [t \in Trans |-> Dependees(t)]>>
  BY RuleStep DEF ruleDeps
<1> QED
  BY TransInvariant, <1>1, <1>2, PTL DEF Spec, ImplementsRule, Rule!RuleSpec

----------------------------------------------------------------------------
(* Every set of natural numbers has a least member. *)
LEMMA LeastNatural ==
  ASSUME NEW T \in SUBSET Nat, T # {}
  PROVE  \E x \in T : \A y \in T : x <= y
<1> DEFINE Less == OpToRel(<, Nat)
<1>1. PICK x \in T : \A y \in T : ~(<<y, x>> \in Less)
  BY NatLessThanWellFounded, WFMin
<1>2. ASSUME NEW y \in T PROVE x <= y
  <2>1. ~(<<y, x>> \in Less)
    BY <1>1
  <2>2. x \in Nat /\ y \in Nat
    OBVIOUS
  <2>3. y < x => <<y, x>> \in Less
    BY <2>2 DEF OpToRel
  <2>4. ~(y < x)
    BY <2>1, <2>3
  <2> QED
    BY <2>2, <2>4
<1> QED
  BY <1>2

(* Dependees have smaller ids, and trans_commit waits for nobody else. *)
Older(t) ==
  /\ Dependees(t) # {} => cpc[t] # "start"
  /\ \A d \in Dependees(t) : cpc[d] # "start" /\ id[d] < id[t]
  /\ pc[t] \in {"await", "check"} => \A j \in 1..Len(rest[t]) : rest[t][j] \in Dependees(t)

AllOlder == \A t \in Trans : Older(t)

(* The id of a transaction is never changed after line 77. *)
LEMMA IdFixed ==
  ListInv /\ [Next]_vars =>
    \A u \in Trans : cpc[u] # "start" => cpc'[u] # "start" /\ id'[u] = id[u]
<1> SUFFICES ASSUME ListInv, [ListNext]_listVars, NEW u \in Trans, cpc[u] # "start"
             PROVE  cpc'[u] # "start" /\ id'[u] = id[u]
  BY ListStep
<1>a. cpc \in [Trans -> CreatePC] /\ id \in [Node -> Nat] /\ Trans \subseteq Node
  BY DEF ListInv, ListTypeOK, Node
<1>1. ASSUME NEW t \in Trans, ReadFirstId(t) PROVE cpc'[u] # "start" /\ id'[u] = id[u]
  BY <1>1, <1>a DEF ReadFirstId
<1>2. ASSUME NEW t \in Trans, Link(t) \/ ShowStart(t) \/ ShowStep(t)
      PROVE  cpc'[u] # "start" /\ id'[u] = id[u]
  BY <1>2, <1>a DEF Link, PrepareNode, ReadTail, LinkNode, SetTail, ShowStart, ShowStep
<1>3. CASE UNCHANGED listVars
  BY <1>3 DEF listVars
<1> QED
  BY <1>1, <1>2, <1>3 DEF ListNext

LEMMA AllOlderNext == TransInv /\ AllOlder /\ [Next]_vars => AllOlder'
<1> SUFFICES ASSUME TransInv, AllOlder, [Next]_vars, NEW u \in Trans PROVE Older(u)'
  BY DEF AllOlder
<1>a. /\ depends \in [Trans -> Seq(Trans)] /\ rest \in [Trans -> Seq(Trans)]
      /\ pc \in [Trans -> PC] /\ Phase /\ Progressing /\ ListInv /\ FieldsOK
  BY DEF TransInv, FieldsOK
<1>i. \A v \in Trans : cpc[v] # "start" => cpc'[v] # "start" /\ id'[v] = id[v]
  BY <1>a, IdFixed
<1>o. Older(u) /\ Dependees(u) \subseteq Trans
  BY <1>a DEF AllOlder, Dependees
<1>1. CASE depends'[u] = depends[u] /\ pc'[u] = pc[u]
  <2>1. Dependees(u)' = Dependees(u) /\ rest'[u] = rest[u]
    BY <1>1, <1>a, Locality DEF Dependees
  <2> QED
    BY <1>1, <1>i, <1>o, <2>1 DEF Older
<1>2. CASE depends'[u] = depends[u] /\ pc'[u] \notin {"await", "check"}
  <2>1. Dependees(u)' = Dependees(u)
    BY <1>2 DEF Dependees
  <2> QED
    BY <1>2, <1>i, <1>o, <2>1 DEF Older
<1>3. ASSUME NEW d \in Trans, AddDependee(u, d) PROVE Older(u)'
  <2>1. /\ id[d] < id[u] /\ status[d] = "pending" /\ cpc[u] = "created" /\ pc'[u] = "count"
    BY <1>3, <1>a DEF AddDependee, Visits, Goto, Phase
  <2>2. cpc[d] # "start" /\ cpc[u] # "start"
    BY <2>1, <1>a DEF Phase
  <2>3. \A e \in Dependees(u)' : e = d \/ e \in Dependees(u)
    <3>1. depends'[u] = WithDependee(depends[u], d) /\ depends[u] \in Seq(Trans)
      BY <1>3, <1>a DEF AddDependee
    <3> DEFINE L == WithDependee(depends[u], d)
    <3>2. \A i \in 1..Len(L) : L[i] = d \/ \E j \in 1..Len(depends[u]) : depends[u][j] = L[i]
      BY <3>1, WithDependeeType
    <3>3. ASSUME NEW e \in Dependees(u)' PROVE e = d \/ e \in Dependees(u)
      <4>1. PICK i \in 1..Len(L) : e = L[i]
        BY <3>1, <3>3 DEF Dependees
      <4> QED
        BY <3>2, <4>1 DEF Dependees
    <3> QED
      BY <3>3
  <2> QED
    BY <2>1, <2>2, <2>3, <1>i, <1>o DEF Older
<1>4. ASSUME StartCommit(u) PROVE Older(u)'
  <2>1. rest'[u] = depends[u] /\ depends' = depends
    BY <1>4, <1>a DEF StartCommit
  <2>2. Dependees(u)' = Dependees(u)
    BY <2>1 DEF Dependees
  <2>3. \A j \in 1..Len(rest'[u]) : rest'[u][j] \in Dependees(u)
    BY <2>1 DEF Dependees
  <2> QED
    BY <2>2, <2>3, <1>i, <1>o DEF Older
<1>5. ASSUME AwaitDependee(u) PROVE Older(u)'
  <2>1. pc[u] = "await" /\ rest' = rest /\ depends' = depends
    BY <1>5 DEF AwaitDependee
  <2>2. Dependees(u)' = Dependees(u)
    BY <2>1 DEF Dependees
  <2> QED
    BY <2>1, <2>2, <1>i, <1>o DEF Older
<1>6. ASSUME CheckDependee(u), pc'[u] = "await" PROVE Older(u)'
  <2>1. pc[u] = "check" /\ rest'[u] = Tail(rest[u]) /\ depends' = depends /\ rest[u] # <<>>
    BY <1>6, <1>a DEF CheckDependee, Goto, Progressing
  <2>2. Dependees(u)' = Dependees(u)
    BY <2>1 DEF Dependees
  <2>3. \A j \in 1..Len(rest'[u]) : rest'[u][j] \in Dependees(u)
    <3>1. \A j \in 1..Len(rest[u]) : rest[u][j] \in Dependees(u)
      BY <2>1, <1>o DEF Older
    <3>2. \A j \in 1..Len(Tail(rest[u])) :
            j + 1 \in 1..Len(rest[u]) /\ Tail(rest[u])[j] = rest[u][j + 1]
      BY <2>1, <1>a
    <3> QED
      BY <2>1, <3>1, <3>2
  <2> QED
    BY <2>1, <2>2, <2>3, <1>i, <1>o DEF Older
<1>7. ASSUME NEW t \in Trans, NEW d \in Trans, t # u,
             \/ StartCommit(t) \/ AwaitDependee(t) \/ CheckDependee(t) \/ AddDependee(t, d)
      PROVE  depends'[u] = depends[u] /\ pc'[u] = pc[u]
  BY <1>7, <1>a DEF StartCommit, AwaitDependee, CheckDependee, AddDependee, Goto
<1>8. ASSUME NEW t \in Trans, NEW d \in Trans,
             \/ Create(t) \/ Insert(t) \/ PassVersion(t, d) \/ NotifyWaiter(t) \/ CountWaiter(t)
             \/ StoreConflict(t) \/ StoreVersion(t) \/ SetCommitted(t) \/ FinishCommit(t)
             \/ StoreEnter(t) \/ Disconnect(t)
      PROVE  /\ depends'[u] = depends[u]
             /\ pc'[u] = pc[u] \/ pc'[u] \notin {"await", "check"}
  BY <1>8, <1>a DEF Create, Insert, PassVersion, NotifyWaiter, CountWaiter, StoreConflict,
     StoreVersion, SetCommitted, FinishCommit, StoreEnter, Disconnect, Goto, transVars
<1>9. ASSUME CheckDependee(u), pc'[u] # "await"
      PROVE  depends'[u] = depends[u] /\ pc'[u] \notin {"await", "check"}
  BY <1>9, <1>a DEF CheckDependee, Goto
<1>10. CASE UNCHANGED vars
  BY <1>10, <1>1 DEF vars, transVars
<1> QED
  BY <1>1, <1>2, <1>3, <1>4, <1>5, <1>6, <1>7, <1>8, <1>9, <1>10
     DEF Next, Step, StoreStep, CommitStep

(* Commits never wait for each other in a circle: of the transactions in a   *)
(* set, one with the least id waits for none of the others.                 *)
THEOREM NoCommitDeadlock == Spec => []NoCommitCycle
<1>1. Init => AllOlder
  BY DEF Init, AllOlder, Older, Dependees
<1>2. TransInv /\ AllOlder => NoCommitCycle
  <2> SUFFICES ASSUME TransInv, AllOlder, NEW S \in SUBSET Trans, S # {}
               PROVE  \E t \in S : \A d \in S : ~Waiting(t, d)
    BY DEF NoCommitCycle
  <2>1. id \in [Node -> Nat] /\ S \subseteq Node /\ rest \in [Trans -> Seq(Trans)]
    BY DEF TransInv, ListInv, ListTypeOK, Node, FieldsOK
  <2>2. {id[t] : t \in S} \in SUBSET Nat /\ {id[t] : t \in S} # {}
    BY <2>1
  <2>3. PICK n \in {id[t] : t \in S} : \A m \in {id[t] : t \in S} : n <= m
    BY <2>2, LeastNatural
  <2>4. PICK t \in S : n = id[t]
    BY <2>3
  <2>5. ASSUME NEW d \in S, Waiting(t, d) PROVE FALSE
    <3>1. rest[t] # <<>> /\ rest[t][1] = d /\ 1 \in 1..Len(rest[t])
      BY <2>1, <2>5 DEF Waiting
    <3>2. d \in Dependees(t)
      BY <3>1, <2>5 DEF Waiting, AllOlder, Older
    <3>3. id[d] < id[t]
      BY <3>2 DEF AllOlder, Older
    <3>4. id[t] <= id[d] /\ id[t] \in Nat /\ id[d] \in Nat
      BY <2>1, <2>3, <2>4
    <3> QED
      BY <3>3, <3>4
  <2> QED
    BY <2>5
<1> QED
  BY TransInvariant, AllOlderNext, <1>1, <1>2, PTL DEF Spec
==============================================================================
