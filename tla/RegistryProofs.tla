---------------------------- MODULE RegistryProofs ----------------------------
(***************************************************************************)
(* Proofs about the client registry of ClientRegistry, for any number of   *)
(* connections and any size of the registry.                               *)
(***************************************************************************)
EXTENDS ClientRegistry, FiniteSetTheorems, TLAPS

(* The fields and locals have their types; the loop of creg_shutdown_all     *)
(* stays below the number of connections.                                   *)
Fields ==
  /\ pc \in [Threads -> PC]
  /\ fd_buf \in [Index -> Threads \cup {NoFd}]
  /\ count \in Nat
  /\ mutex \in Threads \cup {NoFd}
  /\ slots \in 0..MAX_FDS
  /\ empty \in {0, 1}
  /\ index \in [Threads -> Nat]
  /\ loaded \in [Threads -> Nat]
  /\ main \in Main
  /\ i \in 0..Clients
  /\ (main = "shut" => i < Clients)
  /\ shut \subseteq Threads
  /\ alone \subseteq Threads

(* A value of count is never more than the ++count that are complete.        *)
Lag == /\ count <= Cardinality(Counted)
       /\ \A t \in Threads : index[t] <= Cardinality(Counted)
       /\ \A t \in Threads : loaded[t] <= Cardinality(Counted)

(* Sets of service threads are finite, of at most Clients members.           *)
LEMMA ThreadsFinite ==
  ASSUME NEW S \in SUBSET Threads
  PROVE  IsFiniteSet(S) /\ Cardinality(S) \in Nat /\ Cardinality(S) <= Clients
<1>1. IsFiniteSet(Threads) /\ Cardinality(Threads) = Clients
  BY RegistryAssumption, FS_Interval DEF Threads
<1> QED
  BY <1>1, FS_Subset, FS_CardinalityType

(* So is the set of threads whose ++count is complete.                       *)
LEMMA CountedFinite ==
  IsFiniteSet(Counted) /\ Cardinality(Counted) \in Nat /\ Cardinality(Counted) <= Clients
  BY ThreadsFinite DEF Counted

(* Only StoreCount adds to the complete ones, and one at a time.             *)
LEMMA CountedStep ==
  ASSUME Fields, [Next]_vars
  PROVE  /\ Counted \subseteq Counted' /\ Cardinality(Counted) <= Cardinality(Counted')
         /\ Cardinality(Counted') \in Nat /\ Cardinality(Counted') <= Clients
<1>1. Counted \subseteq Counted' /\ Counted' \in SUBSET Threads
  <2> USE DEF Counted, Goto, Fields
  <2>1. CASE UNCHANGED vars
    BY <2>1 DEF vars
  <2>2. ASSUME NEW t \in Threads, Accept(t) PROVE Counted \subseteq Counted'
    BY <2>2 DEF Accept
  <2>3. ASSUME NEW t \in Threads, Register(t) \/ End(t) PROVE Counted \subseteq Counted'
    BY <2>3 DEF Register, End, WaitSlot, ReadIndex, WriteFd, LoadCount, StoreCount, TestCount, TakeEmpty
  <2>4. CASE Hangup \/ Terminate
    BY <2>4 DEF Hangup, Terminate, ScanTest, ScanShut, ResetSlots, ResetEmpty, ResetCount,
                WaitForEmpty, Finalize
  <2> QED
    BY <2>1, <2>2, <2>3, <2>4 DEF Next
<1> QED
  BY <1>1, ThreadsFinite, FS_Subset, CountedFinite

(* The store of ++count makes one more registration complete.                *)
LEMMA StoreCountCounts ==
  ASSUME Fields, NEW t \in Threads, StoreCount(t)
  PROVE  Cardinality(Counted') = Cardinality(Counted) + 1
<1>1. Counted' = Counted \cup {t} /\ t \notin Counted
  BY DEF StoreCount, Goto, Counted, Fields
<1> QED
  BY <1>1, CountedFinite, FS_AddElement

(* Every step of the server keeps the fields typed.                          *)
LEMMA FieldsNext == Fields /\ Lag /\ [Next]_vars => Fields'
<1> USE RegistryAssumption, CountedFinite DEF Fields, Lag, Threads, Index, Goto, PC, Main, NoFd
<1> SUFFICES ASSUME Fields, Lag, [Next]_vars PROVE Fields'
  OBVIOUS
<1>1. CASE UNCHANGED vars
  BY <1>1 DEF vars, regVars, mainVars
<1>2. ASSUME NEW t \in Threads, Accept(t) PROVE Fields'
  <2>1. alone' \subseteq Threads
    BY <1>2 DEF Accept
  <2> QED
    BY <1>2, <2>1 DEF Accept, regVars, mainVars
<1>3. ASSUME NEW t \in Threads, WaitSlot(t) PROVE Fields'
  BY <1>3 DEF WaitSlot, mainVars
<1>4. ASSUME NEW t \in Threads, ReadIndex(t) PROVE Fields'
  BY <1>4 DEF ReadIndex, mainVars
<1>5. ASSUME NEW t \in Threads, WriteFd(t) PROVE Fields'
  BY <1>5 DEF WriteFd, mainVars
<1>6. ASSUME NEW t \in Threads, LoadCount(t) PROVE Fields'
  BY <1>6 DEF LoadCount, mainVars
<1>7. ASSUME NEW t \in Threads, StoreCount(t) PROVE Fields'
  BY <1>7 DEF StoreCount, mainVars
<1>8. ASSUME NEW t \in Threads, TestCount(t) PROVE Fields'
  BY <1>8 DEF TestCount, regVars, mainVars
<1>9. ASSUME NEW t \in Threads, TakeEmpty(t) PROVE Fields'
  BY <1>9 DEF TakeEmpty, mainVars
<1>10. ASSUME NEW t \in Threads, End(t) PROVE Fields'
  BY <1>10 DEF End, regVars, mainVars
<1>11. CASE Hangup \/ Finalize
  <2>1. main' \in {"scan", "exit"} /\ i' \in {0, i}
    BY <1>11 DEF Hangup, Finalize
  <2>2. UNCHANGED <<pc, regVars, shut, alone>>
    BY <1>11 DEF Hangup, Finalize
  <2> QED
    BY <2>1, <2>2 DEF regVars
<1>14. CASE ResetSlots \/ ResetEmpty \/ ResetCount \/ WaitForEmpty
  <2>1. main' \in {"empty", "count", "wait", "fini"} /\ i' = i
    BY <1>14 DEF ResetSlots, ResetEmpty, ResetCount, WaitForEmpty
  <2>2. slots' \in 0..MAX_FDS /\ empty' \in {0, 1} /\ count' \in Nat
    BY <1>14 DEF ResetSlots, ResetEmpty, ResetCount, WaitForEmpty
  <2>3. UNCHANGED <<pc, fd_buf, mutex, index, loaded, shut, alone>>
    BY <1>14 DEF ResetSlots, ResetEmpty, ResetCount, WaitForEmpty
  <2> QED
    BY <2>1, <2>2, <2>3
<1>12. CASE ScanTest
  BY <1>12 DEF ScanTest, regVars
<1>13. CASE ScanShut
  <2>1. i \in Index /\ fd_buf[i] \in Threads \cup {NoFd}
    BY <1>13 DEF ScanShut
  <2>2. shut' \subseteq Threads
    BY <1>13, <2>1 DEF ScanShut
  <2>3. i' \in 0..Clients
    BY <1>13 DEF ScanShut
  <2> QED
    BY <1>13, <2>2, <2>3 DEF ScanShut, regVars
<1> QED
  BY <1>1, <1>2, <1>3, <1>4, <1>5, <1>6, <1>7, <1>8, <1>9, <1>10, <1>11, <1>12, <1>13, <1>14
     DEF Next, Register, Terminate

(* No step lets a value of count overtake the complete ++count.              *)
LEMMA LagNext == Fields /\ Lag /\ [Next]_vars => Lag'
<1> SUFFICES ASSUME Fields, Lag, [Next]_vars PROVE Lag'
  OBVIOUS
<1>0. /\ Cardinality(Counted) \in Nat /\ Cardinality(Counted') \in Nat
      /\ Cardinality(Counted) <= Cardinality(Counted')
  BY CountedStep, CountedFinite
<1>1. CASE UNCHANGED <<count, index, loaded>>
  BY <1>1, <1>0 DEF Lag, Fields
<1>2. ASSUME NEW t \in Threads, ReadIndex(t) PROVE Lag'
  BY <1>2, <1>0 DEF ReadIndex, Lag, Fields
<1>3. ASSUME NEW t \in Threads, LoadCount(t) PROVE Lag'
  BY <1>3, <1>0 DEF LoadCount, Lag, Fields
<1>4. ASSUME NEW t \in Threads, StoreCount(t) PROVE Lag'
  <2>1. Cardinality(Counted') = Cardinality(Counted) + 1
    BY <1>4, StoreCountCounts
  <2>2. count' = loaded[t] + 1 /\ index' = index /\ loaded' = [loaded EXCEPT ![t] = 0]
    BY <1>4 DEF StoreCount
  <2>3. \A u \in Threads : loaded'[u] \in {0, loaded[u]}
    BY <2>2 DEF Fields
  <2>4. \A u \in Threads : index[u] \in Nat /\ loaded[u] \in Nat
    BY DEF Fields
  <2> QED
    BY <2>1, <2>2, <2>3, <2>4, <1>0 DEF Lag
<1>5. CASE ResetCount
  BY <1>5, <1>0 DEF ResetCount, Lag, Fields
<1> QED
  BY <1>1, <1>2, <1>3, <1>4, <1>5
     DEF Next, vars, regVars, mainVars, Register, Terminate, Accept, WaitSlot, WriteFd, TestCount,
         TakeEmpty, End, Hangup, ScanTest, ScanShut, ResetSlots, ResetEmpty, WaitForEmpty, Finalize

(* creg_init establishes both.                                               *)
LEMMA FieldsInit == Init => Fields /\ Lag
<1> SUFFICES ASSUME Init PROVE Fields /\ Lag
  OBVIOUS
<1>1. Fields
  BY RegistryAssumption DEF Init, Fields, Threads, PC, Main, Index, NoFd
<1>2. Lag
  BY CountedFinite DEF Init, Lag
<1> QED
  BY <1>1, <1>2

(* Type correctness: count, with all its races, stays within the number of   *)
(* connections, and the semaphores within their initial values.             *)
THEOREM RegistryTypeCorrect == Spec => []TypeOK
<1>1. ASSUME Fields, Lag PROVE TypeOK
  <2>1. \A n \in Nat : n <= Cardinality(Counted) => n \in Index
    BY CountedFinite, RegistryAssumption DEF Index
  <2>2. count \in Index /\ index \in [Threads -> Index] /\ loaded \in [Threads -> Index]
    BY <1>1, <2>1 DEF Fields, Lag
  <2> QED
    BY <1>1, <2>2 DEF Fields, TypeOK, Index
<1> QED
  BY FieldsInit, FieldsNext, LagNext, <1>1, PTL DEF Spec

----------------------------------------------------------------------------
(* The threads that have passed P(slots).                                    *)
Taken == {t \in Threads : pc[t] \notin {"unborn", "slots"}}

(* Until it is re-initialised, semaphore slots counts the slots not taken.   *)
SlotsTaken == Serving => slots + Cardinality(Taken) = MAX_FDS

(* The taken slots can be counted.                                           *)
LEMMA TakenFinite ==
  IsFiniteSet(Taken) /\ Cardinality(Taken) \in Nat
  BY ThreadsFinite DEF Taken

(* P(slots) takes one slot, and nothing gives one back.                      *)
LEMMA SlotsTakenNext == Fields /\ SlotsTaken /\ [Next]_vars => SlotsTaken'
<1> SUFFICES ASSUME Fields, SlotsTaken, [Next]_vars, Serving'
             PROVE  slots' + Cardinality(Taken') = MAX_FDS
  BY DEF SlotsTaken
<1> USE DEF Goto, Serving
<1>1. CASE slots' = slots /\ Taken' = Taken /\ Serving
  BY <1>1 DEF SlotsTaken
<1>2. ASSUME NEW t \in Threads, WaitSlot(t) PROVE slots' + Cardinality(Taken') = MAX_FDS
  <2>1. Taken' = Taken \cup {t} /\ t \notin Taken /\ slots' = slots - 1 /\ Serving
    BY <1>2 DEF WaitSlot, mainVars, Taken, Fields
  <2>2. Cardinality(Taken') = Cardinality(Taken) + 1
    BY <2>1, TakenFinite, FS_AddElement
  <2> QED
    BY <2>1, <2>2, TakenFinite, RegistryAssumption DEF SlotsTaken, Fields
<1>3. CASE UNCHANGED vars
  BY <1>3, <1>1 DEF vars, regVars, mainVars, Taken
<1>4. ASSUME NEW t \in Threads, Accept(t) PROVE slots' = slots /\ Taken' = Taken /\ Serving
  BY <1>4 DEF Accept, regVars, mainVars, Taken, Fields
<1>5. ASSUME NEW t \in Threads, ReadIndex(t) \/ WriteFd(t) \/ LoadCount(t) \/ StoreCount(t)
      PROVE  slots' = slots /\ Taken' = Taken /\ Serving
  BY <1>5 DEF ReadIndex, WriteFd, LoadCount, StoreCount, mainVars, Taken, Fields
<1>6. ASSUME NEW t \in Threads, TestCount(t) \/ TakeEmpty(t) \/ End(t)
      PROVE  slots' = slots /\ Taken' = Taken /\ Serving
  BY <1>6 DEF TestCount, TakeEmpty, End, regVars, mainVars, Taken, Fields
<1>7. CASE Hangup \/ Terminate
  <2>1. slots' = slots /\ pc' = pc /\ Serving
    BY <1>7 DEF Hangup, Terminate, ScanTest, ScanShut, ResetSlots, ResetEmpty, ResetCount,
                WaitForEmpty, Finalize, regVars
  <2> QED
    BY <2>1, <1>1 DEF Taken
<1> QED
  BY <1>1, <1>2, <1>3, <1>4, <1>5, <1>6, <1>7 DEF Next, Register

(* No thread writes beyond the array of the registry: the slots taken        *)
(* outnumber the complete ++count, which bound every index.                  *)
THEOREM SlotsInBounds == Spec => []SlotInBounds
<1>1. Init => SlotsTaken
  <2> SUFFICES ASSUME Init PROVE SlotsTaken
    OBVIOUS
  <2>1. Taken = {}
    BY DEF Init, Taken
  <2> QED
    BY <2>1, FS_EmptySet, RegistryAssumption DEF Init, SlotsTaken
<1>2. ASSUME Fields, Lag, SlotsTaken PROVE SlotInBounds
  <2> SUFFICES ASSUME Serving, NEW t \in Threads, pc[t] = "write"
               PROVE  index[t] < MAX_FDS
    BY DEF SlotInBounds
  <2>1. Counted \subseteq Taken \ {t} /\ t \in Taken
    BY DEF Counted, Taken
  <2>2. Cardinality(Taken \ {t}) = Cardinality(Taken) - 1 /\ IsFiniteSet(Taken \ {t})
    BY <2>1, TakenFinite, FS_RemoveElement, FS_Subset
  <2>3. Cardinality(Counted) <= Cardinality(Taken) - 1
    BY <2>1, <2>2, FS_Subset
  <2> QED
    BY <1>2, <2>3, TakenFinite, CountedFinite, RegistryAssumption DEF Lag, SlotsTaken, Fields
<1> QED
  BY FieldsInit, FieldsNext, LagNext, SlotsTakenNext, <1>1, <1>2, PTL DEF Spec

----------------------------------------------------------------------------
(* Once a ++count has been overwritten count lags for good: a load that has  *)
(* seen all complete increments sees that none was lost.                     *)
NoneLost == Serving => \A t \in Threads :
              pc[t] = "store" /\ loaded[t] = Cardinality(Counted) => count = Cardinality(Counted)

(* While none is lost, one thread at most has read 1, and it takes the       *)
(* semaphore as the first.                                                  *)
FirstTakes ==
  Serving /\ count = Cardinality(Counted) =>
    /\ \A t \in Threads : pc[t] = "take" =>
         empty = 1 /\ \A u \in Threads : pc[u] = "take" => u = t
    /\ empty = 0 => \E u \in Threads : pc[u] \in {"serve", "ended"}

(* As long as no ++count is lost, count is the number of complete ones.      *)
LEMMA NoneLostNext == Fields /\ Lag /\ NoneLost /\ [Next]_vars => NoneLost'
<1> SUFFICES ASSUME Fields, Lag, NoneLost, [Next]_vars, Serving',
                    NEW u \in Threads, pc'[u] = "store", loaded'[u] = Cardinality(Counted')
             PROVE  count' = Cardinality(Counted')
  BY DEF NoneLost
<1> USE DEF Goto, Serving
<1>1. CASE Counted' = Counted /\ count' = count /\ loaded' = loaded /\ pc[u] = "store" /\ Serving
  BY <1>1 DEF NoneLost
<1>2. ASSUME NEW t \in Threads, LoadCount(t) PROVE count' = Cardinality(Counted')
  <2>1. Counted' = Counted /\ count' = count /\ Serving
    BY <1>2 DEF LoadCount, Counted, Fields, mainVars
  <2>2. CASE u = t
    BY <1>2, <2>1, <2>2 DEF LoadCount, Fields
  <2>3. CASE u # t
    BY <1>2, <2>1, <2>3 DEF LoadCount, Fields, NoneLost
  <2> QED BY <2>2, <2>3
<1>3. ASSUME NEW t \in Threads, StoreCount(t) PROVE FALSE
  <2>1. Cardinality(Counted') = Cardinality(Counted) + 1
    BY <1>3, StoreCountCounts
  <2>2. loaded'[u] = loaded[u] /\ u # t
    BY <1>3 DEF StoreCount, Fields
  <2> QED
    BY <2>1, <2>2, CountedFinite DEF Lag, Fields
<1>4. CASE UNCHANGED vars
  BY <1>4, <1>1 DEF vars, regVars, mainVars, Counted
<1>5. ASSUME NEW t \in Threads, Accept(t) \/ WaitSlot(t) \/ ReadIndex(t) \/ WriteFd(t)
      PROVE  Counted' = Counted /\ count' = count /\ loaded' = loaded /\ pc[u] = "store" /\ Serving
  BY <1>5 DEF Accept, WaitSlot, ReadIndex, WriteFd, regVars, mainVars, Counted, Fields
<1>6. ASSUME NEW t \in Threads, TestCount(t) \/ TakeEmpty(t) \/ End(t)
      PROVE  Counted' = Counted /\ count' = count /\ loaded' = loaded /\ pc[u] = "store" /\ Serving
  BY <1>6 DEF TestCount, TakeEmpty, End, regVars, mainVars, Counted, Fields
<1>7. CASE Hangup \/ Terminate
  <2>1. count' = count /\ pc' = pc /\ loaded' = loaded /\ Serving
    BY <1>7 DEF Hangup, Terminate, ScanTest, ScanShut, ResetSlots, ResetEmpty, ResetCount,
                WaitForEmpty, Finalize, regVars
  <2> QED
    BY <2>1, <1>1 DEF Counted
<1> QED
  BY <1>1, <1>2, <1>3, <1>4, <1>5, <1>6, <1>7 DEF Next, Register

(* As long as no ++count is lost, one registration at most takes empty.      *)
LEMMA FirstTakesNext ==
  Fields /\ Lag /\ NoneLost /\ FirstTakes /\ [Next]_vars => FirstTakes'
<1> SUFFICES ASSUME Fields, Lag, NoneLost, FirstTakes, [Next]_vars,
                    Serving', count' = Cardinality(Counted')
             PROVE  /\ \A t \in Threads : pc'[t] = "take" =>
                         empty' = 1 /\ \A u \in Threads : pc'[u] = "take" => u = t
                    /\ empty' = 0 => \E u \in Threads : pc'[u] \in {"serve", "ended"}
  BY DEF FirstTakes
<1> DEFINE Goal == /\ \A t \in Threads : pc'[t] = "take" =>
                         empty' = 1 /\ \A u \in Threads : pc'[u] = "take" => u = t
                   /\ empty' = 0 => \E u \in Threads : pc'[u] \in {"serve", "ended"}
           Same == /\ Serving /\ count = Cardinality(Counted) /\ empty' = empty
                   /\ \A u \in Threads : /\ pc'[u] = "take" => pc[u] = "take"
                                         /\ pc[u] \in {"serve", "ended"} => pc'[u] \in {"serve", "ended"}
<1> USE DEF Goto, Serving
<1>1. CASE Same
  BY <1>1 DEF FirstTakes
<1>2. CASE UNCHANGED vars
  <2>1. Same
    BY <1>2 DEF vars, regVars, mainVars, Counted
  <2> QED BY <2>1, <1>1
<1>3. ASSUME NEW t \in Threads, Accept(t) \/ WaitSlot(t) \/ ReadIndex(t) \/ WriteFd(t) \/ LoadCount(t)
      PROVE  Same
  BY <1>3 DEF Accept, WaitSlot, ReadIndex, WriteFd, LoadCount, regVars, mainVars, Counted, Fields
<1>4. ASSUME NEW t \in Threads, StoreCount(t) PROVE Same
  <2>1. Cardinality(Counted') = Cardinality(Counted) + 1
    BY <1>4, StoreCountCounts
  <2>2. pc[t] = "store" /\ count' = loaded[t] + 1 /\ Serving
    BY <1>4 DEF StoreCount, mainVars
  <2>3. loaded[t] = Cardinality(Counted)
    BY <2>1, <2>2, CountedFinite DEF Fields
  <2>4. count = Cardinality(Counted)
    BY <2>2, <2>3 DEF NoneLost
  <2> QED
    BY <1>4, <2>2, <2>4 DEF StoreCount, Fields
<1>5. ASSUME NEW t \in Threads, TestCount(t) PROVE Goal
  <2>1. Counted' = Counted /\ count' = count /\ empty' = empty /\ Serving /\ pc[t] = "test"
        /\ t \in Counted
    BY <1>5 DEF TestCount, regVars, mainVars, Counted, Fields
  <2>2. CASE count # 1
    <3>1. Same
      BY <1>5, <2>1, <2>2 DEF TestCount, Fields
    <3> QED BY <3>1, <1>1
  <2>3. CASE count = 1
    <3>1. PICK x : Counted = {x}
      BY <2>1, <2>3, CountedFinite, FS_Singleton
    <3>2. \A u \in Threads : pc[u] \in {"take", "serve", "ended"} => u = t
      BY <2>1, <3>1 DEF Counted
    <3>3. \A u \in Threads : pc[u] \notin {"take", "serve", "ended"}
      BY <3>2, <2>1
    <3>4. empty = 1
      BY <3>3, <2>1 DEF FirstTakes, Fields
    <3>5. \A u \in Threads : pc'[u] = "take" => u = t
      BY <1>5, <3>3 DEF TestCount, Fields
    <3> QED
      BY <3>4, <3>5, <2>1
  <2> QED BY <2>2, <2>3
<1>6. ASSUME NEW t \in Threads, TakeEmpty(t) PROVE Goal
  <2>1. Counted' = Counted /\ count' = count /\ Serving /\ pc[t] = "take"
    BY <1>6 DEF TakeEmpty, mainVars, Counted, Fields
  <2>2. \A u \in Threads : pc[u] = "take" => u = t
    BY <2>1 DEF FirstTakes
  <2>3. pc'[t] = "serve" /\ \A u \in Threads : pc'[u] # "take"
    BY <1>6, <2>2 DEF TakeEmpty, Fields
  <2> QED BY <2>3
<1>7. ASSUME NEW t \in Threads, End(t) PROVE Same
  BY <1>7 DEF End, regVars, mainVars, Counted, Fields
<1>8. CASE Hangup \/ Terminate
  <2>1. Serving /\ count' = count /\ pc' = pc /\ empty' = empty
    BY <1>8 DEF Hangup, Terminate, ScanTest, ScanShut, ResetSlots, ResetEmpty, ResetCount,
                WaitForEmpty, Finalize, regVars
  <2>2. Same
    BY <2>1 DEF Counted
  <2> QED BY <2>2, <1>1
<1> QED
  BY <1>1, <1>2, <1>3, <1>4, <1>5, <1>6, <1>7, <1>8 DEF Next, Register

(* creg_register blocks in P(empty) only after another thread's ++count has  *)
(* been overwritten: without that, it never blocks there.                   *)
THEOREM BlockedOnlyByLost == Spec => []BlockedOnlyByLostUpdate
<1>1. Init => NoneLost /\ FirstTakes
  BY DEF Init, NoneLost, FirstTakes
<1>2. Fields /\ Lag /\ FirstTakes => BlockedOnlyByLostUpdate
  BY CountedFinite DEF Fields, Lag, FirstTakes, BlockedOnlyByLostUpdate
<1> QED
  BY FieldsInit, FieldsNext, LagNext, NoneLostNext, FirstTakesNext, <1>1, <1>2, PTL DEF Spec

----------------------------------------------------------------------------
(* While t registers alone count does not move; after that, whoever is about *)
(* to write a slot or to store count has read a larger count than t.         *)
AloneInv ==
  Serving => \A t \in alone :
    /\ pc[t] \in Registering => \A u \in Threads : u # t => pc[u] \notin Registering
    /\ pc[t] \in {"write", "load", "store"} => index[t] = count
    /\ pc[t] = "store" => loaded[t] = count
    /\ pc[t] \in {"load", "store"} => fd_buf[index[t]] = t
    /\ t \in Counted => /\ index[t] < count /\ fd_buf[index[t]] = t
                        /\ \A u \in Threads : /\ pc[u] = "write" => index[t] < index[u]
                                              /\ pc[u] = "store" => index[t] < loaded[u]

(* What later registrations write lies beyond the slot of a lone one.        *)
LEMMA AloneInvNext == Fields /\ Lag /\ AloneInv /\ [Next]_vars => AloneInv'
<1> SUFFICES ASSUME Fields, Lag, AloneInv, [Next]_vars, Serving'
             PROVE  AloneInv'
  BY DEF AloneInv
<1>0. \A t \in Threads : index[t] \in Index
  BY CountedFinite, RegistryAssumption DEF Fields, Lag, Index
<1> USE DEF Goto, Serving, Fields, AloneInv, Counted, Registering, PC
<1>1. CASE UNCHANGED vars
  BY <1>1 DEF vars, regVars, mainVars
<1>2. ASSUME NEW t \in Threads, Accept(t) PROVE AloneInv'
  <2> DEFINE others == {u \in Threads : pc[u] \in Registering}
  <2>1. /\ pc[t] = "unborn" /\ pc' = [pc EXCEPT ![t] = "slots"]
        /\ UNCHANGED <<fd_buf, count, index, loaded, main>>
        /\ alone' = IF others = {} THEN alone ELSE alone \ (others \cup {t})
    BY <1>2 DEF Accept, regVars, mainVars
  <2>2. CASE others = {}
    BY <2>1, <2>2
  <2>3. CASE others # {}
    <3>1. \A s \in alone' : s \in alone /\ s # t /\ pc[s] \notin Registering
      BY <2>1, <2>3
    <3> QED
      BY <2>1, <3>1
  <2> QED BY <2>2, <2>3
<1>3. ASSUME NEW t \in Threads, WaitSlot(t) PROVE AloneInv'
  BY <1>3 DEF WaitSlot, mainVars
<1>4. ASSUME NEW t \in Threads, ReadIndex(t) PROVE AloneInv'
  BY <1>4 DEF ReadIndex, mainVars
<1>5. ASSUME NEW t \in Threads, WriteFd(t) PROVE AloneInv'
  BY <1>5, <1>0 DEF WriteFd, mainVars
<1>6. ASSUME NEW t \in Threads, LoadCount(t) PROVE AloneInv'
  BY <1>6 DEF LoadCount, mainVars
<1>7. ASSUME NEW t \in Threads, StoreCount(t) PROVE AloneInv'
  BY <1>7 DEF StoreCount, mainVars
<1>8. ASSUME NEW t \in Threads, TestCount(t) PROVE AloneInv'
  BY <1>8 DEF TestCount, regVars, mainVars
<1>9. ASSUME NEW t \in Threads, TakeEmpty(t) PROVE AloneInv'
  BY <1>9 DEF TakeEmpty, mainVars
<1>10. ASSUME NEW t \in Threads, End(t) PROVE AloneInv'
  BY <1>10 DEF End, regVars, mainVars
<1>11. CASE Hangup \/ Terminate
  <2>1. Serving /\ UNCHANGED <<pc, fd_buf, count, index, loaded, alone>>
    BY <1>11 DEF Hangup, Terminate, ScanTest, ScanShut, ResetSlots, ResetEmpty, ResetCount,
                WaitForEmpty, Finalize, regVars
  <2> QED BY <2>1
<1> QED
  BY <1>1, <1>2, <1>3, <1>4, <1>5, <1>6, <1>7, <1>8, <1>9, <1>10, <1>11 DEF Next, Register

(* A client that registered while no other did keeps its slot until the      *)
(* registry is re-initialised, whatever the registrations after it do.       *)
THEOREM AloneKeeps == Spec => []AloneKeepsSlot
<1>1. Init => AloneInv
  BY DEF Init, AloneInv, Registering, Counted
<1>2. AloneInv => AloneKeepsSlot
  BY DEF AloneInv, AloneKeepsSlot
<1> QED
  BY FieldsInit, FieldsNext, LagNext, AloneInvNext, <1>1, <1>2, PTL DEF Spec
=============================================================================
