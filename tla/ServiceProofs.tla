----------------------------- MODULE ServiceProofs -----------------------------
(***************************************************************************)
(* The service threads and the store use the transaction manager as it     *)
(* promises to be used, for any number of connections, keys and requests:   *)
(* SessionsKeepRule.  Only forgotten dependencies make dirty reads           *)
(* (DirtyReadsNeedForgetting), only the known causes end the server          *)
(* (EndsOnlyByCauses), and every pointer to a blob is counted in it          *)
(* (PointersAreCounted).                                                     *)
(***************************************************************************)
EXTENDS Service, FiniteSetTheorems, TLAPS

AnyBlob == (Trans \X Nat \X {"key", "value"}) \cup {NoBlob}

AnyVersion == [creator : Trans, blob : AnyBlob]

SessionPC == {"request", "walk", "reply", "answer", "done"}

(* Whoever is in the store holds its lock and has a call; its transaction   *)
(* is pending, as is that of every thread that may still get there.         *)
ServiceInv ==
  /\ status \in [Trans -> {"pending", "committed"}]
  /\ deps \in [Trans -> SUBSET Trans]
  /\ id \in [Trans -> Nat]
  /\ pc \in [Trans -> SessionPC]
  /\ req \in [Trans -> Nat]
  /\ versions \in [Keys -> Seq(AnyVersion)]
  /\ cursor \in Nat
  /\ \A c \in Trans : pc[c] \in {"request", "walk", "reply"} => status[c] = "pending"
  /\ \A c \in Trans : pc[c] = "walk" => /\ mapLock = c
                                        /\ cursor > 0
                                        /\ call \in [put : BOOLEAN, key : Keys]

(* The list a thread walks is one of versions. *)
LEMMA WalkedList ==
  ASSUME ServiceInv, NEW c \in Trans, At(c, "walk")
  PROVE  /\ call \in [put : BOOLEAN, key : Keys] /\ mapLock = c /\ cursor \in Nat \ {0}
         /\ List \in Seq(AnyVersion) /\ Len(List) \in Nat
         /\ \A i \in 1..Len(List) : List[i] \in AnyVersion /\ List[i].creator \in Trans
<1>1. call \in [put : BOOLEAN, key : Keys] /\ mapLock = c /\ cursor \in Nat \ {0}
  BY DEF ServiceInv, At
<1>2. List \in Seq(AnyVersion)
  BY <1>1 DEF ServiceInv, List
<1>3. \A i \in 1..Len(List) : List[i] \in AnyVersion
  BY <1>2
<1>4. \A i \in 1..Len(List) : List[i].creator \in Trans
  BY <1>3 DEF AnyVersion
<1> QED
  BY <1>1, <1>2, <1>3, <1>4

(* It holds before the first request, ... *)
LEMMA ServiceInvInit == Init => ServiceInv
  BY ServiceAssumption DEF Init, ServiceInv, SessionPC

(* ... and after every step of a session or of the store. *)
LEMMA ServiceInvNext == ServiceInv /\ [Next]_vars => ServiceInv'
<1> SUFFICES ASSUME ServiceInv, [Next]_vars PROVE ServiceInv'
  OBVIOUS
<1> USE ServiceAssumption DEF ServiceInv, SessionPC
<1>1. CASE UNCHANGED vars
  BY <1>1 DEF vars, ruleVars, fixed, requestVars, storeVars
<1>2. ASSUME NEW c \in Trans, NEW p \in BOOLEAN, NEW S, NEW l, EnterStore(c, p, S, l)
      PROVE ServiceInv'
  <2> PICK k \in Keys : call' = [put |-> p, key |-> k]
    BY <1>2 DEF EnterStore
  <2> QED
    BY <1>2 DEF EnterStore, At, Goto, ruleVars, fixed
<1>3. ASSUME NEW c \in Trans, CopyUnset(c) PROVE ServiceInv'
  BY <1>3 DEF CopyUnset, ruleVars, fixed, requestVars, storeVars
<1>4. ASSUME NEW c \in Trans, VisitCommitted(c) PROVE ServiceInv'
  <2>1. /\ call.key \in Keys /\ cursor \in 1..Len(List) /\ List \in Seq(AnyVersion)
    <3>1. At(c, "walk") /\ cursor <= Len(List)
      BY <1>4 DEF VisitCommitted
    <3>2. /\ call \in [put : BOOLEAN, key : Keys] /\ cursor \in Nat \ {0}
          /\ List \in Seq(AnyVersion) /\ Len(List) \in Nat
      BY <3>1, WalkedList
    <3> QED
      BY <3>1, <3>2
  <2>2. SubSeq(List, cursor, Len(List)) \in Seq(AnyVersion)
    BY <2>1
  <2>3. versions' \in [Keys -> Seq(AnyVersion)]
    BY <1>4, <2>1, <2>2 DEF VisitCommitted, List
  <2>4. cursor' \in Nat /\ cursor' > 0
    <3>1. cursor' \in {cursor, 2, cursor + 1}
      BY <1>4 DEF VisitCommitted
    <3> QED
      BY <2>1, <3>1
  <2> QED
    BY <1>4, <2>3, <2>4 DEF VisitCommitted, ruleVars, fixed, requestVars
<1>5. ASSUME NEW c \in Trans, VisitPending(c) PROVE ServiceInv'
  <2>2. List[cursor].creator \in Trans
    BY <1>5, WalkedList DEF VisitPending
  <2>3. deps' \in [Trans -> SUBSET Trans]
    BY <1>5, <2>2 DEF VisitPending, Dependees
  <2> QED
    BY <1>5, <2>3 DEF VisitPending, fixed, requestVars
<1>6. ASSUME NEW c \in Trans, Conflict(c) PROVE ServiceInv'
  BY <1>6 DEF Conflict, Walked, LeaveStore, At, Goto, ruleVars, fixed
<1>7. ASSUME NEW c \in Trans, AddVersion(c) PROVE ServiceInv'
  <2>1. call \in [put : BOOLEAN, key : Keys] /\ List \in Seq(AnyVersion)
    BY <1>7, WalkedList DEF AddVersion, Walked
  <2>2. CASE Mine(c) /\ Last.blob = NoBlob
    BY <1>7, <2>2 DEF AddVersion, ruleVars, fixed
  <2>3. CASE ~(Mine(c) /\ Last.blob = NoBlob)
    <3> DEFINE kept == IF Mine(c) THEN SubSeq(List, 1, Len(List) - 1) ELSE List
    <3>1. kept \in Seq(AnyVersion)
      BY <2>1 DEF Mine
    <3>2. List # <<>> => Last \in AnyVersion
      BY <2>1 DEF Last
    <3>3. NewBlob(c) \in AnyBlob
      BY <3>2, <2>1 DEF NewBlob, ValueBlob, AnyVersion, AnyBlob
    <3>4. VersionCreate(c, NewBlob(c)) \in AnyVersion
      BY <3>3 DEF VersionCreate, AnyVersion
    <3>5. Append(kept, VersionCreate(c, NewBlob(c))) \in Seq(AnyVersion)
      BY <3>1, <3>4
    <3>6. versions' \in [Keys -> Seq(AnyVersion)]
      BY <1>7, <2>3, <3>5 DEF AddVersion
    <3>7. /\ UNCHANGED <<ruleVars, fixed, req>> /\ cursor' = 0
          /\ pc[c] = "walk" /\ pc' = [pc EXCEPT ![c] = "reply"]
      BY <1>7, <2>3 DEF AddVersion, Walked, LeaveStore, At, Goto
    <3> QED
      BY <3>6, <3>7 DEF ruleVars, fixed
  <2> QED
    BY <2>2, <2>3
<1>8. ASSUME NEW c \in Trans, Reply(c) PROVE ServiceInv'
  BY <1>8 DEF Reply, At, Goto, ruleVars, fixed, requestVars
<1>9. ASSUME NEW c \in Trans, Commit(c) PROVE ServiceInv'
  BY <1>9 DEF Commit, Rule!Commit, At, Goto, fixed, requestVars, storeVars
<1>10. ASSUME NEW c \in Trans, AnswerCommit(c) PROVE ServiceInv'
  BY <1>10 DEF AnswerCommit, At, Goto, ruleVars, fixed, storeVars
<1>11. ASSUME NEW c \in Trans, EndOfInput(c) PROVE ServiceInv'
  BY <1>11 DEF EndOfInput, At, Goto, ruleVars, fixed, storeVars
<1> QED
  BY <1>1, <1>2, <1>3, <1>4, <1>5, <1>6, <1>7, <1>8, <1>9, <1>10, <1>11
     DEF Next, PutRequest, GetRequest

(* Every step of the sessions is, for the transactions, a decision that     *)
(* CommitRule allows or none at all: no transaction is used after it has    *)
(* committed (trans_abort would end the server), none depends on itself, on *)
(* a younger one or on one that has committed.                              *)
THEOREM SessionsKeepRule == Spec => [][Rule!RuleNext]_<<status, deps>>
<1>1. ServiceInv /\ [Next]_vars => [Rule!RuleNext]_<<status, deps>>
  <2> SUFFICES ASSUME ServiceInv, [Next]_vars, ~ UNCHANGED <<status, deps>>
               PROVE Rule!RuleNext
    OBVIOUS
  <2>1. PICK c \in Trans : VisitPending(c) \/ Commit(c)
    <3>1. ASSUME NEW c \in Trans, NEW p, NEW S, NEW l, EnterStore(c, p, S, l)
          PROVE UNCHANGED <<status, deps>>
      BY <3>1 DEF EnterStore, ruleVars
    <3> QED
      BY <3>1 DEF Next, PutRequest, GetRequest, CopyUnset, VisitCommitted, Conflict, AddVersion,
                  Reply, AnswerCommit, EndOfInput, vars, ruleVars
  <2>2. CASE Commit(c)
    BY <2>2 DEF Commit, Rule!RuleNext
  <2>3. CASE VisitPending(c)
    <3> DEFINE d == List[cursor].creator
    <3>2. d \in Trans
      BY <2>3, WalkedList DEF VisitPending, ServiceInv
    <3>3. id[d] < id[c]
      BY <2>3 DEF VisitPending, ServiceInv
    <3>4. /\ status[c] = "pending" /\ status[d] = "pending" /\ c # d
          /\ deps' = [deps EXCEPT ![c] = {} \cup {d}] /\ UNCHANGED status
      BY <2>3, <3>2, <3>3 DEF VisitPending, At, ServiceInv, Dependees
    <3>5. Rule!Depend(c, d)
      BY <3>4 DEF Rule!Depend
    <3> QED
      BY <3>2, <3>5 DEF Rule!RuleNext
  <2> QED
    BY <2>1, <2>2, <2>3
<1> QED
  BY <1>1, ServiceInvInit, ServiceInvNext, PTL DEF Spec

----------------------------------------------------------------------------
(* As long as every data packet of a session comes with a payload, its key  *)
(* and its value are different pointers, neither newer than *datap.         *)
PointersApart(l) == l.key # l.value /\ l.key <= l.datap /\ l.value <= l.datap

AnyLocals == [key : Int, value : Int, datap : Nat]

EndInv ==
  /\ ServiceInv
  /\ local \in [Trans -> AnyLocals]
  /\ bare \in [Trans -> BOOLEAN]
  /\ \A c \in Trans : bare[c] \/ PointersApart(local[c])
  /\ EndsOnlyBy

(* A data packet with its payload keeps them apart, and any data packet     *)
(* leaves pointers.                                                         *)
LEMMA ReceivedApart ==
  ASSUME NEW l \in AnyLocals, NEW payload \in BOOLEAN
  PROVE  /\ ReceivedKey(l, payload) \in AnyLocals /\ ReceivedValue(l, payload) \in AnyLocals
         /\ payload /\ PointersApart(l) => /\ PointersApart(ReceivedKey(l, payload))
                                           /\ PointersApart(ReceivedValue(l, payload))
  BY DEF AnyLocals, PointersApart, ReceivedKey, ReceivedValue, Received

(* No session begins with a bare packet, and none shares its pointers.      *)
LEMMA EndInvInit == Init => EndInv
  BY ServiceInvInit DEF Init, EndInv, AnyLocals, PointersApart, Locals, Unset, EndsOnlyBy

(* Whatever ends the server leaves its cause behind, since nothing happens  *)
(* after it.                                                                *)
LEMMA EndInvNext == EndInv /\ [Next]_vars => EndInv'
<1> SUFFICES ASSUME EndInv, [Next]_vars PROVE EndInv'
  OBVIOUS
<1>0. ServiceInv'
  BY ServiceInvNext DEF EndInv
<1> USE <1>0 DEF EndInv
<1>1. CASE UNCHANGED vars
  BY <1>1 DEF vars, ruleVars, fixed, requestVars, storeVars, historyVars, EndsOnlyBy
<1>2. ASSUME NEW c \in Trans, NEW put \in BOOLEAN, NEW p \in BOOLEAN, NEW q \in BOOLEAN, NEW l \in AnyLocals,
             EnterStore(c, put, {p, q}, l),
             p /\ q /\ PointersApart(local[c]) => PointersApart(l)
      PROVE EndInv'
  <2>1. /\ local' = [local EXCEPT ![c] = l] /\ end = "running" /\ end' = end
        /\ bare' = [bare EXCEPT ![c] = @ \/ FALSE \in {p, q}]
    BY <1>2 DEF EnterStore, At
  <2>2. FALSE \notin {p, q} => p /\ q
    OBVIOUS
  <2>3. \A d \in Trans : bare'[d] \/ PointersApart(local'[d])
    BY <1>2, <2>1, <2>2
  <2>4. bare' \in [Trans -> BOOLEAN]
    BY <2>1
  <2> QED
    BY <2>1, <2>3, <2>4 DEF EndsOnlyBy
<1>3. ASSUME NEW c \in Trans, PutRequest(c) PROVE EndInv'
  <2> PICK p \in BOOLEAN, q \in BOOLEAN :
        EnterStore(c, TRUE, {p, q}, ReceivedValue(ReceivedKey(local[c], p), q))
    BY <1>3 DEF PutRequest
  <2> DEFINE l == ReceivedKey(local[c], p)
  <2>1. l \in AnyLocals /\ (p /\ PointersApart(local[c]) => PointersApart(l))
    BY ReceivedApart
  <2>2. /\ ReceivedValue(l, q) \in AnyLocals
        /\ q /\ PointersApart(l) => PointersApart(ReceivedValue(l, q))
    BY <2>1, ReceivedApart
  <2> QED
    BY <1>2, <2>1, <2>2
<1>4. ASSUME NEW c \in Trans, GetRequest(c) PROVE EndInv'
  <2> PICK p \in BOOLEAN : EnterStore(c, FALSE, {p}, ReceivedKey(local[c], p))
    BY <1>4 DEF GetRequest
  <2>1. {p} = {p, p}
    OBVIOUS
  <2> QED
    BY <1>2, <2>1, ReceivedApart
<1>5. ASSUME NEW c \in Trans, CopyUnset(c) PROVE EndInv'
  <2>1. UNCHANGED local /\ end' = "no payload" /\ bare' = [bare EXCEPT ![c] = TRUE]
    BY <1>5 DEF CopyUnset, requestVars
  <2> QED
    BY <2>1 DEF EndsOnlyBy
<1>6. ASSUME NEW c \in Trans, VisitCommitted(c) PROVE EndInv'
  <2>1. UNCHANGED <<local, bare>> /\ end = "running"
    BY <1>6 DEF VisitCommitted, requestVars, historyVars, At
  <2>2. CASE UNCHANGED end
    BY <2>1, <2>2 DEF EndsOnlyBy
  <2>3. CASE ~ UNCHANGED end
    <3>0. cursor > 1 /\ cursor <= Len(List)
      BY <1>6, <2>3 DEF VisitCommitted
    <3>1. end' = "no blob" /\ UNCHANGED versions /\ List[cursor - 1].blob = NoBlob
      BY <1>6, <2>3 DEF VisitCommitted
    <3>2. At(c, "walk")
      BY <1>6 DEF VisitCommitted
    <3>3. call.key \in Keys /\ cursor \in Nat /\ List \in Seq(AnyVersion)
      BY <3>2, WalkedList
    <3>4. cursor - 1 \in 1..Len(List)
      BY <3>0, <3>3
    <3>5. \E k \in Keys : \E i \in 1..Len(versions[k]) : versions[k][i].blob = NoBlob
      BY <3>1, <3>3, <3>4 DEF List
    <3> QED
      BY <2>1, <3>1, <3>5 DEF EndsOnlyBy
  <2> QED
    BY <2>2, <2>3
<1>7. ASSUME NEW c \in Trans, VisitPending(c) PROVE EndInv'
  BY <1>7 DEF VisitPending, requestVars, historyVars, At, EndsOnlyBy
<1>8. ASSUME NEW c \in Trans, Conflict(c) PROVE EndInv'
  BY <1>8 DEF Conflict, Walked, historyVars, At, EndsOnlyBy
<1>9. ASSUME NEW c \in Trans, AddVersion(c) PROVE EndInv'
  <2>1. UNCHANGED <<local, bare>> /\ end = "running"
    BY <1>9 DEF AddVersion, Walked, At
  <2>2. CASE UNCHANGED end
    BY <2>1, <2>2 DEF EndsOnlyBy
  <2>3. CASE ~ UNCHANGED end
    <3>0. List # <<>>
      BY <1>9, <2>3 DEF AddVersion, Mine
    <3>1. end' = "no blob" /\ UNCHANGED versions /\ Last.blob = NoBlob
      BY <1>9, <2>3 DEF AddVersion, Mine
    <3>2. At(c, "walk")
      BY <1>9 DEF AddVersion, Walked
    <3>3. call.key \in Keys /\ List \in Seq(AnyVersion)
      BY <3>2, WalkedList
    <3>4. Len(List) \in 1..Len(List)
      BY <3>0, <3>3
    <3>5. \E k \in Keys : \E i \in 1..Len(versions[k]) : versions[k][i].blob = NoBlob
      BY <3>1, <3>3, <3>4 DEF List, Last
    <3> QED
      BY <2>1, <3>1, <3>5 DEF EndsOnlyBy
  <2> QED
    BY <2>2, <2>3
<1>10. ASSUME NEW c \in Trans, Reply(c) PROVE EndInv'
  BY <1>10 DEF Reply, Send, requestVars, historyVars, At, EndsOnlyBy
<1>11. ASSUME NEW c \in Trans, Commit(c) PROVE EndInv'
  BY <1>11 DEF Commit, requestVars, storeVars, historyVars, At, EndsOnlyBy
<1>12. ASSUME NEW c \in Trans, local' = [local EXCEPT ![c] = Locals],
              NEW l \in AnyLocals, Free(l) \/ end' = "pipe",
              bare' \in [Trans -> BOOLEAN], \A d \in Trans : bare[d] => bare'[d],
              bare'[c] \/ PointersApart(l)
       PROVE EndInv'
  <2>1. local' \in [Trans -> AnyLocals] /\ PointersApart(local'[c])
    BY <1>12 DEF Locals, Unset, AnyLocals, PointersApart
  <2>2. \A d \in Trans : bare'[d] \/ PointersApart(local'[d])
    BY <1>12, <2>1
  <2>3. end' \in {"running", "pipe"} \/ (end' = "double free" /\ bare'[c])
    BY <1>12 DEF Free, PointersApart
  <2> QED
    BY <1>12, <2>1, <2>2, <2>3 DEF EndsOnlyBy
<1>13. ASSUME NEW c \in Trans, AnswerCommit(c) PROVE EndInv'
  BY <1>12, <1>13 DEF AnswerCommit, historyVars
<1>14. ASSUME NEW c \in Trans, EndOfInput(c) PROVE EndInv'
  <2>1. local' = [local EXCEPT ![c] = Locals]
    BY <1>14 DEF EndOfInput
  <2>2. CASE Free(local[c]) /\ UNCHANGED bare
    BY <1>12, <2>1, <2>2
  <2>3. ASSUME NEW payload \in BOOLEAN, Free(ReceivedKey(local[c], payload)),
               bare' = [bare EXCEPT ![c] = @ \/ ~payload]
        PROVE EndInv'
    <3>1. bare'[c] \/ PointersApart(ReceivedKey(local[c], payload))
      BY <2>3, ReceivedApart
    <3> QED
      BY <1>12, <2>1, <2>3, <3>1, ReceivedApart
  <2> QED
    BY <1>14, <2>2, <2>3 DEF EndOfInput
<1> QED
  BY <1>1, <1>3, <1>4, <1>5, <1>6, <1>7, <1>8, <1>9, <1>10, <1>11, <1>13, <1>14 DEF Next

(* The server ends only for a data packet without payload or a version      *)
(* without a blob, unless a client has left: with well-behaved clients no   *)
(* order of requests makes it free a pointer twice or follow a NULL one.    *)
THEOREM EndsOnlyByCauses == Spec => []EndsOnlyBy
<1>1. EndInv => EndsOnlyBy
  BY DEF EndInv
<1> QED
  BY <1>1, EndInvInit, EndInvNext, PTL DEF Spec

----------------------------------------------------------------------------
(* What the sessions leave behind: every version is of a key its creator    *)
(* has operated on, whoever is in the store operates on the key of its      *)
(* call, and a dependee is older.                                           *)
Places(k) == 1..Len(versions[k])

Creator(k, i) == versions[k][i].creator

UsedInv ==
  /\ ServiceInv
  /\ used \in [Trans -> SUBSET Keys]
  /\ reads \in [Trans -> SUBSET (AnyBlob \ {NoBlob})]
  /\ \A c \in Trans : IsFiniteSet(used[c])
  /\ \A k \in Keys : \A i \in Places(k) : k \in used[Creator(k, i)]
  /\ \A c \in Trans : pc[c] = "walk" => call.key \in used[c]
  /\ \A c \in Trans : \A d \in deps[c] : id[d] < id[c]

(* The end of a list from a place on, ...                                   *)
LEMMA ListFrom ==
  ASSUME NEW S, NEW L \in Seq(S), NEW n \in 1..Len(L)
  PROVE  /\ SubSeq(L, n, Len(L)) \in Seq(S)
         /\ Len(SubSeq(L, n, Len(L))) = Len(L) - n + 1
         /\ \A i \in 1..(Len(L) - n + 1) : SubSeq(L, n, Len(L))[i] = L[i + n - 1]
  OBVIOUS

(* ... a list with an element in the place of its last one, ...             *)
LEMMA ListReplaced ==
  ASSUME NEW S, NEW L \in Seq(S), L # <<>>, NEW v \in S
  PROVE  LET M == Append(SubSeq(L, 1, Len(L) - 1), v)
         IN /\ M \in Seq(S) /\ Len(M) = Len(L) /\ Len(L) \in Nat \ {0} /\ M[Len(L)] = v
            /\ \A i \in 1..(Len(L) - 1) : M[i] = L[i]
<1>1. Len(L) \in Nat \ {0}
  OBVIOUS
<1>2. /\ SubSeq(L, 1, Len(L) - 1) \in Seq(S) /\ Len(SubSeq(L, 1, Len(L) - 1)) = Len(L) - 1
      /\ \A i \in 1..(Len(L) - 1) : SubSeq(L, 1, Len(L) - 1)[i] = L[i]
  BY <1>1
<1> QED
  BY <1>1, <1>2

(* ... and one with an element more.                                        *)
LEMMA ListExtended ==
  ASSUME NEW S, NEW L \in Seq(S), NEW v \in S
  PROVE  LET M == Append(L, v)
         IN /\ M \in Seq(S) /\ Len(M) = Len(L) + 1 /\ Len(L) \in Nat /\ M[Len(L) + 1] = v
            /\ \A i \in 1..Len(L) : M[i] = L[i]
  OBVIOUS

(* What a step of AddVersion makes of the list it has walked: the creators  *)
(* in it stay, and the thread's own version is the last one.                *)
LEMMA AddedVersion ==
  ASSUME ServiceInv, NEW c \in Trans, AddVersion(c), ~(Mine(c) /\ Last.blob = NoBlob),
         NEW k0, k0 = call.key,
         NEW n, n = IF Mine(c) THEN Len(List) ELSE Len(List) + 1
  PROVE  /\ k0 \in Keys /\ n \in Nat \ {0} /\ cursor > Len(List) /\ Len(List) \in Nat
         /\ List # <<>> => Last = List[Len(List)]
         /\ Mine(c) <=> List # <<>> /\ Last.creator = c
         /\ Places(k0) = 1..Len(List) /\ Places(k0)' = 1..n
         /\ \A i \in 1..Len(List) : Creator(k0, i)' = Creator(k0, i)
         /\ \A i \in 1..(n - 1) : versions'[k0][i] = versions[k0][i]
         /\ versions'[k0][n] = [creator |-> c, blob |-> NewBlob(c)]
         /\ \A k \in Keys \ {k0} : versions'[k] = versions[k]
<1> DEFINE kept == IF Mine(c) THEN SubSeq(List, 1, Len(List) - 1) ELSE List
           v == VersionCreate(c, NewBlob(c))
<1>0. At(c, "walk") /\ cursor > Len(List)
  BY DEF AddVersion, Walked
<1>1. k0 \in Keys /\ List \in Seq(AnyVersion)
  BY <1>0, WalkedList
<1>2. Mine(c) <=> List # <<>> /\ Last.creator = c
  BY DEF Mine
<1>3. v \in AnyVersion
  <2>1. List # <<>> => Last \in AnyVersion
    BY <1>1 DEF Last
  <2>2. NewBlob(c) \in AnyBlob
    BY <2>1 DEF NewBlob, ValueBlob, AnyVersion, AnyBlob, ServiceInv
  <2> QED
    BY <2>2 DEF VersionCreate, AnyVersion
<1>4. versions' = [versions EXCEPT ![k0] = Append(kept, v)]
  BY DEF AddVersion
<1>5. versions'[k0] = Append(kept, v) /\ \A k \in Keys \ {k0} : versions'[k] = versions[k]
  BY <1>1, <1>4 DEF ServiceInv
<1>6. /\ n \in Nat \ {0} /\ Len(List) \in Nat
      /\ Len(versions'[k0]) = n /\ versions'[k0][n] = v
      /\ \A i \in 1..(n - 1) : versions'[k0][i] = List[i]
  <2>1. CASE Mine(c)
    BY <1>1, <1>2, <1>3, <1>5, <2>1, ListReplaced
  <2>2. CASE ~ Mine(c)
    <3>1. n = Len(List) + 1 /\ kept = List
      BY <2>2
    <3>2. /\ Len(Append(List, v)) = Len(List) + 1 /\ Len(List) \in Nat
          /\ Append(List, v)[Len(List) + 1] = v
          /\ \A i \in 1..Len(List) : Append(List, v)[i] = List[i]
      BY <1>1, <1>3, ListExtended
    <3> QED
      BY <1>5, <3>1, <3>2
  <2> QED
    BY <2>1, <2>2
<1>7. \A i \in 1..Len(List) : versions'[k0][i].creator = List[i].creator
  <2> SUFFICES ASSUME NEW i \in 1..Len(List) PROVE versions'[k0][i].creator = List[i].creator
    OBVIOUS
  <2>1. CASE i \in 1..(n - 1)
    BY <1>6, <2>1
  <2>2. CASE i \notin 1..(n - 1)
    <3>1. Mine(c) /\ i = n /\ i = Len(List)
      BY <1>6, <2>2
    <3> QED
      BY <1>2, <1>6, <3>1 DEF Last, VersionCreate
  <2> QED
    BY <2>1, <2>2
<1>8. /\ Places(k0) = 1..Len(List) /\ Places(k0)' = 1..n
      /\ \A i \in 1..Len(List) : Creator(k0, i)' = Creator(k0, i)
  BY <1>6, <1>7 DEF Places, Creator, List
<1>9. /\ \A i \in 1..(n - 1) : versions'[k0][i] = versions[k0][i]
      /\ versions'[k0][n] = [creator |-> c, blob |-> NewBlob(c)]
  BY <1>6 DEF List, VersionCreate
<1>10. List # <<>> => Last = List[Len(List)]
  BY DEF Last
<1> QED
  BY <1>0, <1>1, <1>2, <1>5, <1>6, <1>8, <1>9, <1>10

(* What the disposal of a version makes of the list a thread walks: the     *)
(* positions before the cursor are gone.                                    *)
LEMMA DroppedVersions ==
  ASSUME ServiceInv, NEW c \in Trans, VisitCommitted(c), versions' # versions,
         NEW k0, k0 = call.key, NEW n, n = cursor
  PROVE  /\ k0 \in Keys /\ n \in Nat /\ n > 1 /\ cursor' = 2
         /\ Places(k0) = 1..Len(List) /\ n <= Len(List) /\ Len(List) \in Nat
         /\ Places(k0)' = 1..(Len(List) - n + 1)
         /\ \A i \in Places(k0)' : versions'[k0][i] = versions[k0][i + n - 1]
         /\ status[Creator(k0, n)] = "committed"
         /\ status[Creator(k0, n - 1)] = "committed"
         /\ List[n - 1].blob # NoBlob
         /\ blob' = VersionDispose(blob, List[n - 1])
         /\ \A k \in Keys \ {k0} : versions'[k] = versions[k]
<1>0. /\ At(c, "walk") /\ n <= Len(List) /\ n > 1 /\ cursor' = 2
      /\ versions' = [versions EXCEPT ![k0] = SubSeq(@, n, Len(@))]
  BY DEF VisitCommitted
<1>1. /\ status[List[n].creator] = "committed" /\ status[List[n - 1].creator] = "committed"
      /\ List[n - 1].blob # NoBlob /\ blob' = VersionDispose(blob, List[n - 1])
  BY DEF VisitCommitted
<1>2. k0 \in Keys /\ n \in Nat /\ List \in Seq(AnyVersion) /\ Len(List) \in Nat
  BY <1>0, WalkedList
<1>3. versions'[k0] = SubSeq(List, n, Len(List)) /\ \A k \in Keys \ {k0} : versions'[k] = versions[k]
  BY <1>0, <1>2 DEF ServiceInv, List
<1>4. /\ Len(versions'[k0]) = Len(List) - n + 1
      /\ \A i \in 1..(Len(List) - n + 1) : versions'[k0][i] = List[i + n - 1]
  <2>1. n \in 1..Len(List)
    BY <1>0, <1>2
  <2> QED
    BY <1>2, <1>3, <2>1, ListFrom
<1>5. /\ Places(k0) = 1..Len(List) /\ Places(k0)' = 1..(Len(List) - n + 1)
      /\ \A i \in Places(k0)' : versions'[k0][i] = versions[k0][i + n - 1]
  BY <1>4 DEF Places, List
<1>6. status[Creator(k0, n)] = "committed" /\ status[Creator(k0, n - 1)] = "committed"
  BY <1>1 DEF Creator, List
<1> QED
  BY <1>0, <1>1, <1>2, <1>3, <1>5, <1>6

(* Every version has a connection for its creator.                          *)
LEMMA CreatorsKnown ==
  ASSUME ServiceInv
  PROVE  \A k \in Keys : \A i \in Places(k) : Creator(k, i) \in Trans /\ versions[k][i] \in AnyVersion
<1> SUFFICES ASSUME NEW k \in Keys, NEW i \in Places(k)
             PROVE Creator(k, i) \in Trans /\ versions[k][i] \in AnyVersion
  OBVIOUS
<1>1. versions[k] \in Seq(AnyVersion)
  BY DEF ServiceInv
<1>2. versions[k][i] \in AnyVersion
  BY <1>1 DEF Places
<1> QED
  BY <1>2 DEF AnyVersion, Creator

(* It holds before the first request, and after every step.                 *)
LEMMA UsedInvInit == Init => UsedInv
<1> SUFFICES ASSUME Init PROVE UsedInv
  OBVIOUS
<1>1. ServiceInv
  BY ServiceInvInit
<1>2. /\ \A k \in Keys : Places(k) = 1..0 /\ 1..0 = {}
      /\ \A c \in Trans : used[c] = {} /\ reads[c] = {} /\ deps[c] = {} /\ pc[c] = "request"
  BY DEF Init, Places
<1>3. used \in [Trans -> SUBSET Keys] /\ reads \in [Trans -> SUBSET (AnyBlob \ {NoBlob})]
  BY DEF Init
<1>4. \A c \in Trans : IsFiniteSet(used[c])
  BY <1>2, FS_EmptySet
<1> QED
  BY <1>1, <1>2, <1>3, <1>4 DEF UsedInv

(* A transaction operates on keys before it leaves versions of them.        *)
LEMMA UsedInvNext == UsedInv /\ [Next]_vars => UsedInv'
<1> SUFFICES ASSUME UsedInv, [Next]_vars PROVE UsedInv'
  OBVIOUS
<1>0. ServiceInv /\ ServiceInv'
  BY ServiceInvNext DEF UsedInv
<1>1. ASSUME UNCHANGED <<versions, used, reads, deps, id>>,
             \A d \in Trans : pc'[d] = "walk" => call'.key \in used[d]
      PROVE UsedInv'
  <2>1. \A k, i : (i \in Places(k))' <=> i \in Places(k)
    BY <1>1 DEF Places
  <2>2. \A k, i : Creator(k, i)' = Creator(k, i)
    BY <1>1 DEF Creator
  <2> QED
    BY <1>0, <1>1, <2>1, <2>2 DEF UsedInv
<1>2. CASE UNCHANGED vars
  BY <1>1, <1>2 DEF UsedInv, vars, ruleVars, fixed, requestVars, storeVars, historyVars
<1>3. ASSUME NEW c \in Trans, NEW p, NEW S, NEW l, EnterStore(c, p, S, l)
      PROVE UsedInv'
  <2>0. PICK k0 \in Keys : /\ call' = [put |-> p, key |-> k0]
                           /\ used' = [used EXCEPT ![c] = @ \cup {k0}]
    BY <1>3 DEF EnterStore
  <2>1. /\ UNCHANGED <<versions, reads, deps, id>> /\ mapLock = NoThread
        /\ pc' = [pc EXCEPT ![c] = "walk"]
    BY <1>3 DEF EnterStore, ruleVars, fixed, Goto
  <2>2. \A d \in Trans : used[d] \subseteq used'[d] /\ IsFiniteSet(used'[d])
    <3>1. IsFiniteSet(used[c] \cup {k0})
      BY FS_AddElement DEF UsedInv
    <3>2. /\ used'[c] = used[c] \cup {k0}
          /\ \A d \in Trans \ {c} : used'[d] = used[d]
      BY <2>0 DEF UsedInv
    <3> QED
      BY <3>1, <3>2 DEF UsedInv
  <2>3. \A d \in Trans : pc'[d] = "walk" => d = c
    <3>1. \A d \in Trans : pc[d] = "walk" => mapLock = d
      BY <1>0 DEF ServiceInv
    <3>2. NoThread \notin Trans
      BY ServiceAssumption
    <3>3. \A d \in Trans \ {c} : pc'[d] = pc[d]
      BY <1>0, <2>1 DEF ServiceInv
    <3> QED
      BY <2>1, <3>1, <3>2, <3>3
  <2>4. \A k, i : ((i \in Places(k))' <=> i \in Places(k)) /\ Creator(k, i)' = Creator(k, i)
    BY <2>1 DEF Places, Creator
  <2>5. \A k \in Keys : \A i \in Places(k) : Creator(k, i) \in Trans
    BY <1>0, CreatorsKnown
  <2>6. used' \in [Trans -> SUBSET Keys] /\ call'.key \in used'[c]
    BY <2>0 DEF UsedInv
  <2>7. \A k \in Keys : \A i \in Places(k) : k \in used'[Creator(k, i)]
    BY <2>2, <2>5 DEF UsedInv
  <2> QED
    BY <1>0, <2>1, <2>2, <2>3, <2>4, <2>6, <2>7 DEF UsedInv
<1>4. ASSUME NEW c \in Trans, VisitCommitted(c) PROVE UsedInv'
  <2>1. UNCHANGED <<used, reads, deps, id, pc, call>>
    BY <1>4 DEF VisitCommitted, ruleVars, fixed, historyVars
  <2>2. CASE UNCHANGED versions
    BY <1>1, <2>1, <2>2 DEF UsedInv
  <2>3. CASE versions' # versions
    <3> DEFINE k0 == call.key
               n == cursor
    <3>1. /\ k0 \in Keys /\ n \in Nat /\ n > 1 /\ Len(List) \in Nat
          /\ Places(k0) = 1..Len(List) /\ n <= Len(List)
          /\ \A k \in Keys \ {k0} : versions'[k] = versions[k]
      BY <1>0, <1>4, <2>3, DroppedVersions
    <3>2. /\ \A i : i \in 1..Len(versions'[k0]) <=> i \in 1..(Len(List) - n + 1)
          /\ \A i \in 1..(Len(List) - n + 1) : versions'[k0][i] = versions[k0][i + n - 1]
      <4> SUFFICES ASSUME NEW k1, k1 = k0
                   PROVE /\ \A i : i \in 1..Len(versions'[k1]) <=> i \in 1..(Len(List) - n + 1)
                         /\ \A i \in 1..(Len(List) - n + 1) : versions'[k1][i] = versions[k1][i + n - 1]
        OBVIOUS
      <4> QED
        BY <1>0, <1>4, <2>3, DroppedVersions DEF Places
    <3>3. ASSUME NEW k \in Keys, NEW i \in 1..Len(versions'[k])
          PROVE \E j \in Places(k) : versions'[k][i] = versions[k][j]
      <4>1. CASE k = k0
        <5>1. i + n - 1 \in Places(k) /\ versions'[k][i] = versions[k][i + n - 1]
          BY <3>1, <3>2, <3>3, <4>1
        <5> QED
          BY <5>1
      <4>2. CASE k # k0
        BY <3>1, <3>3, <4>2 DEF Places
      <4> QED
        BY <4>1, <4>2
    <3>4. \A k \in Keys : \A i \in 1..Len(versions'[k]) : k \in used[versions'[k][i].creator]
      BY <3>3 DEF UsedInv, Creator
    <3> QED
      BY <1>0, <2>1, <3>4 DEF UsedInv, Places, Creator
  <2> QED
    BY <2>2, <2>3
<1>5. ASSUME NEW c \in Trans, VisitPending(c) PROVE UsedInv'
  <2> DEFINE d == List[cursor].creator
  <2>1. /\ UNCHANGED <<used, reads, id, pc, call, versions>>
        /\ deps' = [deps EXCEPT ![c] = IF id[d] < id[c] THEN {d} ELSE @]
    BY <1>5 DEF VisitPending, fixed, historyVars, Dependees
  <2>2. \A e \in Trans : \A f \in deps'[e] : id[f] < id[e]
    BY <2>1 DEF UsedInv, ServiceInv
  <2> QED
    BY <1>0, <2>1, <2>2 DEF UsedInv, Places, Creator
<1>6. ASSUME NEW c \in Trans, AddVersion(c) PROVE UsedInv'
  <2>1. UNCHANGED <<used, deps, id>> /\ At(c, "walk")
    BY <1>6 DEF AddVersion, ruleVars, fixed, Walked
  <2>2. CASE Mine(c) /\ Last.blob = NoBlob
    BY <1>1, <1>6, <2>1, <2>2 DEF AddVersion, UsedInv
  <2>3. CASE ~(Mine(c) /\ Last.blob = NoBlob)
    <3> PICK k0 : k0 = call.key
      OBVIOUS
    <3> PICK n : n = IF Mine(c) THEN Len(List) ELSE Len(List) + 1
      OBVIOUS
    <3>1. /\ k0 \in Keys /\ n \in Nat \ {0} /\ Len(List) \in Nat
          /\ Places(k0) = 1..Len(List) /\ Places(k0)' = 1..n
          /\ \A i \in 1..Len(List) : Creator(k0, i)' = Creator(k0, i)
          /\ versions'[k0][n] = [creator |-> c, blob |-> NewBlob(c)]
          /\ \A k \in Keys \ {k0} : versions'[k] = versions[k]
      BY <1>0, <1>6, <2>3, AddedVersion
    <3>2. /\ pc' = [pc EXCEPT ![c] = "reply"] /\ mapLock = c
          /\ reads' = [reads EXCEPT ![c] = @ \cup (IF call.put THEN {} ELSE {NewBlob(c)} \ {NoBlob})]
      BY <1>0, <1>6, <2>1, <2>3 DEF AddVersion, LeaveStore, Goto, ServiceInv, At
    <3>3. \A d \in Trans : pc'[d] # "walk"
      BY <1>0, <3>2 DEF ServiceInv
    <3>4. k0 \in used[c]
      BY <2>1 DEF UsedInv, At
    <3>5. ASSUME NEW k \in Keys, NEW i, (i \in Places(k))'
          PROVE k \in used[Creator(k, i)']
      <4>1. CASE k # k0
        <5>1. i \in Places(k) /\ Creator(k, i)' = Creator(k, i)
          BY <3>1, <3>5, <4>1 DEF Places, Creator
        <5> QED
          BY <5>1 DEF UsedInv
      <4>2. CASE k = k0 /\ i \in 1..Len(List)
        BY <3>1, <4>2 DEF UsedInv
      <4>3. CASE k = k0 /\ i \notin 1..Len(List)
        <5>1. i = n
          BY <3>1, <3>5, <4>3
        <5>2. Creator(k, i)' = c
          BY <3>1, <4>3, <5>1 DEF Creator
        <5> QED
          BY <3>4, <4>3, <5>2
      <4> QED
        BY <4>1, <4>2, <4>3
    <3>6. ~call.put => NewBlob(c) \in AnyBlob
      <4>1. List \in Seq(AnyVersion)
        BY <1>0, <2>1, WalkedList
      <4>2. List # <<>> => Last \in AnyVersion
        BY <4>1 DEF Last
      <4> QED
        BY <4>2 DEF NewBlob, AnyVersion, AnyBlob
    <3>7. reads' \in [Trans -> SUBSET (AnyBlob \ {NoBlob})]
      BY <3>2, <3>6 DEF UsedInv
    <3> QED
      BY <1>0, <2>1, <3>3, <3>5, <3>7 DEF UsedInv
  <2> QED
    BY <2>2, <2>3
<1>7. ASSUME NEW c \in Trans, Conflict(c) PROVE UsedInv'
  <2>1. /\ UNCHANGED <<versions, used, reads, deps, id>>
        /\ pc' = [pc EXCEPT ![c] = "reply"] /\ mapLock = c
    BY <1>0, <1>7 DEF Conflict, Walked, LeaveStore, Goto, ServiceInv, At, ruleVars, fixed, historyVars
  <2>2. \A d \in Trans : pc'[d] # "walk"
    BY <1>0, <2>1 DEF ServiceInv
  <2> QED
    BY <1>1, <2>1, <2>2
<1>8. ASSUME NEW c \in Trans,
             CopyUnset(c) \/ Reply(c) \/ Commit(c) \/ AnswerCommit(c) \/ EndOfInput(c)
      PROVE UsedInv'
  <2>1. UNCHANGED <<versions, used, reads, deps, id, call>>
    BY <1>8 DEF CopyUnset, Reply, Commit, Rule!Commit, AnswerCommit, EndOfInput,
                ruleVars, fixed, storeVars, historyVars
  <2>2. \A d \in Trans : pc'[d] = "walk" => pc[d] = "walk"
    BY <1>0, <1>8 DEF CopyUnset, Reply, Commit, AnswerCommit, EndOfInput, Goto, ServiceInv
  <2> QED
    BY <1>1, <2>1, <2>2 DEF UsedInv
<1> QED
  BY <1>2, <1>3, <1>4, <1>5, <1>6, <1>7, <1>8 DEF Next, PutRequest, GetRequest

(* Everyone has kept to one key, and ids differ. *)
OneKeyEach == \A c \in Trans : \A k, l \in used[c] : k = l

DistinctIds == \A c, d \in Trans : c # d => id[c] # id[d]

(* The versions of a key are in the order of their creators' ids, ... *)
Ordered ==
  \A k \in Keys : \A i, j \in Places(k) : i < j => id[Creator(k, i)] < id[Creator(k, j)]

(* ... the committed ones come first, ... *)
CommittedFirst ==
  \A k \in Keys : \A i, j \in Places(k) :
    i < j /\ status[Creator(k, j)] = "committed" => status[Creator(k, i)] = "committed"

(* ... and a version depends on what comes before it: where an earlier one   *)
(* is pending, its creator, or a later one's, is a dependee.                *)
DependsOnEarlier ==
  \A k \in Keys : \A i, j \in Places(k) :
    i < j /\ pc[Creator(k, j)] # "walk" /\ status[Creator(k, i)] = "pending"
    => \E m \in i..(j - 1) : Creator(k, m) \in deps[Creator(k, j)]

(* A thread that walks the list has a dependee for the part it has seen. *)
DependsOnSeen ==
  \A c \in Trans : pc[c] = "walk" =>
    \A i \in Places(call.key) :
      i < cursor /\ id[Creator(call.key, i)] < id[c] /\ status[Creator(call.key, i)] = "pending"
      => \E m \in Places(call.key) : i <= m /\ Creator(call.key, m) \in deps[c]

(* The blob of a version was written by its creator, by one that has        *)
(* committed, or by that of an earlier version.                             *)
WrittenEarlier(k, i, d) ==
  d = Creator(k, i) \/ status[d] = "committed" \/ \E h \in 1..(i - 1) : Creator(k, h) = d

BlobsFromEarlier ==
  \A k \in Keys : \A i \in Places(k) :
    versions[k][i].blob # NoBlob => WrittenEarlier(k, i, versions[k][i].blob[1])

(* The writer of a blob that has been read comes before the reader. *)
ReadsFromEarlier ==
  \A c \in Trans : \A b \in reads[c] :
    \/ b[1] = c
    \/ status[b[1]] = "committed"
    \/ \E k \in Keys : \E h, i \in Places(k) : h < i /\ Creator(k, h) = b[1] /\ Creator(k, i) = c

Chained == /\ Ordered /\ CommittedFirst /\ DependsOnEarlier
           /\ DependsOnSeen /\ BlobsFromEarlier /\ ReadsFromEarlier

ChainInv == UsedInv /\ (OneKeyEach /\ DistinctIds => Chained)

(* Lists are empty at first. *)
LEMMA ChainInvInit == Init => ChainInv
<1> SUFFICES ASSUME Init PROVE ChainInv
  OBVIOUS
<1>1. /\ \A k \in Keys : Places(k) = {}
      /\ \A c \in Trans : reads[c] = {} /\ pc[c] = "request"
  BY DEF Init, Places
<1> QED
  BY <1>1, UsedInvInit DEF ChainInv, Chained, Ordered, CommittedFirst, DependsOnEarlier,
                           DependsOnSeen, BlobsFromEarlier, ReadsFromEarlier

(* A step that leaves the lists and the transactions alone. *)
LEMMA ChainedSameLists ==
  ASSUME Chained, UNCHANGED <<versions, status, deps, id, reads>>,
         \A c \in Trans : pc[c] = "walk" => pc'[c] = "walk", ServiceInv, DependsOnSeen'
  PROVE  Chained'
<1>1. \A k, i : ((i \in Places(k))' <=> i \in Places(k)) /\ Creator(k, i)' = Creator(k, i)
  BY DEF Places, Creator
<1>2. DependsOnEarlier'
  BY <1>1, CreatorsKnown DEF DependsOnEarlier, Chained
<1>3. Ordered' /\ CommittedFirst' /\ BlobsFromEarlier' /\ ReadsFromEarlier'
  BY <1>1 DEF Ordered, CommittedFirst, BlobsFromEarlier, ReadsFromEarlier, WrittenEarlier, Chained
<1> QED
  BY <1>2, <1>3 DEF Chained

(* A COMMIT: what comes before the versions of the transaction has          *)
(* committed, since its dependees have.                                     *)
LEMMA ChainedCommit ==
  ASSUME Chained, UsedInv, NEW c \in Trans, Commit(c)
  PROVE  Chained'
<1>1. /\ UNCHANGED <<versions, deps, id, reads, call, cursor>>
      /\ status' = [status EXCEPT ![c] = "committed"]
      /\ pc' = [pc EXCEPT ![c] = "answer"] /\ pc[c] = "request"
      /\ \A d \in deps[c] : status[d] = "committed"
  BY DEF Commit, Rule!Commit, At, Goto, fixed, storeVars, historyVars
<1>2. \A k, i : ((i \in Places(k))' <=> i \in Places(k)) /\ Creator(k, i)' = Creator(k, i)
  BY <1>1 DEF Places, Creator
<1>3. \A k \in Keys : \A i \in Places(k) : Creator(k, i) \in Trans
  BY CreatorsKnown DEF UsedInv
<1>4. /\ \A d \in Trans : status[d] = "committed" => status'[d] = "committed"
      /\ \A d \in Trans : status'[d] = "pending" => status[d] = "pending"
      /\ \A d \in Trans : pc'[d] = "walk" <=> pc[d] = "walk"
      /\ status'[c] = "committed" /\ \A d \in Trans \ {c} : status'[d] = status[d]
      /\ \A d \in Trans : status[d] \in {"pending", "committed"}
  BY <1>1 DEF UsedInv, ServiceInv
<1>5. CommittedFirst'
  <2> SUFFICES ASSUME NEW k \in Keys, NEW i \in Places(k), NEW j \in Places(k), i < j,
                      status'[Creator(k, j)] = "committed"
               PROVE  status'[Creator(k, i)] = "committed"
    BY <1>2 DEF CommittedFirst
  <2>1. CASE Creator(k, j) # c
    BY <1>3, <1>4, <2>1 DEF Chained, CommittedFirst
  <2>2. CASE Creator(k, j) = c /\ status[Creator(k, i)] = "pending"
    <3>1. PICK m \in i..(j - 1) : Creator(k, m) \in deps[c]
      BY <1>1, <2>2 DEF Chained, DependsOnEarlier
    <3>2. m \in Places(k) /\ (i = m \/ i < m)
      BY DEF Places
    <3>3. status[Creator(k, i)] = "committed"
      BY <1>1, <3>1, <3>2 DEF Chained, CommittedFirst
    <3> QED
      BY <2>2, <3>3
  <2> QED
    BY <1>3, <1>4, <2>1, <2>2
<1>6. Ordered'
  BY <1>1, <1>2 DEF Chained, Ordered
<1>7. DependsOnEarlier'
  BY <1>1, <1>2, <1>3, <1>4 DEF Chained, DependsOnEarlier
<1>8. DependsOnSeen'
  <2> SUFFICES ASSUME NEW d \in Trans, pc[d] = "walk",
                      NEW i \in Places(call.key), i < cursor,
                      id[Creator(call.key, i)] < id[d],
                      status'[Creator(call.key, i)] = "pending"
               PROVE  \E m \in Places(call.key) : i <= m /\ Creator(call.key, m) \in deps[d]
    BY <1>1, <1>4 DEF DependsOnSeen, Places, Creator
  <2>1. call.key \in Keys
    BY DEF UsedInv, ServiceInv
  <2>2. status[Creator(call.key, i)] = "pending"
    BY <1>3, <1>4, <2>1
  <2> QED
    BY <2>2 DEF Chained, DependsOnSeen
<1>9. BlobsFromEarlier'
  <2> SUFFICES ASSUME NEW k \in Keys, NEW i \in Places(k), versions[k][i].blob # NoBlob
               PROVE  WrittenEarlier(k, i, versions[k][i].blob[1])'
    BY <1>1, <1>2 DEF BlobsFromEarlier
  <2>1. versions[k][i].blob[1] \in Trans
    BY CreatorsKnown DEF UsedInv, AnyVersion, AnyBlob
  <2>2. WrittenEarlier(k, i, versions[k][i].blob[1])
    BY DEF Chained, BlobsFromEarlier
  <2> QED
    BY <1>1, <1>2, <1>4, <2>1, <2>2 DEF WrittenEarlier
<1>10. ReadsFromEarlier'
  <2> SUFFICES ASSUME NEW d \in Trans, NEW b \in reads[d]
               PROVE  \/ b[1] = d
                      \/ status'[b[1]] = "committed"
                      \/ \E k \in Keys : \E h, i \in Places(k) :
                           h < i /\ Creator(k, h) = b[1] /\ Creator(k, i) = d
    BY <1>1, <1>2 DEF ReadsFromEarlier
  <2>1. b[1] \in Trans
    BY DEF UsedInv, AnyBlob
  <2> QED
    BY <1>4, <2>1 DEF Chained, ReadsFromEarlier
<1> QED
  BY <1>5, <1>6, <1>7, <1>8, <1>9, <1>10 DEF Chained

(* A walk over a pending version. *)
LEMMA ChainedPending ==
  ASSUME Chained, UsedInv, NEW c \in Trans, VisitPending(c)
  PROVE  Chained'
<1> DEFINE d == List[cursor].creator
<1>1. /\ UNCHANGED <<versions, status, id, reads, pc, call>> /\ cursor' = cursor + 1
      /\ deps' = [deps EXCEPT ![c] = IF id[d] < id[c] THEN {d} ELSE @]
  BY DEF VisitPending, fixed, historyVars, Dependees
<1>2. At(c, "walk") /\ cursor <= Len(List)
  BY DEF VisitPending
<1>3. /\ pc[c] = "walk" /\ mapLock = c /\ call.key \in Keys /\ cursor \in Places(call.key)
      /\ d = Creator(call.key, cursor)
  <2>1. call.key \in Keys /\ mapLock = c /\ cursor \in Nat \ {0} /\ List \in Seq(AnyVersion)
    BY <1>2, WalkedList DEF UsedInv
  <2>2. cursor \in 1..Len(List)
    BY <1>2, <2>1
  <2> QED
    BY <1>2, <2>1, <2>2 DEF At, Places, Creator, List
<1>4. \A k, i : ((i \in Places(k))' <=> i \in Places(k)) /\ Creator(k, i)' = Creator(k, i)
  BY <1>1 DEF Places, Creator
<1>5. \A k \in Keys : \A i \in Places(k) : Creator(k, i) \in Trans
  BY CreatorsKnown DEF UsedInv
<1>6. \A e \in Trans : pc[e] = "walk" => e = c
  BY <1>3 DEF UsedInv, ServiceInv
<1>7. deps \in [Trans -> SUBSET Trans]
  BY DEF UsedInv, ServiceInv
<1>8. DependsOnEarlier'
  BY <1>1, <1>3, <1>4, <1>5, <1>7 DEF Chained, DependsOnEarlier
<1>9. DependsOnSeen'
  <2> SUFFICES ASSUME NEW i \in Places(call.key), i < cursor + 1,
                      id[Creator(call.key, i)] < id[c],
                      status[Creator(call.key, i)] = "pending"
               PROVE  \E m \in Places(call.key) : i <= m /\ Creator(call.key, m) \in deps'[c]
    BY <1>1, <1>6 DEF DependsOnSeen, Places, Creator
  <2>1. i \in Nat /\ cursor \in Nat
    BY <1>3 DEF Places
  <2>2. CASE id[d] < id[c]
    BY <1>1, <1>3, <1>7, <2>1, <2>2
  <2>3. CASE ~(id[d] < id[c])
    <3>1. i < cursor
      BY <1>3, <2>1, <2>3
    <3> QED
      BY <1>1, <1>3, <1>7, <2>3, <3>1 DEF Chained, DependsOnSeen
  <2> QED
    BY <2>2, <2>3
<1>10. Ordered' /\ CommittedFirst' /\ BlobsFromEarlier' /\ ReadsFromEarlier'
  BY <1>1, <1>4 DEF Ordered, CommittedFirst, BlobsFromEarlier, ReadsFromEarlier, WrittenEarlier, Chained
<1> QED
  BY <1>8, <1>9, <1>10 DEF Chained

(* The end of a walk that makes no version: all the thread has seen that is *)
(* before a version of its own is older.                                    *)
LEMMA ChainedConflict ==
  ASSUME Chained, UsedInv, OneKeyEach, NEW c \in Trans, Conflict(c)
  PROVE  Chained'
<1>1. /\ UNCHANGED <<versions, status, deps, id, reads>>
      /\ pc' = [pc EXCEPT ![c] = "reply"] /\ At(c, "walk") /\ cursor > Len(List)
  BY DEF Conflict, Walked, LeaveStore, Goto, ruleVars, fixed, historyVars
<1>2. /\ pc[c] = "walk" /\ mapLock = c /\ call.key \in Keys
      /\ \A i \in Places(call.key) : i < cursor
  BY <1>1, WalkedList DEF UsedInv, At, Places, List
<1>3. \A k, i : ((i \in Places(k))' <=> i \in Places(k)) /\ Creator(k, i)' = Creator(k, i)
  BY <1>1 DEF Places, Creator
<1>4. \A k \in Keys : \A i \in Places(k) : Creator(k, i) \in Trans
  BY CreatorsKnown DEF UsedInv
<1>5. \A e \in Trans : pc'[e] # "walk"
  BY <1>1, <1>2 DEF UsedInv, ServiceInv
<1>6. DependsOnEarlier'
  <2> SUFFICES ASSUME NEW k \in Keys, NEW i \in Places(k), NEW j \in Places(k), i < j,
                      status[Creator(k, i)] = "pending"
               PROVE  \E m \in i..(j - 1) : Creator(k, m) \in deps[Creator(k, j)]
    BY <1>1, <1>3 DEF DependsOnEarlier
  <2>1. CASE pc[Creator(k, j)] # "walk"
    BY <2>1 DEF Chained, DependsOnEarlier
  <2>2. CASE pc[Creator(k, j)] = "walk"
    <3>1. Creator(k, j) = c
      BY <1>2, <1>4, <2>2 DEF UsedInv, ServiceInv
    <3>2. k = call.key
      BY <1>2, <3>1 DEF UsedInv, OneKeyEach
    <3>3. id[Creator(k, i)] < id[c]
      BY <3>1 DEF Chained, Ordered
    <3>4. PICK m \in Places(k) : i <= m /\ Creator(k, m) \in deps[c]
      BY <1>2, <3>2, <3>3 DEF Chained, DependsOnSeen
    <3>5. id[Creator(k, m)] < id[c]
      BY <3>4 DEF UsedInv
    <3>6. id[c] \in Int /\ id[Creator(k, m)] \in Int
      BY <1>4 DEF UsedInv, ServiceInv
    <3>7. ~(j < m) /\ j # m
      <4>1. j < m => id[c] < id[Creator(k, m)]
        BY <3>1 DEF Chained, Ordered
      <4> QED
        BY <3>1, <3>5, <3>6, <4>1
    <3>8. m \in i..(j - 1)
      BY <3>4, <3>7 DEF Places
    <3> QED
      BY <3>1, <3>4, <3>8
  <2> QED
    BY <2>1, <2>2
<1>7. Ordered' /\ CommittedFirst' /\ BlobsFromEarlier' /\ ReadsFromEarlier'
  BY <1>1, <1>3 DEF Ordered, CommittedFirst, BlobsFromEarlier, ReadsFromEarlier, WrittenEarlier, Chained
<1>8. DependsOnSeen'
  BY <1>5 DEF DependsOnSeen
<1> QED
  BY <1>6, <1>7, <1>8 DEF Chained

(* A list that loses what is before the cursor loses committed versions.    *)
LEMMA ChainedDropped ==
  ASSUME Chained, UsedInv, NEW c \in Trans, VisitCommitted(c), versions' # versions
  PROVE  Chained'
<1> PICK k0 : k0 = call.key
  OBVIOUS
<1> PICK n : n = cursor
  OBVIOUS
<1>1. /\ k0 \in Keys /\ n \in Nat /\ n > 1 /\ cursor' = 2
      /\ Places(k0) = 1..Len(List) /\ n <= Len(List) /\ Len(List) \in Nat
      /\ Places(k0)' = 1..(Len(List) - n + 1)
      /\ \A i \in Places(k0)' : versions'[k0][i] = versions[k0][i + n - 1]
      /\ status[Creator(k0, n)] = "committed"
      /\ status[Creator(k0, n - 1)] = "committed"
      /\ \A k \in Keys \ {k0} : versions'[k] = versions[k]
  BY DroppedVersions DEF UsedInv
<1>2. UNCHANGED <<status, deps, id, reads, pc, call>> /\ mapLock = c /\ pc[c] = "walk"
  BY DEF VisitCommitted, ruleVars, fixed, historyVars, At, UsedInv, ServiceInv
<1>3. \A e \in Trans : pc[e] = "walk" => e = c
  BY <1>2 DEF UsedInv, ServiceInv
<1> DEFINE P == 1..(Len(List) - n + 1)
<1>4. /\ \A i : (i \in Places(k0))' <=> i \in P
      /\ \A i \in P : Creator(k0, i)' = Creator(k0, i + n - 1) /\ i + n - 1 \in Places(k0)
      /\ \A i \in Places(k0) : i >= n => i - n + 1 \in P /\ (i - n + 1) + n - 1 = i
      /\ \A i \in Places(k0) : i < n => status[Creator(k0, i)] = "committed"
  <2>1. \A i \in P : i + n - 1 \in Places(k0)
    BY <1>1
  <2>2. \A i \in P : Creator(k0, i)' = Creator(k0, i + n - 1)
    BY <1>1 DEF Creator
  <2>3. \A i \in Places(k0) : i >= n => i - n + 1 \in P /\ (i - n + 1) + n - 1 = i
    BY <1>1
  <2>4. ASSUME NEW i \in Places(k0), i < n PROVE status[Creator(k0, i)] = "committed"
    <3>1. n - 1 \in Places(k0) /\ (i = n - 1 \/ i < n - 1)
      BY <1>1, <2>4
    <3> QED
      BY <1>1, <3>1 DEF Chained, CommittedFirst
  <2> QED
    BY <1>1, <2>1, <2>2, <2>3, <2>4
<1>5. \A k \in Keys \ {k0} : \A i : /\ (i \in Places(k))' <=> i \in Places(k)
                                    /\ Creator(k, i)' = Creator(k, i)
  BY <1>1 DEF Places, Creator
<1> HIDE DEF P
<1>6. P \subseteq Nat /\ Places(k0) \subseteq Nat
  BY <1>1 DEF P
<1>7. Ordered'
  <2> SUFFICES ASSUME NEW k \in Keys, NEW i, (i \in Places(k))', NEW j, (j \in Places(k))', i < j
               PROVE  id[Creator(k, i)'] < id[Creator(k, j)']
    BY <1>2 DEF Ordered
  <2>1. CASE k # k0
    BY <1>5, <2>1 DEF Chained, Ordered
  <2>2. CASE k = k0
    <3>0. i \in P /\ j \in P /\ i \in Nat /\ j \in Nat
      BY <1>4, <1>6, <2>2
    <3>1. /\ i + n - 1 \in Places(k0) /\ j + n - 1 \in Places(k0) /\ i + n - 1 < j + n - 1
          /\ Creator(k, i)' = Creator(k0, i + n - 1) /\ Creator(k, j)' = Creator(k0, j + n - 1)
      BY <1>1, <1>4, <2>2, <3>0
    <3> QED
      BY <1>1, <3>1 DEF Chained, Ordered
  <2> QED
    BY <2>1, <2>2
<1>8. CommittedFirst'
  <2> SUFFICES ASSUME NEW k \in Keys, NEW i, (i \in Places(k))', NEW j, (j \in Places(k))', i < j,
                      status[Creator(k, j)'] = "committed"
               PROVE  status[Creator(k, i)'] = "committed"
    BY <1>2 DEF CommittedFirst
  <2>1. CASE k # k0
    BY <1>5, <2>1 DEF Chained, CommittedFirst
  <2>2. CASE k = k0
    <3>0. i \in P /\ j \in P /\ i \in Nat /\ j \in Nat
      BY <1>4, <1>6, <2>2
    <3>1. /\ i + n - 1 \in Places(k0) /\ j + n - 1 \in Places(k0) /\ i + n - 1 < j + n - 1
          /\ Creator(k, i)' = Creator(k0, i + n - 1) /\ Creator(k, j)' = Creator(k0, j + n - 1)
      BY <1>1, <1>4, <2>2, <3>0
    <3> QED
      BY <1>1, <3>1 DEF Chained, CommittedFirst
  <2> QED
    BY <2>1, <2>2
<1>9. DependsOnEarlier'
  <2> SUFFICES ASSUME NEW k \in Keys, NEW i, (i \in Places(k))', NEW j, (j \in Places(k))', i < j,
                      pc[Creator(k, j)'] # "walk", status[Creator(k, i)'] = "pending"
               PROVE  \E m \in i..(j - 1) : Creator(k, m)' \in deps[Creator(k, j)']
    BY <1>2 DEF DependsOnEarlier
  <2>1. CASE k # k0
    BY <1>5, <2>1 DEF Chained, DependsOnEarlier
  <2>2. CASE k = k0
    <3>0. i \in P /\ j \in P /\ i \in Nat /\ j \in Nat
      BY <1>4, <1>6, <2>2
    <3>1. /\ i + n - 1 \in Places(k0) /\ j + n - 1 \in Places(k0) /\ i + n - 1 < j + n - 1
          /\ Creator(k, i)' = Creator(k0, i + n - 1) /\ Creator(k, j)' = Creator(k0, j + n - 1)
      BY <1>1, <1>4, <2>2, <3>0
    <3>2. PICK m \in (i + n - 1)..(j + n - 2) : Creator(k0, m) \in deps[Creator(k0, j + n - 1)]
      <4>1. (j + n - 1) - 1 = j + n - 2
        BY <1>1, <3>0
      <4>2. \E m \in (i + n - 1)..((j + n - 1) - 1) : Creator(k0, m) \in deps[Creator(k0, j + n - 1)]
        BY <1>1, <3>1 DEF Chained, DependsOnEarlier
      <4> QED
        BY <4>1, <4>2
    <3>3. /\ m - n + 1 \in i..(j - 1) /\ m - n + 1 \in P
          /\ (m - n + 1) + n - 1 = m
      <4>1. n \in Nat /\ Len(List) \in Nat
        BY <1>1
      <4>2. i \in 1..(Len(List) - n + 1) /\ j \in 1..(Len(List) - n + 1)
        BY <3>0 DEF P
      <4>3. m - n + 1 \in i..(j - 1) /\ (m - n + 1) + n - 1 = m
        BY <3>0, <4>1
      <4> QED
        BY <3>0, <4>1, <4>2, <4>3 DEF P
    <3>4. Creator(k0, m - n + 1)' = Creator(k0, m)
      BY <1>4, <3>3
    <3> QED
      BY <2>2, <3>1, <3>2, <3>3, <3>4
  <2> QED
    BY <2>1, <2>2
<1>10. DependsOnSeen'
  <2> SUFFICES ASSUME NEW i, (i \in Places(k0))', i < 2, status[Creator(k0, i)'] = "pending"
               PROVE  FALSE
    BY <1>1, <1>2, <1>3 DEF DependsOnSeen
  <2>1. i = 1 /\ 1 + n - 1 = n
    BY <1>1
  <2>2. Creator(k0, i)' = Creator(k0, n)
    BY <1>4, <2>1
  <2> QED
    BY <1>1, <2>2
<1>11. BlobsFromEarlier'
  <2> SUFFICES ASSUME NEW k \in Keys, NEW i, (i \in Places(k))', versions'[k][i].blob # NoBlob
               PROVE  WrittenEarlier(k, i, versions[k][i].blob[1])'
    BY DEF BlobsFromEarlier
  <2>1. CASE k # k0
    BY <1>1, <1>2, <1>5, <2>1 DEF Chained, BlobsFromEarlier, WrittenEarlier
  <2>2. CASE k = k0
    <3> DEFINE d == versions'[k0][i].blob[1]
    <3>1. /\ i \in P /\ i \in Nat /\ i + n - 1 \in Places(k0)
          /\ versions'[k0][i] = versions[k0][i + n - 1]
      BY <1>1, <1>4, <1>6, <2>2
    <3>2. \/ d = Creator(k0, i + n - 1)
          \/ status[d] = "committed"
          \/ \E h \in 1..((i + n - 1) - 1) : Creator(k0, h) = d
      <4>1. versions[k0][i + n - 1].blob # NoBlob /\ d = versions[k0][i + n - 1].blob[1]
        BY <2>2, <3>1
      <4>2. WrittenEarlier(k0, i + n - 1, d)
        BY <1>1, <3>1, <4>1 DEF Chained, BlobsFromEarlier
      <4> QED
        BY <4>2 DEF WrittenEarlier
    <3>3. CASE d = Creator(k0, i + n - 1)
      BY <1>4, <2>2, <3>1, <3>3 DEF WrittenEarlier
    <3>4. CASE status[d] = "committed"
      BY <1>2, <2>2, <3>4 DEF WrittenEarlier
    <3>5. ASSUME NEW h \in 1..((i + n - 1) - 1), Creator(k0, h) = d
          PROVE WrittenEarlier(k, i, versions[k][i].blob[1])'
      <4>1. h \in Places(k0)
        BY <1>1, <3>1, <3>5
      <4>2. CASE h < n
        BY <1>2, <1>4, <2>2, <3>5, <4>1, <4>2 DEF WrittenEarlier
      <4>3. CASE h >= n
        <5>1. h - n + 1 \in P /\ (h - n + 1) + n - 1 = h
          BY <1>4, <4>1, <4>3
        <5>2. Creator(k0, h - n + 1)' = d
          BY <1>4, <3>5, <5>1
        <5>3. h - n + 1 \in 1..(i - 1)
          BY <1>1, <3>1, <3>5, <4>3
        <5> QED
          BY <2>2, <5>2, <5>3 DEF WrittenEarlier
      <4> QED
        BY <1>1, <3>1, <4>2, <4>3
    <3> QED
      BY <3>2, <3>3, <3>4, <3>5
  <2> QED
    BY <2>1, <2>2
<1>12. ReadsFromEarlier'
  <2> SUFFICES ASSUME NEW d \in Trans, NEW b \in reads[d], b[1] # d, status[b[1]] # "committed"
               PROVE  \E k \in Keys : \E h, i : /\ (h \in Places(k))' /\ (i \in Places(k))'
                                                /\ h < i /\ Creator(k, h)' = b[1] /\ Creator(k, i)' = d
    BY <1>2 DEF ReadsFromEarlier
  <2>1. PICK k \in Keys : \E h, i \in Places(k) : h < i /\ Creator(k, h) = b[1] /\ Creator(k, i) = d
    BY DEF Chained, ReadsFromEarlier
  <2>2. PICK h \in Places(k), i \in Places(k) : h < i /\ Creator(k, h) = b[1] /\ Creator(k, i) = d
    BY <2>1
  <2>3. CASE k # k0
    BY <1>5, <2>2, <2>3
  <2>4. CASE k = k0
    <3>0. h \in Places(k0) /\ i \in Places(k0) /\ h \in Nat /\ i \in Nat
      BY <1>6, <2>4
    <3>1. h >= n /\ i >= n
      BY <1>1, <1>4, <2>2, <2>4, <3>0
    <3>2. /\ h - n + 1 \in P /\ i - n + 1 \in P /\ h - n + 1 < i - n + 1
          /\ (h - n + 1) + n - 1 = h /\ (i - n + 1) + n - 1 = i
      <4>1. /\ h - n + 1 \in P /\ (h - n + 1) + n - 1 = h
            /\ i - n + 1 \in P /\ (i - n + 1) + n - 1 = i
        BY <1>4, <3>0, <3>1
      <4>2. h - n + 1 < i - n + 1
        BY <1>1, <2>2, <3>0
      <4> QED
        BY <4>1, <4>2
    <3>3. Creator(k0, h - n + 1)' = b[1] /\ Creator(k0, i - n + 1)' = d
      BY <1>4, <2>2, <2>4, <3>2
    <3> QED
      BY <1>1, <1>4, <3>2, <3>3
  <2> QED
    BY <2>3, <2>4
<1> QED
  BY <1>7, <1>8, <1>9, <1>10, <1>11, <1>12 DEF Chained

(* A new version depends on all before it, since its creator, the youngest, *)
(* has seen them all; its blob is its own or that of the version before it. *)
LEMMA ChainedAdded ==
  ASSUME Chained, UsedInv, OneKeyEach, DistinctIds,
         NEW c \in Trans, AddVersion(c), ~(Mine(c) /\ Last.blob = NoBlob)
  PROVE  Chained'
<1> PICK k0 : k0 = call.key
  OBVIOUS
<1> PICK n : n = IF Mine(c) THEN Len(List) ELSE Len(List) + 1
  OBVIOUS
<1>1. /\ k0 \in Keys /\ n \in Nat \ {0} /\ cursor > Len(List) /\ Len(List) \in Nat
      /\ List # <<>> => Last = List[Len(List)]
      /\ Mine(c) <=> List # <<>> /\ Last.creator = c
      /\ Places(k0) = 1..Len(List) /\ Places(k0)' = 1..n
      /\ \A i \in 1..Len(List) : Creator(k0, i)' = Creator(k0, i)
      /\ \A i \in 1..(n - 1) : versions'[k0][i] = versions[k0][i]
      /\ versions'[k0][n] = [creator |-> c, blob |-> NewBlob(c)]
      /\ \A k \in Keys \ {k0} : versions'[k] = versions[k]
  BY AddedVersion DEF UsedInv
<1>2. /\ UNCHANGED <<status, deps, id>> /\ At(c, "walk") /\ ~Overtaken(c)
      /\ pc' = [pc EXCEPT ![c] = "reply"]
      /\ reads' = [reads EXCEPT ![c] = @ \cup (IF call.put THEN {} ELSE {NewBlob(c)} \ {NoBlob})]
  BY DEF AddVersion, Walked, LeaveStore, Goto, ruleVars, fixed
<1>3. /\ pc[c] = "walk" /\ k0 \in used[c] /\ List \in Seq(AnyVersion)
      /\ cursor \in Nat /\ status[c] = "pending" /\ call.put \in BOOLEAN
      /\ \A e \in Trans : pc[e] = "walk" => e = c
  <2>1. List \in Seq(AnyVersion) /\ mapLock = c /\ cursor \in Nat
        /\ call \in [put : BOOLEAN, key : Keys]
    BY <1>2, WalkedList DEF UsedInv
  <2>2. call.put \in BOOLEAN
    BY <2>1
  <2> QED
    BY <1>2, <2>1, <2>2 DEF At, UsedInv, ServiceInv
<1>4. \A k \in Keys : \A i \in Places(k) : Creator(k, i) \in Trans
  BY CreatorsKnown DEF UsedInv
<1>5. \A k \in Keys \ {k0} : \A i : /\ (i \in Places(k))' <=> i \in Places(k)
                                    /\ Creator(k, i)' = Creator(k, i)
                                    /\ i \in Places(k) => Creator(k, i) # c
  BY <1>1, <1>3 DEF Places, Creator, UsedInv, OneKeyEach
<1>6. \A d \in Trans : id[d] \in Nat /\ deps[d] \subseteq Trans
  BY DEF UsedInv, ServiceInv
<1>7. ASSUME List # <<>>
      PROVE /\ Len(List) \in Places(k0) /\ Last.creator = Creator(k0, Len(List))
            /\ id[Creator(k0, Len(List))] <= id[c]
  <2>1. Len(List) \in Places(k0)
    BY <1>1, <1>3, <1>7
  <2>2. Last.creator = Creator(k0, Len(List))
    BY <1>1, <1>7 DEF Creator, List
  <2> QED
    BY <1>2, <1>4, <1>6, <1>7, <1>1, <2>1, <2>2 DEF Overtaken
<1>8. \/ n = Len(List) /\ List # <<>> /\ Creator(k0, n) = c
      \/ n = Len(List) + 1 /\ (List # <<>> => Creator(k0, Len(List)) # c)
  <2>1. CASE Mine(c)
    <3>1. List # <<>> /\ Last.creator = c
      BY <1>1, <2>1
    <3>2. Last.creator = Creator(k0, Len(List))
      BY <1>7, <3>1
    <3>3. n = Len(List)
      BY <2>1
    <3> QED
      BY <3>1, <3>2, <3>3
  <2>2. CASE ~ Mine(c)
    <3>1. (List # <<>> => Last.creator # c) /\ n = Len(List) + 1
      BY <1>1, <2>2
    <3> QED
      BY <1>7, <3>1
  <2> QED
    BY <2>1, <2>2
<1>9. ASSUME NEW i \in 1..(n - 1)
      PROVE  i \in Places(k0) /\ Creator(k0, i)' = Creator(k0, i) /\ id[Creator(k0, i)] < id[c]
             /\ Creator(k0, i) # c
  <2>1. i \in Places(k0) /\ Len(List) \in Places(k0) /\ i <= Len(List) /\ List # <<>>
    <3>1. i \in Places(k0) /\ Len(List) \in Places(k0) /\ i <= Len(List) /\ Len(List) # 0
      BY <1>1, <1>8
    <3> QED
      BY <3>1
  <2>2. CASE i < Len(List)
    <3>1. id[Creator(k0, i)] < id[Creator(k0, Len(List))]
      BY <1>1, <2>1, <2>2 DEF Chained, Ordered
    <3> QED
      BY <1>1, <1>4, <1>6, <1>7, <2>1, <3>1
  <2>3. CASE i = Len(List)
    <3>1. Creator(k0, i) # c
      BY <1>1, <1>8, <2>3, <2>1
    <3>2. id[Creator(k0, i)] # id[c]
      BY <1>1, <1>4, <2>1, <3>1 DEF DistinctIds
    <3> QED
      BY <1>1, <1>4, <1>6, <1>7, <2>1, <2>3, <3>1, <3>2
  <2> QED
    BY <1>1, <2>1, <2>2, <2>3
<1>10. Creator(k0, n)' = c
  BY <1>1 DEF Creator
<1>11. Places(k0) \subseteq 1..n /\ \A i \in 1..n : i = n \/ i \in 1..(n - 1)
  BY <1>1, <1>8
<1>12. Ordered'
  <2> SUFFICES ASSUME NEW k \in Keys, NEW i, (i \in Places(k))', NEW j, (j \in Places(k))', i < j
               PROVE  id[Creator(k, i)'] < id[Creator(k, j)']
    BY <1>2 DEF Ordered
  <2>1. CASE k # k0
    BY <1>5, <2>1 DEF Chained, Ordered
  <2>2. CASE k = k0
    <3>1. i \in 1..n /\ j \in 1..n
      BY <1>1, <2>2
    <3>2. i \in 1..(n - 1)
      BY <1>1, <3>1
    <3>3. CASE j = n
      BY <1>9, <1>10, <2>2, <3>2, <3>3
    <3>4. CASE j # n
      <4>1. j \in 1..(n - 1)
        BY <1>11, <3>1, <3>4
      <4> QED
        BY <1>1, <1>9, <2>2, <3>2, <4>1 DEF Chained, Ordered
    <3> QED
      BY <3>3, <3>4
  <2> QED
    BY <2>1, <2>2
<1>13. CommittedFirst'
  <2> SUFFICES ASSUME NEW k \in Keys, NEW i, (i \in Places(k))', NEW j, (j \in Places(k))', i < j,
                      status[Creator(k, j)'] = "committed"
               PROVE  status[Creator(k, i)'] = "committed"
    BY <1>2 DEF CommittedFirst
  <2>1. CASE k # k0
    BY <1>5, <2>1 DEF Chained, CommittedFirst
  <2>2. CASE k = k0
    <3>1. i \in 1..n /\ j \in 1..n /\ j # n
      BY <1>1, <1>3, <1>10, <2>2
    <3>2. i \in 1..(n - 1) /\ j \in 1..(n - 1)
      BY <1>1, <1>11, <3>1
    <3> QED
      BY <1>1, <1>9, <2>2, <3>2 DEF Chained, CommittedFirst
  <2> QED
    BY <2>1, <2>2
<1>14. DependsOnEarlier'
  <2> SUFFICES ASSUME NEW k \in Keys, NEW i, (i \in Places(k))', NEW j, (j \in Places(k))', i < j,
                      pc'[Creator(k, j)'] # "walk", status[Creator(k, i)'] = "pending"
               PROVE  \E m \in i..(j - 1) : Creator(k, m)' \in deps[Creator(k, j)']
    BY <1>2 DEF DependsOnEarlier
  <2>0. pc \in [Trans -> SessionPC]
    BY DEF UsedInv, ServiceInv
  <2>1. CASE k # k0
    <3>1. pc[Creator(k, j)] # "walk"
      BY <1>2, <1>4, <1>5, <2>0, <2>1
    <3> QED
      BY <1>5, <2>1, <3>1 DEF Chained, DependsOnEarlier
  <2>2. CASE k = k0
    <3>1. i \in 1..n /\ j \in 1..n
      BY <1>1, <2>2
    <3>2. i \in 1..(n - 1)
      BY <1>1, <3>1
    <3>3. CASE j = n
      <4>1. i \in Places(k0) /\ i < cursor /\ id[Creator(k0, i)] < id[c] /\ status[Creator(k0, i)] = "pending"
        BY <1>1, <1>3, <1>9, <2>2, <3>2
      <4>2. PICK m \in Places(k0) : i <= m /\ Creator(k0, m) \in deps[c]
        BY <1>3, <4>1 DEF Chained, DependsOnSeen
      <4>3. id[Creator(k0, m)] < id[c]
        BY <4>2 DEF UsedInv
      <4>4. m # n
        BY <1>6, <1>8, <1>1, <4>2, <4>3
      <4>5. m \in 1..(n - 1) /\ m \in i..(j - 1)
        BY <1>1, <1>11, <3>2, <3>3, <4>2, <4>4
      <4> QED
        BY <1>9, <1>10, <2>2, <3>3, <4>2, <4>5
    <3>4. CASE j # n
      <4>1. j \in 1..(n - 1)
        BY <1>11, <3>1, <3>4
      <4>2. pc[Creator(k0, j)] # "walk"
        BY <1>3, <1>4, <1>9, <4>1, <1>1
      <4>3. PICK m \in i..(j - 1) : Creator(k0, m) \in deps[Creator(k0, j)]
        BY <1>1, <1>9, <2>2, <3>2, <4>1, <4>2 DEF Chained, DependsOnEarlier
      <4>4. m \in 1..(n - 1)
        BY <1>1, <3>2, <4>1
      <4> QED
        BY <1>9, <2>2, <4>1, <4>3, <4>4
    <3> QED
      BY <3>3, <3>4
  <2> QED
    BY <2>1, <2>2
<1>15. DependsOnSeen'
  BY <1>2, <1>3 DEF DependsOnSeen, UsedInv, ServiceInv
<1>16. ASSUME List # <<>>, Last.blob # NoBlob
       PROVE WrittenEarlier(k0, Len(List), Last.blob[1])
  <2>1. Last = versions[k0][Len(List)]
    BY <1>1, <1>16 DEF List
  <2> QED
    BY <1>1, <1>7, <1>16, <2>1 DEF Chained, BlobsFromEarlier
<1>17. ASSUME ~call.put, NewBlob(c) # NoBlob
       PROVE List # <<>> /\ NewBlob(c) = Last.blob
  BY <1>17 DEF NewBlob
<1>18. BlobsFromEarlier'
  <2> SUFFICES ASSUME NEW k \in Keys, NEW i, (i \in Places(k))', versions'[k][i].blob # NoBlob
               PROVE  WrittenEarlier(k, i, versions[k][i].blob[1])'
    BY DEF BlobsFromEarlier
  <2>1. CASE k # k0
    BY <1>1, <1>2, <1>5, <2>1 DEF Chained, BlobsFromEarlier, WrittenEarlier
  <2>2. CASE k = k0 /\ i # n
    <3>1. i \in 1..(n - 1) /\ i \in Nat
      BY <1>1, <1>11, <2>2
    <3>2. versions'[k0][i] = versions[k0][i]
      BY <1>1, <3>1
    <3>3. WrittenEarlier(k0, i, versions[k0][i].blob[1])
      BY <1>1, <1>9, <2>2, <3>1, <3>2 DEF Chained, BlobsFromEarlier
    <3>4. \A h \in 1..(i - 1) : Creator(k0, h)' = Creator(k0, h)
      BY <1>1, <1>9, <3>1
    <3> QED
      BY <1>2, <1>9, <2>2, <3>1, <3>2, <3>3, <3>4 DEF WrittenEarlier
  <2>3. CASE k = k0 /\ i = n
    <3>1. versions'[k0][n].blob = NewBlob(c)
      BY <1>1
    <3>2. CASE call.put
      <4>1. NewBlob(c)[1] = c
        BY <3>2 DEF NewBlob, ValueBlob
      <4> QED
        BY <1>10, <2>3, <3>1, <4>1 DEF WrittenEarlier
    <3>3. CASE ~call.put
      <4> DEFINE d == NewBlob(c)[1]
      <4>1. NewBlob(c) # NoBlob
        BY <2>3, <3>1
      <4>2. List # <<>> /\ NewBlob(c) = Last.blob
        BY <1>17, <3>3, <4>1
      <4>3. WrittenEarlier(k0, Len(List), d)
        BY <1>16, <4>1, <4>2
      <4>4. CASE status[d] = "committed"
        BY <1>2, <2>3, <3>1, <4>4 DEF WrittenEarlier
      <4>5. CASE d = Creator(k0, Len(List))
        <5>1. CASE n = Len(List)
          BY <1>8, <1>10, <2>3, <3>1, <4>5, <5>1, <1>1 DEF WrittenEarlier
        <5>2. CASE n = Len(List) + 1
          <6>1. Len(List) \in 1..(n - 1)
            BY <1>1, <1>7, <4>2, <5>2
          <6> QED
            BY <1>9, <2>3, <3>1, <4>5, <6>1 DEF WrittenEarlier
        <5> QED
          BY <1>8, <5>1, <5>2
      <4>6. ASSUME NEW h \in 1..(Len(List) - 1), Creator(k0, h) = d
            PROVE  WrittenEarlier(k, i, versions[k][i].blob[1])'
        <5>1. h \in 1..(n - 1)
          BY <1>1, <1>8
        <5> QED
          BY <1>9, <2>3, <3>1, <4>6, <5>1 DEF WrittenEarlier
      <4> QED
        BY <4>3, <4>4, <4>5, <4>6 DEF WrittenEarlier
    <3> QED
      BY <3>2, <3>3
  <2> QED
    BY <2>1, <2>2, <2>3
<1>19. ReadsFromEarlier'
  <2> SUFFICES ASSUME NEW d \in Trans, NEW b \in reads'[d], b[1] # d, status[b[1]] # "committed"
               PROVE  \E k \in Keys : \E h, i : /\ (h \in Places(k))' /\ (i \in Places(k))'
                                                /\ h < i /\ Creator(k, h)' = b[1] /\ Creator(k, i)' = d
    BY <1>2 DEF ReadsFromEarlier
  <2>1. CASE b \in reads[d]
    <3>1. PICK k \in Keys : \E h, i \in Places(k) : h < i /\ Creator(k, h) = b[1] /\ Creator(k, i) = d
      BY <2>1 DEF Chained, ReadsFromEarlier
    <3>2. PICK h \in Places(k), i \in Places(k) : h < i /\ Creator(k, h) = b[1] /\ Creator(k, i) = d
      BY <3>1
    <3>3. CASE k # k0
      BY <1>5, <3>2, <3>3
    <3>4. CASE k = k0
      <4>1. h \in 1..n /\ i \in 1..n /\ h \in 1..Len(List) /\ i \in 1..Len(List)
        BY <1>1, <1>11, <3>4
      <4>2. (h \in Places(k0))' /\ (i \in Places(k0))'
        BY <1>1, <4>1
      <4>3. Creator(k0, h)' = b[1] /\ Creator(k0, i)' = d
        BY <1>1, <3>2, <3>4, <4>1
      <4> QED
        BY <1>1, <3>2, <4>2, <4>3
    <3> QED
      BY <3>3, <3>4
  <2>2. CASE b \notin reads[d]
    <3>1. d = c /\ ~call.put /\ b = NewBlob(c) /\ NewBlob(c) # NoBlob
      BY <1>2, <1>3, <2>2 DEF UsedInv
    <3>2. List # <<>> /\ b = Last.blob /\ Last.blob # NoBlob
      BY <1>17, <3>1
    <3>3. WrittenEarlier(k0, Len(List), b[1])
      BY <1>16, <3>2
    <3>4. PICK h \in Places(k0) : Creator(k0, h) = b[1]
      <4>1. \A h \in 1..(Len(List) - 1) : h \in Places(k0)
        BY <1>1
      <4> QED
        BY <1>7, <3>2, <3>3, <4>1 DEF WrittenEarlier
    <3>5. h # n
      BY <1>1, <1>8, <3>1, <3>4
    <3>6. h \in 1..(n - 1) /\ h \in 1..n /\ n \in 1..n /\ h < n
      BY <1>1, <1>11, <3>5
    <3> QED
      BY <1>1, <1>9, <1>10, <3>1, <3>4, <3>6
  <2> QED
    BY <2>1, <2>2
<1> QED
  BY <1>12, <1>13, <1>14, <1>15, <1>18, <1>19 DEF Chained

(* Every step keeps the chain, as long as everyone keeps to one key.        *)
LEMMA ChainInvNext == ChainInv /\ [Next]_vars => ChainInv'
<1> SUFFICES ASSUME ChainInv, [Next]_vars, OneKeyEach', DistinctIds' PROVE Chained'
  BY UsedInvNext DEF ChainInv
<1>0. UsedInv /\ ServiceInv /\ UNCHANGED id /\ \A c \in Trans : used[c] \subseteq used'[c]
  <2>1. ASSUME NEW c \in Trans, NEW p, NEW S, NEW l, EnterStore(c, p, S, l)
        PROVE UNCHANGED id /\ \A d \in Trans : used[d] \subseteq used'[d]
    BY <2>1 DEF EnterStore, fixed, ChainInv, UsedInv
  <2>2. UNCHANGED id /\ \A c \in Trans : used[c] \subseteq used'[c]
    BY <2>1 DEF Next, PutRequest, GetRequest, CopyUnset, VisitCommitted, VisitPending, Conflict, AddVersion,
                Reply, Commit, AnswerCommit, EndOfInput, vars, fixed, historyVars
  <2> QED
    BY <2>2 DEF ChainInv, UsedInv
<1>1. OneKeyEach /\ DistinctIds
  BY <1>0 DEF OneKeyEach, DistinctIds
<1>2. Chained
  BY <1>1 DEF ChainInv
<1>3. ASSUME UNCHANGED <<versions, status, deps, id, reads, call, cursor>>,
             \A d \in Trans : pc'[d] = "walk" <=> pc[d] = "walk"
      PROVE Chained'
  <2>1. DependsOnSeen'
    BY <1>2, <1>3 DEF Chained, DependsOnSeen, Places, Creator
  <2> QED
    BY <1>0, <1>2, <1>3, <2>1, ChainedSameLists
<1>4. CASE UNCHANGED vars
  BY <1>3, <1>4 DEF vars, ruleVars, fixed, requestVars, storeVars, historyVars
<1>5. ASSUME NEW c \in Trans, NEW p, NEW S, NEW l, EnterStore(c, p, S, l)
      PROVE Chained'
  <2>1. /\ UNCHANGED <<versions, status, deps, id, reads>> /\ mapLock = NoThread /\ cursor' = 1
        /\ pc' = [pc EXCEPT ![c] = "walk"]
    BY <1>5 DEF EnterStore, ruleVars, fixed, Goto
  <2>2. \A d \in Trans : pc[d] # "walk"
    <3>1. \A d \in Trans : pc[d] = "walk" => mapLock = d
      BY <1>0 DEF ServiceInv
    <3> QED
      BY <2>1, <3>1, ServiceAssumption
  <2>3. \A i \in Nat : i < 1 => i = 0
    OBVIOUS
  <2>4. DependsOnSeen'
    BY <2>1, <2>3 DEF DependsOnSeen, Places
  <2> QED
    BY <1>0, <1>2, <2>1, <2>2, <2>4, ChainedSameLists
<1>6. ASSUME NEW c \in Trans, VisitCommitted(c) PROVE Chained'
  <2>1. CASE versions' # versions
    BY <1>0, <1>2, <1>6, <2>1, ChainedDropped
  <2>2. CASE versions' = versions
    <3>1. /\ UNCHANGED <<status, deps, id, reads, pc, call>> /\ At(c, "walk")
      BY <1>6 DEF VisitCommitted, ruleVars, fixed, historyVars
    <3>2. /\ List \in Seq(AnyVersion) /\ cursor \in Nat \ {0} /\ mapLock = c /\ call.key \in Keys
      BY <1>0, <3>1, WalkedList
    <3>3. CASE cursor' = cursor
      BY <1>3, <2>2, <3>1, <3>3
    <3>4. CASE cursor' = cursor + 1
      <4> SUFFICES ASSUME NEW i \in Places(call.key), i < cursor + 1,
                          id[Creator(call.key, i)] < id[c],
                          status[Creator(call.key, i)] = "pending"
                   PROVE  i < cursor
        <5>1. \A e \in Trans : pc[e] = "walk" => e = c
          BY <1>0, <3>2 DEF ServiceInv
        <5>2. DependsOnSeen' \/ \E i \in Places(call.key) : /\ i < cursor + 1 /\ ~(i < cursor)
                                                            /\ id[Creator(call.key, i)] < id[c]
                                                            /\ status[Creator(call.key, i)] = "pending"
          BY <1>2, <2>2, <3>1, <3>4, <5>1 DEF Chained, DependsOnSeen, Places, Creator
        <5> QED
          BY <1>0, <1>2, <2>2, <3>1, <5>2, ChainedSameLists
      <4>1. status[Creator(call.key, cursor)] = "committed"
        BY <1>6 DEF VisitCommitted, Creator, List
      <4>2. i # cursor /\ i \in Nat
        BY <4>1 DEF Places
      <4> QED
        BY <3>2, <4>2
    <3>5. cursor' = cursor \/ cursor' = cursor + 1
      <4>1. CASE cursor > 1 /\ status[List[cursor - 1].creator] = "committed" /\ List[cursor - 1].blob # NoBlob
        <5>1. versions'[call.key] = SubSeq(List, cursor, Len(List)) /\ cursor <= Len(List)
          BY <1>0, <1>6, <3>2, <4>1 DEF VisitCommitted, List, ServiceInv
        <5>2. Len(List) = Len(List) - cursor + 1
          <6>1. cursor \in 1..Len(List)
            BY <3>2, <5>1
          <6>2. Len(SubSeq(List, cursor, Len(List))) = Len(List) - cursor + 1
            BY <3>2, <6>1, ListFrom
          <6> QED
            BY <2>2, <5>1, <6>2 DEF List
        <5> QED
          BY <3>2, <4>1, <5>2
      <4>2. CASE ~(cursor > 1 /\ status[List[cursor - 1].creator] = "committed" /\ List[cursor - 1].blob # NoBlob)
        BY <1>6, <4>2 DEF VisitCommitted
      <4> QED
        BY <4>1, <4>2
    <3> QED
      BY <3>3, <3>4, <3>5
  <2> QED
    BY <2>1, <2>2
<1>7. ASSUME NEW c \in Trans, VisitPending(c) PROVE Chained'
  BY <1>0, <1>2, <1>7, ChainedPending
<1>8. ASSUME NEW c \in Trans, Conflict(c) PROVE Chained'
  BY <1>0, <1>1, <1>2, <1>8, ChainedConflict
<1>9. ASSUME NEW c \in Trans, AddVersion(c) PROVE Chained'
  <2>1. CASE Mine(c) /\ Last.blob = NoBlob
    BY <1>3, <1>9, <2>1 DEF AddVersion, ruleVars, fixed
  <2>2. CASE ~(Mine(c) /\ Last.blob = NoBlob)
    BY <1>0, <1>1, <1>2, <1>9, <2>2, ChainedAdded
  <2> QED
    BY <2>1, <2>2
<1>10. ASSUME NEW c \in Trans, Commit(c) PROVE Chained'
  BY <1>0, <1>2, <1>10, ChainedCommit
<1>11. ASSUME NEW c \in Trans, CopyUnset(c) \/ Reply(c) \/ AnswerCommit(c) \/ EndOfInput(c)
       PROVE Chained'
  <2>1. UNCHANGED <<versions, status, deps, id, reads, call, cursor>>
    BY <1>11 DEF CopyUnset, Reply, AnswerCommit, EndOfInput, ruleVars, fixed, storeVars, historyVars
  <2>2. \A d \in Trans : pc'[d] = "walk" <=> pc[d] = "walk"
    BY <1>0, <1>11 DEF CopyUnset, Reply, AnswerCommit, EndOfInput, Goto, At, ServiceInv
  <2> QED
    BY <1>3, <2>1, <2>2
<1> QED
  BY <1>4, <1>5, <1>6, <1>7, <1>8, <1>9, <1>10, <1>11 DEF Next, PutRequest, GetRequest

(* "serializable", store.h: as long as ids differ and everyone keeps to one *)
(* key, a committed transaction has read only what it or committed          *)
(* transactions wrote, although a dependency list keeps its newest node     *)
(* only, and whatever versions have been disposed of meanwhile.             *)
THEOREM DirtyReadsNeedForgetting == Spec => []DirtyOnlyWhenForgetful
<1>1. ChainInv => DirtyOnlyWhenForgetful
  <2> SUFFICES ASSUME ChainInv, NEW c \in Trans, status[c] = "committed", NEW b \in Dirty(c), ~Forgetful
               PROVE  FALSE
    BY DEF DirtyOnlyWhenForgetful
  <2>1. DistinctIds
    BY DEF Forgetful, DistinctIds
  <2>2. OneKeyEach
    <3> SUFFICES ASSUME NEW d \in Trans, NEW k \in used[d], NEW l \in used[d], k # l PROVE FALSE
      BY DEF OneKeyEach
    <3>1. IsFiniteSet(used[d]) /\ {k, l} \in SUBSET used[d]
      BY DEF ChainInv, UsedInv
    <3>2. IsFiniteSet({k, l}) /\ Cardinality({k, l}) = 2
      <4>1. IsFiniteSet({k}) /\ Cardinality({k}) = 1
        BY FS_Singleton
      <4>2. IsFiniteSet({k} \cup {l}) /\ Cardinality({k} \cup {l}) = 2
        <5>1. /\ IsFiniteSet({k} \cup {l})
              /\ Cardinality({k} \cup {l}) = IF l \in {k} THEN Cardinality({k}) ELSE Cardinality({k}) + 1
          BY <4>1, FS_AddElement
        <5> QED
          BY <4>1, <5>1
      <4>3. {k, l} = {k} \cup {l}
        OBVIOUS
      <4> QED
        BY <4>2, <4>3
    <3>3. 2 <= Cardinality(used[d]) /\ Cardinality(used[d]) \in Nat
      BY <3>1, <3>2, FS_Subset, FS_CardinalityType
    <3> QED
      BY <3>3 DEF Forgetful
  <2>3. Chained
    BY <2>1, <2>2 DEF ChainInv
  <2>4. b \in reads[c] /\ b[1] # c /\ status[b[1]] # "committed"
    BY DEF Dirty
  <2>5. PICK k \in Keys : \E h, i \in Places(k) : h < i /\ Creator(k, h) = b[1] /\ Creator(k, i) = c
    BY <2>3, <2>4 DEF Chained, ReadsFromEarlier
  <2> QED
    BY <2>3, <2>4, <2>5 DEF Chained, CommittedFirst
<1> QED
  BY <1>1, ChainInvInit, ChainInvNext, PTL DEF Spec

----------------------------------------------------------------------------
(* The requests that have come, and the sessions that sent a bare packet:   *)
(* there are finitely many, within the bound.                               *)
Requests == {r \in Trans \X (1..MaxRequests) : r[2] <= req[r[1]]}

BareOnes == {c \in Trans : bare[c]}

RequestInv ==
  /\ ServiceInv
  /\ garbage \in Nat
  /\ bare \in [Trans -> BOOLEAN]
  /\ IsFiniteSet(Requests) /\ IsFiniteSet(BareOnes)
  /\ \A c \in Trans : req[c] <= MaxRequests
  /\ \A c \in Trans : pc[c] = "walk" => req[c] > 0

(* Where there is room for a request, its number is within the bound.       *)
LEMMA RoomLeft ==
  ASSUME RequestInv, NEW c \in Trans, NEW lacks \in BOOLEAN, Room(c, lacks)
  PROVE  req[c] + 1 \in 1..MaxRequests
<1> DEFINE B == {d \in Trans : bare[d] \/ (lacks /\ d = c)}
<1>1. IsFiniteSet(B)
  <2>1. IsFiniteSet(BareOnes \cup {c})
    BY FS_AddElement DEF RequestInv
  <2>2. B \subseteq BareOnes \cup {c}
    BY DEF BareOnes
  <2> QED
    BY <2>1, <2>2, FS_Subset
<1>2. Cardinality(B) \in Nat /\ Cardinality(Requests) \in Nat
  BY <1>1, FS_CardinalityType DEF RequestInv
<1>3. Cardinality(Requests) + 2 * Cardinality(B) + garbage < MaxRequests
  BY DEF Room, Requests
<1>4. Cardinality(Requests) < MaxRequests
  BY <1>2, <1>3, ServiceAssumption DEF RequestInv
<1>5. req[c] \in Nat /\ req[c] <= MaxRequests /\ MaxRequests \in Nat
  BY ServiceAssumption DEF RequestInv, ServiceInv
<1>6. req[c] # MaxRequests
  <2> SUFFICES ASSUME req[c] = MaxRequests PROVE FALSE
    OBVIOUS
  <2> DEFINE f == [i \in 1..MaxRequests |-> <<c, i>>]
  <2>1. \A i \in 1..MaxRequests : <<c, i>> \in Requests
    BY <1>5 DEF Requests
  <2>2. f \in Injection(1..MaxRequests, Requests)
    <3>1. f \in [1..MaxRequests -> Requests]
      BY <2>1
    <3>2. \A i, j \in 1..MaxRequests : f[i] = f[j] => i = j
      OBVIOUS
    <3> QED
      BY <3>1, <3>2 DEF Injection, IsInjective
  <2>3. Cardinality(1..MaxRequests) <= Cardinality(Requests)
    BY <2>2, FS_Injection DEF RequestInv
  <2>4. Cardinality(1..MaxRequests) = MaxRequests
    BY <1>5, FS_Interval
  <2> QED
    BY <1>2, <1>4, <1>5, <2>3, <2>4
<1> QED
  BY <1>5, <1>6

(* Nothing has been requested at first. *)
LEMMA RequestInvInit == Init => RequestInv
<1> SUFFICES ASSUME Init PROVE RequestInv
  OBVIOUS
<1>1. Requests = {} /\ BareOnes = {}
  BY DEF Init, Requests, BareOnes
<1>2. garbage \in Nat /\ bare \in [Trans -> BOOLEAN] /\ \A c \in Trans : req[c] <= MaxRequests
  BY ServiceAssumption DEF Init
<1> QED
  BY <1>1, <1>2, ServiceInvInit, FS_EmptySet DEF RequestInv, Init

(* A request adds one to those of its session. *)
LEMMA RequestInvNext == RequestInv /\ [Next]_vars => RequestInv'
<1> SUFFICES ASSUME RequestInv, [Next]_vars PROVE RequestInv'
  OBVIOUS
<1>0. ServiceInv /\ ServiceInv'
  BY ServiceInvNext DEF RequestInv
<1>1. ASSUME UNCHANGED <<garbage, req>>, NEW c \in Trans, bare' \in [Trans -> BOOLEAN],
             \A d \in Trans \ {c} : bare'[d] = bare[d],
             \A d \in Trans : pc'[d] = "walk" => pc[d] = "walk"
      PROVE RequestInv'
  <2>1. IsFiniteSet(BareOnes \cup {c})
    BY FS_AddElement DEF RequestInv
  <2>2. BareOnes' \in SUBSET (BareOnes \cup {c})
    BY <1>1 DEF BareOnes
  <2>3. IsFiniteSet(BareOnes')
    BY <2>1, <2>2, FS_Subset
  <2>4. Requests' = Requests
    BY <1>1 DEF Requests
  <2> QED
    BY <1>0, <1>1, <2>3, <2>4 DEF RequestInv
<1>2. ASSUME UNCHANGED <<garbage, req, bare>>, \A d \in Trans : pc'[d] = "walk" => pc[d] = "walk"
      PROVE RequestInv'
  <2>1. Requests' = Requests /\ BareOnes' = BareOnes
    BY <1>2 DEF Requests, BareOnes
  <2> QED
    BY <1>0, <1>2, <2>1 DEF RequestInv
<1>3. ASSUME NEW c \in Trans, NEW p, NEW S, NEW l, EnterStore(c, p, S, l)
      PROVE RequestInv'
  <2> DEFINE r == <<c, req[c] + 1>>
  <2>1. /\ garbage' = garbage /\ req' = [req EXCEPT ![c] = @ + 1]
        /\ bare' = [bare EXCEPT ![c] = @ \/ FALSE \in S] /\ Room(c, FALSE \in S)
    BY <1>3 DEF EnterStore, fixed
  <2>2. req[c] + 1 \in 1..MaxRequests /\ req[c] \in Nat
    <3>1. (FALSE \in S) \in BOOLEAN
      OBVIOUS
    <3>2. req[c] + 1 \in 1..MaxRequests
      BY <2>1, <3>1, RoomLeft
    <3> QED
      BY <3>2 DEF RequestInv, ServiceInv
  <2>3. Requests' \in SUBSET (Requests \cup {r})
    <3> SUFFICES ASSUME NEW q \in Trans \X (1..MaxRequests), q[2] <= req'[q[1]], q \notin Requests
                 PROVE q = r
      BY DEF Requests
    <3>1. q[1] = c
      BY <2>1 DEF Requests, RequestInv, ServiceInv
    <3>2. q[2] = req[c] + 1
      BY <2>1, <2>2, <3>1 DEF Requests, RequestInv, ServiceInv
    <3> QED
      BY <3>1, <3>2
  <2>4. IsFiniteSet(Requests')
    <3>1. IsFiniteSet(Requests \cup {r})
      BY FS_AddElement DEF RequestInv
    <3> QED
      BY <2>3, <3>1, FS_Subset
  <2>5. IsFiniteSet(BareOnes')
    <3>1. IsFiniteSet(BareOnes \cup {c})
      BY FS_AddElement DEF RequestInv
    <3>2. BareOnes' \in SUBSET (BareOnes \cup {c})
      BY <2>1 DEF BareOnes, RequestInv
    <3> QED
      BY <3>1, <3>2, FS_Subset
  <2>6. \A d \in Trans : req'[d] <= MaxRequests
    BY <2>1, <2>2 DEF RequestInv, ServiceInv
  <2>7. bare' \in [Trans -> BOOLEAN]
    BY <2>1 DEF RequestInv
  <2>8. \A d \in Trans : pc'[d] = "walk" => req'[d] > 0
    <3>1. pc' = [pc EXCEPT ![c] = "walk"]
      BY <1>3 DEF EnterStore, Goto
    <3> QED
      BY <2>1, <2>2, <3>1 DEF RequestInv, ServiceInv
  <2> QED
    BY <1>0, <2>1, <2>4, <2>5, <2>6, <2>7, <2>8 DEF RequestInv
<1>4. CASE UNCHANGED vars
  BY <1>2, <1>4 DEF vars, fixed, requestVars, historyVars
<1>5. ASSUME NEW c \in Trans, CopyUnset(c) \/ EndOfInput(c) PROVE RequestInv'
  <2>1. UNCHANGED <<garbage, req>>
    BY <1>5 DEF CopyUnset, EndOfInput, fixed, requestVars
  <2>2. bare' \in [Trans -> BOOLEAN] /\ \A d \in Trans \ {c} : bare'[d] = bare[d]
    BY <1>5 DEF CopyUnset, EndOfInput, RequestInv
  <2>3. \A d \in Trans : pc'[d] = "walk" => pc[d] = "walk"
    BY <1>0, <1>5 DEF CopyUnset, EndOfInput, Goto, ServiceInv
  <2> QED
    BY <1>1, <2>1, <2>2, <2>3
<1>6. ASSUME NEW c \in Trans,
             VisitCommitted(c) \/ VisitPending(c) \/ Conflict(c) \/ AddVersion(c)
             \/ Reply(c) \/ Commit(c) \/ AnswerCommit(c)
      PROVE RequestInv'
  <2>1. UNCHANGED <<garbage, req, bare>>
    BY <1>6 DEF VisitCommitted, VisitPending, Conflict, AddVersion, Reply, Commit, AnswerCommit,
                fixed, requestVars, historyVars
  <2>2. \A d \in Trans : pc'[d] = "walk" => pc[d] = "walk"
    BY <1>0, <1>6 DEF VisitCommitted, VisitPending, Conflict, AddVersion, Reply, Commit, AnswerCommit,
                      LeaveStore, Goto, ServiceInv
  <2> QED
    BY <1>2, <2>1, <2>2
<1> QED
  BY <1>2, <1>3, <1>4, <1>5, <1>6 DEF Next, PutRequest, GetRequest

(* Who holds a pointer to a blob: map entries, threads that have to reply,  *)
(* versions; and the thread that has made it and is still in the store.     *)
EntryHolders(b) == {k \in Keys : entry[k] = b}

ReplyHolders(b) == {c \in Trans : valuep[c] = b}

VersionHolders(b) == UNION {{k} \X VersionsWith(k, b) : k \in Keys}

PointedAt(b) == EntryHolders(b) # {} \/ ReplyHolders(b) # {} \/ VersionHolders(b) # {}

InStore(b) == \E c \in Trans : pc[c] = "walk" /\ call.put /\ b = ValueBlob(c)

Made(b) == b[2] <= req[b[1]]

FiniteHolders(b) == /\ IsFiniteSet(EntryHolders(b))
                    /\ IsFiniteSet(ReplyHolders(b))
                    /\ IsFiniteSet(VersionHolders(b))

(* The count of a blob covers its holders, and nobody points to a blob that *)
(* has not been made or has been freed.                                     *)
Counted(b) == Pointers(b) + (IF InStore(b) THEN 1 ELSE 0) <= blob[b].refcnt - garbage

BlobSafe(b) ==
  /\ FiniteHolders(b)
  /\ ~Made(b) => blob[b].refcnt = garbage /\ ~PointedAt(b)
  /\ Counted(b)
  /\ PointedAt(b) \/ InStore(b) => blob[b].allocated

AnyMemory == [Blobs -> [refcnt : Int, allocated : BOOLEAN]]

BlobTypes ==
  /\ blob \in AnyMemory
  /\ entry \in [Keys -> Blobs \cup {NoBlob}]
  /\ valuep \in [Trans -> Blobs \cup {NoBlob}]
  /\ \A k \in Keys : \A i \in Places(k) : versions[k][i].blob \in Blobs \cup {NoBlob}
  /\ \A c \in Trans : pc[c] # "reply" => valuep[c] = NoBlob

BlobInv == RequestInv /\ BlobTypes /\ \A b \in Blobs : BlobSafe(b)

(* A version holds its blob at its place. *)
LEMMA VersionHolder ==
  ASSUME NEW b, NEW k, NEW i
  PROVE  <<k, i>> \in VersionHolders(b) <=> k \in Keys /\ i \in Places(k) /\ versions[k][i].blob = b
  BY DEF VersionHolders, VersionsWith, Places

(* All that point to a blob are its holders, counted. *)
LEMMA PointersOf ==
  ASSUME NEW b, FiniteHolders(b)
  PROVE  /\ Pointers(b) = Cardinality(EntryHolders(b)) + Cardinality(ReplyHolders(b))
                          + Cardinality(VersionHolders(b))
         /\ Cardinality(EntryHolders(b)) \in Nat /\ Cardinality(ReplyHolders(b)) \in Nat
         /\ Cardinality(VersionHolders(b)) \in Nat /\ Pointers(b) \in Nat
         /\ PointedAt(b) <=> Pointers(b) > 0
<1>1. Pointers(b) = Cardinality(EntryHolders(b)) + Cardinality(ReplyHolders(b))
                    + Cardinality(VersionHolders(b))
  BY DEF Pointers, EntryHolders, ReplyHolders, VersionHolders
<1>2. /\ Cardinality(EntryHolders(b)) \in Nat /\ Cardinality(ReplyHolders(b)) \in Nat
      /\ Cardinality(VersionHolders(b)) \in Nat
  BY FS_CardinalityType DEF FiniteHolders
<1>3. /\ EntryHolders(b) = {} <=> Cardinality(EntryHolders(b)) = 0
      /\ ReplyHolders(b) = {} <=> Cardinality(ReplyHolders(b)) = 0
      /\ VersionHolders(b) = {} <=> Cardinality(VersionHolders(b)) = 0
  BY FS_EmptySet DEF FiniteHolders
<1> QED
  BY <1>1, <1>2, <1>3 DEF PointedAt

(* The same after a step. *)
LEMMA PointersOfNext ==
  ASSUME NEW b, FiniteHolders(b)'
  PROVE  /\ Pointers(b)' = Cardinality(EntryHolders(b)') + Cardinality(ReplyHolders(b)')
                           + Cardinality(VersionHolders(b)')
         /\ Pointers(b)' \in Nat
         /\ PointedAt(b)' <=> Pointers(b)' > 0
<1>1. Pointers(b)' = Cardinality(EntryHolders(b)') + Cardinality(ReplyHolders(b)')
                     + Cardinality(VersionHolders(b)')
  BY DEF Pointers, EntryHolders, ReplyHolders, VersionHolders
<1>2. /\ Cardinality(EntryHolders(b)') \in Nat /\ Cardinality(ReplyHolders(b)') \in Nat
      /\ Cardinality(VersionHolders(b)') \in Nat
  BY FS_CardinalityType DEF FiniteHolders
<1>3. /\ EntryHolders(b)' = {} <=> Cardinality(EntryHolders(b)') = 0
      /\ ReplyHolders(b)' = {} <=> Cardinality(ReplyHolders(b)') = 0
      /\ VersionHolders(b)' = {} <=> Cardinality(VersionHolders(b)') = 0
  BY FS_EmptySet DEF FiniteHolders
<1> QED
  BY <1>1, <1>2, <1>3 DEF PointedAt

(* A set without one of its elements, or with a new one, in numbers.        *)
LEMMA OneMore ==
  ASSUME NEW S, NEW x, IsFiniteSet(S), x \notin S
  PROVE  IsFiniteSet(S \cup {x}) /\ Cardinality(S \cup {x}) = Cardinality(S) + 1
  BY FS_AddElement

(* A finite set without one of its members has one member less. *)
LEMMA OneLess ==
  ASSUME NEW S, NEW x, IsFiniteSet(S), x \in S
  PROVE  /\ IsFiniteSet(S \ {x}) /\ Cardinality(S \ {x}) = Cardinality(S) - 1
         /\ Cardinality(S) \in Nat
  BY FS_RemoveElement, FS_CardinalityType

(* No blob has been made at first. *)
LEMMA BlobInvInit == Init => BlobInv
<1> SUFFICES ASSUME Init PROVE BlobInv
  OBVIOUS
<1>1. RequestInv
  BY RequestInvInit
<1>2. /\ \A k \in Keys : Places(k) = {} /\ entry[k] = NoBlob
      /\ \A c \in Trans : valuep[c] = NoBlob /\ pc[c] = "request"
  BY DEF Init, Places
<1>3. garbage \in Nat
  BY ServiceAssumption DEF Init
<1>4. BlobTypes
  <2>1. blob \in [Blobs -> [refcnt : Int, allocated : BOOLEAN]]
    <3>1. [refcnt |-> garbage, allocated |-> FALSE] \in [refcnt : Int, allocated : BOOLEAN]
      BY <1>3
    <3> QED
      BY <3>1 DEF Init
  <2>2. entry \in [Keys -> Blobs \cup {NoBlob}] /\ valuep \in [Trans -> Blobs \cup {NoBlob}]
    BY DEF Init
  <2> QED
    BY <1>2, <2>1, <2>2 DEF BlobTypes, AnyMemory
<1>5. ASSUME NEW b \in Blobs PROVE BlobSafe(b)
  <2>1. b # NoBlob
    BY NoBlobAssumption
  <2>2. EntryHolders(b) = {} /\ ReplyHolders(b) = {} /\ VersionHolders(b) = {}
    BY <1>2, <2>1 DEF EntryHolders, ReplyHolders, VersionHolders, VersionsWith, Places
  <2>3. FiniteHolders(b) /\ ~PointedAt(b)
    BY <2>2, FS_EmptySet DEF FiniteHolders, PointedAt
  <2>4. Pointers(b) = 0
    BY <2>3, PointersOf
  <2>5. ~InStore(b) /\ blob[b].refcnt = garbage
    BY <1>2 DEF InStore, Init
  <2>6. Counted(b)
    BY <1>3, <2>4, <2>5 DEF Counted
  <2> QED
    BY <2>3, <2>5, <2>6 DEF BlobSafe
<1> QED
  BY <1>1, <1>4, <1>5 DEF BlobInv

(* A blob whose count and holders a step leaves alone stays safe. *)
LEMMA BlobUntouched ==
  ASSUME NEW b, BlobSafe(b), UNCHANGED <<blob[b], garbage>>,
         EntryHolders(b)' = EntryHolders(b), ReplyHolders(b)' = ReplyHolders(b),
         VersionHolders(b)' = VersionHolders(b),
         InStore(b)' => InStore(b), Made(b) => Made(b)', garbage \in Nat, blob[b].refcnt \in Int
  PROVE  BlobSafe(b)'
<1>1. FiniteHolders(b)' /\ (PointedAt(b)' <=> PointedAt(b))
  BY DEF BlobSafe, FiniteHolders, PointedAt
<1>2. Pointers(b)' = Pointers(b) /\ Pointers(b) \in Nat
  BY PointersOf DEF BlobSafe, Pointers, EntryHolders, ReplyHolders, VersionHolders
<1>3. Counted(b)'
  BY <1>2 DEF BlobSafe, Counted
<1> QED
  BY <1>1, <1>3 DEF BlobSafe

(* So does one whose references change by what its holders do, or more, and *)
(* that is freed only when none is left.                                    *)
LEMMA BlobRecounted ==
  ASSUME NEW b, BlobSafe(b), garbage' = garbage, garbage \in Nat, blob[b].refcnt \in Int,
         NEW gain \in Int, blob'[b].refcnt = blob[b].refcnt + gain,
         FiniteHolders(b)', Pointers(b)' + (IF InStore(b)' THEN 1 ELSE 0)
                            <= Pointers(b) + (IF InStore(b) THEN 1 ELSE 0) + gain,
         Made(b)', blob'[b].allocated \/ blob'[b].refcnt = 0
  PROVE  BlobSafe(b)'
<1>1. Pointers(b) \in Nat /\ Pointers(b)' \in Nat /\ (PointedAt(b)' <=> Pointers(b)' > 0)
  BY PointersOf, PointersOfNext DEF BlobSafe
<1>2. Pointers(b)' + (IF InStore(b)' THEN 1 ELSE 0) <= blob'[b].refcnt - garbage'
  BY <1>1 DEF BlobSafe, Counted
<1>3. blob'[b].allocated \/ (~PointedAt(b)' /\ ~InStore(b)')
  BY <1>1, <1>2
<1> QED
  BY <1>2, <1>3 DEF BlobSafe, Counted

(* The operations of data.c on the memory of the blobs: one is made, gets a *)
(* reference, or loses one; the others stay as they are.                    *)
LEMMA BlobOperations ==
  ASSUME NEW M \in AnyMemory, NEW b \in Blobs
  PROVE  /\ BlobRef(M, b) \in AnyMemory
         /\ BlobRef(M, b)[b].refcnt = M[b].refcnt + 1
         /\ BlobRef(M, b)[b].allocated = M[b].allocated
         /\ \A d \in Blobs : d # b => BlobRef(M, b)[d] = M[d]
         /\ BlobCreate(M, b) \in AnyMemory
         /\ BlobCreate(M, b)[b].refcnt = M[b].refcnt + 1
         /\ BlobCreate(M, b)[b].allocated
         /\ \A d \in Blobs : d # b => BlobCreate(M, b)[d] = M[d]
         /\ BlobUnref(M, b) \in AnyMemory
         /\ BlobUnref(M, b)[b].refcnt = M[b].refcnt - 1
         /\ BlobUnref(M, b)[b].allocated \/ BlobUnref(M, b)[b].refcnt = 0
         /\ \A d \in Blobs : d # b => BlobUnref(M, b)[d] = M[d]
<1>1. M[b] \in [refcnt : Int, allocated : BOOLEAN] /\ M[b].refcnt \in Int
  BY DEF AnyMemory
<1>2. ASSUME NEW N \in AnyMemory
      PROVE  /\ BlobRef(N, b) \in AnyMemory
             /\ BlobRef(N, b)[b].refcnt = N[b].refcnt + 1
             /\ BlobRef(N, b)[b].allocated = N[b].allocated
             /\ \A d \in Blobs : d # b => BlobRef(N, b)[d] = N[d]
  <2>1. N[b] \in [refcnt : Int, allocated : BOOLEAN]
    BY DEF AnyMemory
  <2>2. [N[b] EXCEPT !.refcnt = @ + 1] \in [refcnt : Int, allocated : BOOLEAN]
    BY <2>1
  <2>3. BlobRef(N, b) = [N EXCEPT ![b] = [N[b] EXCEPT !.refcnt = @ + 1]]
    BY DEF BlobRef
  <2>4. /\ BlobRef(N, b) \in AnyMemory
        /\ BlobRef(N, b)[b] = [N[b] EXCEPT !.refcnt = @ + 1]
        /\ \A d \in Blobs : d # b => BlobRef(N, b)[d] = N[d]
    BY <2>2, <2>3 DEF AnyMemory
  <2> QED
    BY <2>1, <2>4
<1>3. /\ BlobCreate(M, b) \in AnyMemory
      /\ BlobCreate(M, b)[b].refcnt = M[b].refcnt + 1
      /\ BlobCreate(M, b)[b].allocated
      /\ \A d \in Blobs : d # b => BlobCreate(M, b)[d] = M[d]
  <2> DEFINE N == [M EXCEPT ![b].allocated = TRUE]
  <2>1. [M[b] EXCEPT !.allocated = TRUE] \in [refcnt : Int, allocated : BOOLEAN]
    BY <1>1
  <2>2. /\ N \in AnyMemory /\ N[b] = [M[b] EXCEPT !.allocated = TRUE]
        /\ \A d \in Blobs : d # b => N[d] = M[d]
    BY <2>1 DEF AnyMemory
  <2>3. N[b].refcnt = M[b].refcnt /\ N[b].allocated
    BY <1>1, <2>2
  <2>4. BlobCreate(M, b) = BlobRef(N, b)
    BY DEF BlobCreate
  <2> HIDE DEF N
  <2>5. /\ BlobRef(N, b) \in AnyMemory
        /\ BlobRef(N, b)[b].refcnt = N[b].refcnt + 1
        /\ BlobRef(N, b)[b].allocated = N[b].allocated
        /\ \A d \in Blobs : d # b => BlobRef(N, b)[d] = N[d]
    BY <1>2, <2>2
  <2>6. BlobRef(N, b)[b].allocated
    BY <2>3, <2>5, Zenon
  <2>7. BlobRef(N, b)[b].refcnt = M[b].refcnt + 1
    BY <2>3, <2>5
  <2> QED
    BY <2>2, <2>4, <2>5, <2>6, <2>7
<1>4. /\ BlobUnref(M, b) \in AnyMemory
      /\ BlobUnref(M, b)[b] = [refcnt |-> M[b].refcnt - 1, allocated |-> M[b].refcnt - 1 # 0]
      /\ \A d \in Blobs : d # b => BlobUnref(M, b)[d] = M[d]
  <2> DEFINE r == [refcnt |-> M[b].refcnt - 1, allocated |-> M[b].refcnt - 1 # 0]
  <2>1. r \in [refcnt : Int, allocated : BOOLEAN]
    BY <1>1
  <2>2. BlobUnref(M, b) = [M EXCEPT ![b] = r]
    BY DEF BlobUnref
  <2> HIDE DEF r
  <2>3. BlobUnref(M, b) \in AnyMemory /\ BlobUnref(M, b)[b] = r
        /\ \A d \in Blobs : d # b => BlobUnref(M, b)[d] = M[d]
    BY <2>1, <2>2 DEF AnyMemory
  <2> QED
    BY <2>3 DEF r
<1>5. BlobUnref(M, b)[b].refcnt = M[b].refcnt - 1
  BY <1>4
<1>6. BlobUnref(M, b)[b].allocated \/ BlobUnref(M, b)[b].refcnt = 0
  <2>1. BlobUnref(M, b)[b].allocated = (M[b].refcnt - 1 # 0)
    BY <1>4
  <2>2. CASE M[b].refcnt - 1 # 0
    BY <2>1, <2>2, Zenon
  <2>3. CASE M[b].refcnt - 1 = 0
    BY <1>5, <2>3
  <2> QED
    BY <2>2, <2>3
<1> QED
  BY <1>2, <1>3, <1>4, <1>5, <1>6

(* A request makes its blobs: the map or the version to come holds them.    *)
LEMMA BlobsOfRequest ==
  ASSUME BlobInv, NEW c \in Trans, NEW put \in BOOLEAN, NEW S, NEW l, EnterStore(c, put, S, l)
  PROVE  BlobTypes' /\ \A b \in Blobs : BlobSafe(b)'
<1> PICK r : r = req[c] + 1
  OBVIOUS
<1> DEFINE keyBlob == <<c, r, "key">>
           value == <<c, r, "value">>
           made == IF put THEN BlobCreate(BlobCreate(blob, keyBlob), value) ELSE BlobCreate(blob, keyBlob)
<1>1. /\ RequestInv /\ ServiceInv /\ BlobTypes /\ garbage \in Nat
      /\ \A b \in Blobs : BlobSafe(b)
  BY DEF BlobInv, RequestInv
<1>2. /\ mapLock = NoThread /\ req' = [req EXCEPT ![c] = @ + 1]
      /\ UNCHANGED <<valuep, versions, garbage>> /\ Goto(c, "walk") /\ Room(c, FALSE \in S)
      /\ pc[c] = "request"
  BY DEF EnterStore, fixed, At
<1>3. keyBlob \in Blobs /\ value \in Blobs /\ req'[c] = req[c] + 1 /\ req[c] \in Nat
  <2>1. (FALSE \in S) \in BOOLEAN
    OBVIOUS
  <2>2. req[c] + 1 \in 1..MaxRequests
    BY <1>1, <1>2, <2>1, RoomLeft
  <2> QED
    BY <1>1, <1>2, <2>2 DEF Blobs, ServiceInv
<1>4. PICK k0 \in Keys :
        /\ call' = [put |-> put, key |-> k0]
        /\ IF entry[k0] = NoBlob
           THEN entry' = [entry EXCEPT ![k0] = keyBlob] /\ blob' = made
           ELSE UNCHANGED entry /\ blob' = KeyDispose(made, keyBlob)
  BY <1>3 DEF EnterStore
<1>5. \A d \in Trans : pc[d] # "walk"
  <2>1. \A d \in Trans : pc[d] = "walk" => mapLock = d
    BY <1>1 DEF ServiceInv
  <2> QED
    BY <1>2, <2>1, ServiceAssumption
<1>6. \A b : ~InStore(b) /\ (InStore(b)' <=> put /\ b = value)
  <2>1. \A d \in Trans : pc'[d] = "walk" <=> d = c
    BY <1>1, <1>2, <1>5 DEF Goto, ServiceInv
  <2> QED
    BY <1>3, <1>4, <1>5, <2>1 DEF InStore, ValueBlob
<1>7. \A b \in Blobs : Made(b) => Made(b)'
  BY <1>1, <1>2 DEF Made, Blobs, ServiceInv
<1>8. ~Made(keyBlob) /\ ~Made(value) /\ Made(keyBlob)' /\ Made(value)'
  BY <1>1, <1>2, <1>3 DEF Made, ServiceInv
<1>9. /\ blob[keyBlob].refcnt = garbage /\ blob[value].refcnt = garbage
      /\ ~PointedAt(keyBlob) /\ ~PointedAt(value)
  BY <1>1, <1>3, <1>8 DEF BlobSafe
<1>10. \A b \in Blobs : blob[b] \in [refcnt : Int, allocated : BOOLEAN]
  BY <1>1 DEF BlobTypes, AnyMemory
<1>11. /\ made \in AnyMemory
       /\ made[keyBlob].refcnt = garbage + 1 /\ made[keyBlob].allocated
       /\ put => made[value].refcnt = garbage + 1 /\ made[value].allocated
       /\ ~put => made[value] = blob[value]
       /\ \A b \in Blobs : b # keyBlob /\ b # value => made[b] = blob[b]
  <2> DEFINE one == BlobCreate(blob, keyBlob)
  <2>1. /\ one \in AnyMemory
        /\ one[keyBlob].refcnt = garbage + 1 /\ one[keyBlob].allocated
        /\ \A b \in Blobs : b # keyBlob => one[b] = blob[b]
    <3>1. blob \in AnyMemory
      BY <1>1 DEF BlobTypes
    <3>2. keyBlob \in Blobs
      BY <1>3
    <3> HIDE DEF keyBlob, value
    <3>3. /\ one \in AnyMemory /\ one[keyBlob].refcnt = blob[keyBlob].refcnt + 1
          /\ one[keyBlob].allocated
          /\ \A b \in Blobs : b # keyBlob => one[b] = blob[b]
      BY <3>1, <3>2, BlobOperations
    <3> HIDE DEF one
    <3> QED
      BY <1>9, <3>3
  <2>2. keyBlob # value
    OBVIOUS
  <2>3. ~put => made = one
    OBVIOUS
  <2>4. put => made = BlobCreate(one, value)
    OBVIOUS
  <2> HIDE DEF one, made
  <2>5. CASE ~put
    BY <1>3, <2>1, <2>2, <2>3, <2>5
  <2>6. CASE put
    <3> DEFINE two == BlobCreate(one, value)
    <3>1. one[value] = blob[value]
      BY <1>3, <2>1, <2>2
    <3>2. /\ two \in AnyMemory
          /\ two[value].refcnt = garbage + 1 /\ two[value].allocated
          /\ \A b \in Blobs : b # value => two[b] = one[b]
      <4> HIDE DEF keyBlob, value
      <4>1. value \in Blobs
        BY <1>3
      <4>2. /\ two \in AnyMemory /\ two[value].refcnt = one[value].refcnt + 1
            /\ two[value].allocated
            /\ \A b \in Blobs : b # value => two[b] = one[b]
        BY <2>1, <4>1, BlobOperations
      <4> HIDE DEF two
      <4> QED
        BY <1>9, <3>1, <4>2
    <3> HIDE DEF two
    <3>3. made = two
      BY <2>4, <2>6 DEF two
    <3> HIDE DEF keyBlob, value
    <3> QED
      BY <1>3, <2>1, <2>2, <2>6, <3>2, <3>3
  <2> QED
    BY <2>5, <2>6
<1> HIDE DEF made
<1>12. /\ blob' \in AnyMemory
       /\ \A b \in Blobs : b # keyBlob => blob'[b] = made[b]
       /\ entry[k0] = NoBlob => blob'[keyBlob] = made[keyBlob]
       /\ entry[k0] # NoBlob => blob'[keyBlob].refcnt = garbage
  <2> HIDE DEF keyBlob, value
  <2>1. CASE entry[k0] = NoBlob
    BY <1>3, <1>4, <1>11, <2>1
  <2>2. CASE entry[k0] # NoBlob
    <3>1. blob' = BlobUnref(made, keyBlob)
      BY <1>4, <2>2 DEF KeyDispose
    <3>3. /\ BlobUnref(made, keyBlob) \in AnyMemory
          /\ BlobUnref(made, keyBlob)[keyBlob].refcnt = made[keyBlob].refcnt - 1
          /\ \A d \in Blobs : d # keyBlob => BlobUnref(made, keyBlob)[d] = made[d]
      <4>1. made \in AnyMemory /\ keyBlob \in Blobs
        BY <1>3, <1>11
      <4> QED
        BY <4>1, BlobOperations
    <3>4. blob'[keyBlob].refcnt = garbage
      <4>1. made[keyBlob].refcnt = garbage + 1
        BY <1>11
      <4>2. blob'[keyBlob].refcnt = made[keyBlob].refcnt - 1
        BY <3>1, <3>3
      <4>3. garbage \in Nat
        BY <1>1
      <4> QED
        BY <4>1, <4>2, <4>3
    <3> QED
      BY <2>2, <3>1, <3>3, <3>4
  <2> QED
    BY <2>1, <2>2
<1>13. /\ entry' \in [Keys -> Blobs \cup {NoBlob}]
       /\ \A k \in Keys : entry'[k] = IF k = k0 /\ entry[k0] = NoBlob THEN keyBlob ELSE entry[k]
  BY <1>1, <1>3, <1>4 DEF BlobTypes
<1>14. \A b : ReplyHolders(b)' = ReplyHolders(b) /\ VersionHolders(b)' = VersionHolders(b)
  BY <1>2 DEF ReplyHolders, VersionHolders, VersionsWith
<1>15. BlobTypes'
  <2>1. \A d \in Trans : pc'[d] # "reply" => valuep'[d] = NoBlob
    BY <1>1, <1>2 DEF BlobTypes, Goto, ServiceInv
  <2>2. valuep' \in [Trans -> Blobs \cup {NoBlob}]
        /\ \A k \in Keys : \A i \in Places(k)' : versions'[k][i].blob \in Blobs \cup {NoBlob}
    BY <1>1, <1>2 DEF BlobTypes, Places
  <2> QED
    BY <1>12, <1>13, <2>1, <2>2 DEF BlobTypes
<1>16. ASSUME NEW b \in Blobs, b # keyBlob PROVE EntryHolders(b)' = EntryHolders(b)
  <2>1. b # NoBlob
    BY NoBlobAssumption
  <2> QED
    BY <1>13, <1>16, <2>1 DEF EntryHolders
<1>17. ASSUME NEW b \in Blobs PROVE BlobSafe(b)'
  <2>0. BlobSafe(b) /\ blob[b].refcnt \in Int /\ FiniteHolders(b)
    BY <1>1, <1>10 DEF BlobSafe
  <2>1. CASE b # keyBlob /\ (b # value \/ ~put)
    <3>1. blob'[b] = blob[b]
      BY <1>11, <1>12, <2>1
    <3>2. ~InStore(b)'
      BY <1>6, <2>1
    <3> QED
      BY <1>1, <1>2, <1>7, <1>14, <1>16, <2>0, <2>1, <3>1, <3>2, BlobUntouched
  <2>2. CASE b = value /\ put
    <3>1. blob'[b].refcnt = blob[b].refcnt + 1 /\ blob'[b].allocated /\ b # keyBlob
      BY <1>3, <1>9, <1>11, <1>12, <2>2
    <3>2. EntryHolders(b)' = EntryHolders(b)
      BY <1>16, <3>1
    <3>3. FiniteHolders(b)'
      BY <1>14, <2>0, <3>2 DEF FiniteHolders
    <3>4. Pointers(b)' = Pointers(b) /\ Pointers(b) \in Nat
      BY <1>14, <2>0, <3>2, <3>3, PointersOf, PointersOfNext
    <3>5. InStore(b)' /\ ~InStore(b)
      BY <1>6, <2>2
    <3>6. Pointers(b)' + (IF InStore(b)' THEN 1 ELSE 0) <= Pointers(b) + (IF InStore(b) THEN 1 ELSE 0) + 1
      BY <3>4, <3>5
    <3>7. Made(b)'
      BY <1>8, <2>2
    <3> QED
      BY <1>1, <1>2, <2>0, <3>1, <3>3, <3>6, <3>7, BlobRecounted
  <2>3. CASE b = keyBlob /\ entry[k0] = NoBlob
    <3>1. blob'[b].refcnt = blob[b].refcnt + 1 /\ blob'[b].allocated
      BY <1>9, <1>11, <1>12, <2>3
    <3>2. EntryHolders(b)' = EntryHolders(b) \cup {k0} /\ k0 \notin EntryHolders(b)
      <4>1. b # NoBlob
        BY NoBlobAssumption
      <4> QED
        BY <1>13, <2>3, <4>1 DEF EntryHolders
    <3>3. IsFiniteSet(EntryHolders(b)') /\ Cardinality(EntryHolders(b)') = Cardinality(EntryHolders(b)) + 1
      BY <2>0, <3>2, OneMore DEF FiniteHolders
    <3>4. FiniteHolders(b)'
      BY <1>14, <2>0, <3>3 DEF FiniteHolders
    <3>5. Pointers(b)' = Pointers(b) + 1 /\ Pointers(b) \in Nat
      BY <1>14, <2>0, <3>3, <3>4, PointersOf, PointersOfNext
    <3>6. ~InStore(b)' /\ ~InStore(b)
      BY <1>3, <1>6, <2>3
    <3>7. Pointers(b)' + (IF InStore(b)' THEN 1 ELSE 0) <= Pointers(b) + (IF InStore(b) THEN 1 ELSE 0) + 1
      BY <3>5, <3>6
    <3>8. Made(b)'
      BY <1>8, <2>3
    <3> QED
      BY <1>1, <1>2, <2>0, <3>1, <3>4, <3>7, <3>8, BlobRecounted
  <2>4. CASE b = keyBlob /\ entry[k0] # NoBlob
    <3>1. blob'[b].refcnt = garbage
      BY <1>12, <2>4
    <3>2. EntryHolders(b)' = EntryHolders(b)
      BY <1>13, <2>4 DEF EntryHolders
    <3>3. FiniteHolders(b)' /\ (PointedAt(b)' <=> PointedAt(b))
      BY <1>14, <2>0, <3>2 DEF FiniteHolders, PointedAt
    <3>4. ~PointedAt(b)' /\ Pointers(b)' = 0
      BY <1>9, <2>4, <3>3, PointersOfNext
    <3>5. ~InStore(b)'
      BY <1>3, <1>6, <2>4
    <3>6. Counted(b)' /\ Made(b)'
      BY <1>1, <1>2, <1>8, <2>4, <3>1, <3>4, <3>5 DEF Counted
    <3> QED
      BY <3>3, <3>4, <3>5, <3>6 DEF BlobSafe
  <2> QED
    BY <2>1, <2>2, <2>3, <2>4
<1> QED
  BY <1>15, <1>17

(* A list that loses what is before the cursor gives back the reference of  *)
(* the version before it at least as often as that blob loses a holder.     *)
LEMMA BlobsOfDropped ==
  ASSUME BlobInv, NEW c \in Trans, VisitCommitted(c), versions' # versions
  PROVE  BlobTypes' /\ \A b \in Blobs : BlobSafe(b)'
<1> PICK k0 : k0 = call.key
  OBVIOUS
<1> PICK n : n = cursor
  OBVIOUS
<1> PICK p : p = List[n - 1].blob
  OBVIOUS
<1>1. /\ ServiceInv /\ BlobTypes /\ garbage \in Nat /\ \A b \in Blobs : BlobSafe(b)
  BY DEF BlobInv, RequestInv
<1>2. /\ k0 \in Keys /\ n \in Nat /\ n > 1
      /\ Places(k0) = 1..Len(List) /\ n <= Len(List) /\ Len(List) \in Nat
      /\ Places(k0)' = 1..(Len(List) - n + 1)
      /\ \A i \in Places(k0)' : versions'[k0][i] = versions[k0][i + n - 1]
      /\ p # NoBlob /\ blob' = BlobUnref(blob, p)
      /\ \A k \in Keys \ {k0} : versions'[k] = versions[k]
  BY <1>1, DroppedVersions DEF VersionDispose
<1>3. UNCHANGED <<entry, valuep, pc, call, req, garbage>>
  BY DEF VisitCommitted, fixed, requestVars
<1>4. /\ n - 1 \in Places(k0) /\ versions[k0][n - 1].blob = p /\ p \in Blobs
  <2>1. n - 1 \in Places(k0)
    BY <1>2
  <2>2. versions[k0][n - 1].blob = p
    BY DEF List
  <2> QED
    BY <1>1, <1>2, <2>1, <2>2 DEF BlobTypes
<1>5. /\ blob' \in AnyMemory /\ blob'[p].refcnt = blob[p].refcnt - 1
      /\ blob'[p].allocated \/ blob'[p].refcnt = 0
      /\ \A b \in Blobs : b # p => blob'[b] = blob[b]
  <2>1. blob \in AnyMemory
    BY <1>1 DEF BlobTypes
  <2> QED
    BY <1>2, <1>4, <2>1, BlobOperations
<1>6. /\ \A i : (i \in Places(k0))' => i \in Int /\ i + n - 1 \in Places(k0) /\ i + n - 1 # n - 1
      /\ \A k \in Keys \ {k0} : \A i : (i \in Places(k))' <=> i \in Places(k)
  BY <1>2 DEF Places
<1>7. BlobTypes'
  <2>1. ASSUME NEW k \in Keys, NEW i, (i \in Places(k))'
        PROVE versions'[k][i].blob \in Blobs \cup {NoBlob}
    <3>1. CASE k = k0
      <4>1. (i \in Places(k0))'
        BY <2>1, <3>1
      <4>2. i + n - 1 \in Places(k0) /\ versions'[k0][i] = versions[k0][i + n - 1]
        BY <1>2, <1>6, <4>1
      <4>3. versions[k0][i + n - 1].blob \in Blobs \cup {NoBlob}
        BY <1>1, <1>2, <4>2 DEF BlobTypes
      <4> QED
        BY <3>1, <4>2, <4>3
    <3>2. CASE k # k0
      BY <1>1, <1>2, <1>6, <2>1, <3>2 DEF BlobTypes
    <3> QED
      BY <3>1, <3>2
  <2> QED
    BY <1>1, <1>3, <1>5, <2>1 DEF BlobTypes
<1>8. ASSUME NEW b \in Blobs PROVE BlobSafe(b)'
  <2>0. BlobSafe(b) /\ FiniteHolders(b) /\ blob[b].refcnt \in Int
    BY <1>1 DEF BlobSafe, BlobTypes, AnyMemory
  <2>1. /\ EntryHolders(b)' = EntryHolders(b) /\ ReplyHolders(b)' = ReplyHolders(b)
        /\ InStore(b)' <=> InStore(b)
        /\ Made(b)' <=> Made(b)
    BY <1>3 DEF EntryHolders, ReplyHolders, InStore, ValueBlob, Made
  <2> DEFINE f == [x \in VersionHolders(b)' |-> IF x[1] = k0 THEN <<k0, x[2] + n - 1>> ELSE x]
             rest == VersionHolders(b) \ {<<k0, n - 1>>}
  <2>2. ASSUME NEW x \in VersionHolders(b)'
        PROVE  /\ f[x] \in rest
               /\ x[1] # k0 => f[x] = x
               /\ x[1] = k0 => x = <<k0, x[2]>> /\ x[2] \in Int /\ f[x] = <<k0, x[2] + n - 1>>
    <3>1. PICK k \in Keys, i \in Int : x = <<k, i>> /\ (i \in Places(k))' /\ versions'[k][i].blob = b
      BY DEF VersionHolders, VersionsWith, Places
    <3>2. CASE k = k0
      <4>1. i \in Int /\ i + n - 1 \in Places(k0) /\ i + n - 1 # n - 1 /\ versions[k0][i + n - 1].blob = b
        BY <1>2, <1>6, <3>1, <3>2
      <4>2. <<k0, i + n - 1>> \in rest
        BY <1>2, <4>1, VersionHolder
      <4> QED
        BY <3>1, <3>2, <4>1, <4>2
    <3>3. CASE k # k0
      <4>1. i \in Places(k) /\ versions[k][i].blob = b
        BY <1>2, <1>6, <3>1, <3>3
      <4>2. <<k, i>> \in rest
        BY <3>3, <4>1, VersionHolder
      <4> QED
        BY <3>1, <3>3, <4>2
    <3> QED
      BY <3>2, <3>3
  <2>3. f \in Injection(VersionHolders(b)', rest)
    <3>1. f \in [VersionHolders(b)' -> rest]
      BY <2>2
    <3>2. ASSUME NEW x \in VersionHolders(b)', NEW y \in VersionHolders(b)', f[x] = f[y]
          PROVE x = y
      <4>1. CASE x[1] = k0 /\ y[1] = k0
        <5>1. x[2] + n - 1 = y[2] + n - 1 /\ x[2] \in Int /\ y[2] \in Int
          BY <2>2, <3>2, <4>1
        <5>2. x[2] = y[2]
          BY <1>2, <5>1
        <5>3. x = <<k0, x[2]>> /\ y = <<k0, y[2]>>
          BY <2>2, <4>1
        <5> QED
          BY <5>2, <5>3
      <4>2. CASE x[1] # k0 /\ y[1] # k0
        BY <2>2, <3>2, <4>2
      <4>3. CASE x[1] = k0 /\ y[1] # k0
        BY <2>2, <3>2, <4>3
      <4>4. CASE x[1] # k0 /\ y[1] = k0
        BY <2>2, <3>2, <4>4
      <4> QED
        BY <4>1, <4>2, <4>3, <4>4
    <3> QED
      BY <3>1, <3>2 DEF Injection, IsInjective
  <2> HIDE DEF f
  <2>4. IsFiniteSet(rest)
    BY <2>0, FS_RemoveElement DEF FiniteHolders
  <2>5. IsFiniteSet(VersionHolders(b)') /\ Cardinality(VersionHolders(b)') <= Cardinality(rest)
    BY <2>3, <2>4, FS_Injection
  <2>6. FiniteHolders(b)'
    BY <2>0, <2>1, <2>5 DEF FiniteHolders
  <2>7. /\ Pointers(b) = Cardinality(EntryHolders(b)) + Cardinality(ReplyHolders(b))
                         + Cardinality(VersionHolders(b))
        /\ Pointers(b)' = Cardinality(EntryHolders(b)) + Cardinality(ReplyHolders(b))
                          + Cardinality(VersionHolders(b)')
        /\ Cardinality(EntryHolders(b)) \in Nat /\ Cardinality(ReplyHolders(b)) \in Nat
        /\ Cardinality(VersionHolders(b)) \in Nat /\ Cardinality(VersionHolders(b)') \in Nat
    BY <2>0, <2>1, <2>6, PointersOf, PointersOfNext, FS_CardinalityType DEF FiniteHolders
  <2>8. CASE b # p
    <3>1. rest = VersionHolders(b)
      BY <1>4, <2>8, VersionHolder
    <3>2. Pointers(b)' <= Pointers(b)
      <4>1. Cardinality(VersionHolders(b)') <= Cardinality(VersionHolders(b))
        BY <2>5, <3>1
      <4> QED
        BY <2>7, <4>1
    <3>3. Pointers(b) \in Nat /\ Pointers(b)' \in Nat
      BY <2>7
    <3>4. PointedAt(b)' => PointedAt(b)
      BY <2>0, <2>6, <3>2, <3>3, PointersOf, PointersOfNext
    <3>5. blob'[b] = blob[b] /\ garbage' = garbage
      BY <1>3, <1>5, <2>8
    <3>6. Counted(b)'
      BY <1>1, <2>0, <2>1, <3>2, <3>3, <3>5 DEF BlobSafe, Counted
    <3> QED
      BY <2>0, <2>1, <2>6, <3>4, <3>5, <3>6 DEF BlobSafe
  <2>9. CASE b = p
    <3>1. <<k0, n - 1>> \in VersionHolders(b)
      BY <1>2, <1>4, <2>9, VersionHolder
    <3>2. Cardinality(rest) = Cardinality(VersionHolders(b)) - 1
      BY <2>0, <3>1, OneLess DEF FiniteHolders
    <3>3. Pointers(b)' + (IF InStore(b)' THEN 1 ELSE 0) <= Pointers(b) + (IF InStore(b) THEN 1 ELSE 0) + (-1)
      <4>1. Pointers(b)' <= Pointers(b) - 1
        BY <2>5, <2>7, <3>2
      <4>2. Pointers(b) \in Nat /\ Pointers(b)' \in Nat
        BY <2>7
      <4> QED
        BY <2>1, <4>1, <4>2
    <3>4. Made(b)
      BY <2>0, <3>1 DEF BlobSafe, PointedAt
    <3>5. blob'[b].refcnt = blob[b].refcnt + (-1) /\ (blob'[b].allocated \/ blob'[b].refcnt = 0)
      BY <1>5, <2>0, <2>9
    <3> QED
      BY <1>1, <1>3, <2>0, <2>1, <2>6, <3>3, <3>4, <3>5, BlobRecounted
  <2> QED
    BY <2>8, <2>9
<1> QED
  BY <1>7, <1>8

(* A new version takes its blob over from the store or shares that of the   *)
(* last one, and the version it replaces gives its reference back.          *)
LEMMA BlobsOfAdded ==
  ASSUME BlobInv, NEW c \in Trans, AddVersion(c), ~(Mine(c) /\ Last.blob = NoBlob)
  PROVE  BlobTypes' /\ \A b \in Blobs : BlobSafe(b)'
<1> PICK k0 : k0 = call.key
  OBVIOUS
<1> PICK n : n = IF Mine(c) THEN Len(List) ELSE Len(List) + 1
  OBVIOUS
<1> PICK new : new = NewBlob(c)
  OBVIOUS
<1> PICK old : old = Last.blob
  OBVIOUS
<1> PICK put : put = call.put
  OBVIOUS
<1>1. /\ ServiceInv /\ BlobTypes /\ garbage \in Nat /\ blob \in AnyMemory
      /\ \A b \in Blobs : BlobSafe(b)
  BY DEF BlobInv, RequestInv, BlobTypes
<1>2. /\ k0 \in Keys /\ n \in Nat \ {0} /\ Len(List) \in Nat
      /\ List # <<>> => Last = List[Len(List)]
      /\ Mine(c) <=> List # <<>> /\ Last.creator = c
      /\ Places(k0) = 1..Len(List) /\ Places(k0)' = 1..n
      /\ \A i \in 1..(n - 1) : versions'[k0][i] = versions[k0][i]
      /\ versions'[k0][n] = [creator |-> c, blob |-> new]
      /\ \A k \in Keys \ {k0} : versions'[k] = versions[k]
  BY <1>1, AddedVersion
<1>3. /\ UNCHANGED <<entry, req, garbage>> /\ pc' = [pc EXCEPT ![c] = "reply"]
      /\ At(c, "walk")
      /\ blob' = IF Mine(c) THEN VersionDispose(Referenced(c), Last) ELSE Referenced(c)
      /\ valuep' = [valuep EXCEPT ![c] = IF put THEN NoBlob ELSE new]
  BY DEF AddVersion, Walked, LeaveStore, Goto, fixed
<1>4. /\ pc[c] = "walk" /\ put \in BOOLEAN /\ \A e \in Trans : pc[e] = "walk" => e = c
      /\ List \in Seq(AnyVersion) /\ valuep[c] = NoBlob
  <2>1. call \in [put : BOOLEAN, key : Keys] /\ List \in Seq(AnyVersion) /\ mapLock = c
    BY <1>1, <1>3, WalkedList
  <2>2. put \in BOOLEAN
    BY <2>1
  <2> QED
    BY <1>1, <1>3, <2>1, <2>2 DEF At, ServiceInv, BlobTypes
<1>5. /\ \A b : InStore(b) <=> put /\ b = ValueBlob(c)
      /\ \A b : ~InStore(b)'
      /\ put => new = ValueBlob(c)
      /\ ~put => new = IF List = <<>> THEN NoBlob ELSE Last.blob
      /\ \A b : Made(b)' <=> Made(b)
  <2>1. \A e \in Trans : pc'[e] # "walk"
    BY <1>1, <1>3, <1>4 DEF ServiceInv
  <2> QED
    BY <1>3, <1>4, <2>1 DEF InStore, NewBlob, Made
<1>6. List # <<>> => /\ Len(List) \in Places(k0) /\ versions[k0][Len(List)].blob = old
                     /\ old \in Blobs \cup {NoBlob}
  <2> SUFFICES ASSUME List # <<>>
               PROVE  /\ Len(List) \in Places(k0) /\ versions[k0][Len(List)].blob = old
                      /\ old \in Blobs \cup {NoBlob}
    OBVIOUS
  <2>1. Len(List) # 0
    BY <1>4
  <2>2. Len(List) \in Places(k0)
    BY <1>2, <2>1
  <2>3. versions[k0][Len(List)].blob = old
    BY <1>2 DEF List
  <2> QED
    BY <1>1, <1>2, <2>2, <2>3 DEF BlobTypes
<1>7. /\ new \in Blobs \cup {NoBlob}
      /\ \A b \in Blobs : b = new => Made(b) /\ (PointedAt(b) \/ InStore(b))
  <2>1. CASE put
    <3>1. new = <<c, req[c], "value">>
      BY <1>5, <2>1 DEF ValueBlob
    <3>2. req[c] \in 1..MaxRequests
      BY <1>4, ServiceAssumption DEF BlobInv, RequestInv, ServiceInv
    <3>3. new \in Blobs /\ Made(new)
      BY <3>1, <3>2 DEF Blobs, Made
    <3> QED
      BY <1>5, <2>1, <3>3
  <2>2. CASE ~put /\ List = <<>>
    BY <1>5, <2>2, NoBlobAssumption
  <2>3. CASE ~put /\ List # <<>>
    <3>1. new = old
      BY <1>5, <2>3
    <3>2. ASSUME NEW b \in Blobs, b = new PROVE Made(b) /\ PointedAt(b)
      <4>1. <<k0, Len(List)>> \in VersionHolders(b)
        BY <1>2, <1>6, <2>3, <3>1, <3>2, VersionHolder
      <4>2. PointedAt(b) /\ BlobSafe(b)
        BY <1>1, <4>1 DEF PointedAt
      <4> QED
        BY <4>2 DEF BlobSafe
    <3> QED
      BY <1>6, <2>3, <3>1, <3>2
  <2> QED
    BY <1>4, <2>1, <2>2, <2>3
<1>8. Mine(c) => old \in Blobs /\ n = Len(List) /\ List # <<>>
  BY <1>2, <1>6
<1>9. /\ Referenced(c) \in AnyMemory
      /\ \A b \in Blobs : /\ Referenced(c)[b].refcnt = blob[b].refcnt + (IF ~put /\ b = new THEN 2 ELSE 0)
                          /\ Referenced(c)[b].allocated = blob[b].allocated
  <2>1. \A b \in Blobs : blob[b].refcnt \in Int /\ b # NoBlob
    BY <1>1, NoBlobAssumption DEF AnyMemory
  <2>2. CASE put \/ new = NoBlob
    <3>1. Referenced(c) = blob
      BY <2>2 DEF Referenced
    <3> QED
      BY <1>1, <2>1, <2>2, <3>1
  <2>3. CASE ~put /\ new # NoBlob
    <3> DEFINE one == BlobRef(blob, new)
               two == BlobRef(one, new)
    <3>1. new \in Blobs /\ Referenced(c) = two
      BY <1>7, <2>3 DEF Referenced
    <3>2. /\ one \in AnyMemory /\ one[new].refcnt = blob[new].refcnt + 1
          /\ one[new].allocated = blob[new].allocated
          /\ \A b \in Blobs : b # new => one[b] = blob[b]
      BY <1>1, <3>1, BlobOperations
    <3> HIDE DEF one
    <3>3. /\ two \in AnyMemory /\ two[new].refcnt = one[new].refcnt + 1
          /\ two[new].allocated = one[new].allocated
          /\ \A b \in Blobs : b # new => two[b] = one[b]
      BY <3>1, <3>2, BlobOperations
    <3> HIDE DEF two
    <3>4. two[new].refcnt = blob[new].refcnt + 2
      BY <2>1, <3>1, <3>2, <3>3
    <3>5. \A b \in Blobs : two[b].refcnt = blob[b].refcnt + (IF ~put /\ b = new THEN 2 ELSE 0)
      BY <2>1, <2>3, <3>2, <3>3, <3>4
    <3>6. \A b \in Blobs : two[b].allocated = blob[b].allocated
      BY <3>2, <3>3, Zenon
    <3> QED
      BY <3>1, <3>3, <3>5, <3>6, Zenon
  <2> QED
    BY <2>2, <2>3
<1>10. /\ blob' \in AnyMemory
       /\ \A b \in Blobs : ~(Mine(c) /\ b = old) => blob'[b] = Referenced(c)[b]
       /\ Mine(c) => /\ blob'[old].refcnt = Referenced(c)[old].refcnt - 1
                     /\ blob'[old].allocated \/ blob'[old].refcnt = 0
  <2>1. CASE ~ Mine(c)
    BY <1>3, <1>9, <2>1
  <2>2. CASE Mine(c)
    <3>1. blob' = BlobUnref(Referenced(c), old) /\ old \in Blobs
      BY <1>3, <1>8, <2>2 DEF VersionDispose
    <3> DEFINE M == Referenced(c)
    <3>2. M \in AnyMemory
      BY <1>9
    <3> HIDE DEF M
    <3>3. /\ BlobUnref(M, old) \in AnyMemory
          /\ BlobUnref(M, old)[old].refcnt = M[old].refcnt - 1
          /\ BlobUnref(M, old)[old].allocated \/ BlobUnref(M, old)[old].refcnt = 0
          /\ \A b \in Blobs : b # old => BlobUnref(M, old)[b] = M[b]
      BY <3>1, <3>2, BlobOperations
    <3> USE DEF M
    <3> QED
      BY <2>2, <3>1, <3>3
  <2> QED
    BY <2>1, <2>2
<1>11. BlobTypes'
  <2>1. ASSUME NEW k \in Keys, NEW i, (i \in Places(k))'
        PROVE versions'[k][i].blob \in Blobs \cup {NoBlob}
    <3>1. CASE k # k0
      BY <1>1, <1>2, <2>1, <3>1 DEF BlobTypes, Places
    <3>2. CASE k = k0 /\ i = n
      BY <1>2, <1>7, <3>2
    <3>3. CASE k = k0 /\ i # n
      <4>1. (i \in Places(k0))'
        BY <2>1, <3>3
      <4>2. i \in 1..(n - 1)
        BY <1>2, <3>3, <4>1
      <4>3. i \in Places(k0) /\ versions'[k0][i] = versions[k0][i]
        BY <1>2, <4>2
      <4> QED
        BY <1>1, <1>2, <3>3, <4>3 DEF BlobTypes
    <3> QED
      BY <3>1, <3>2, <3>3
  <2>2. valuep' \in [Trans -> Blobs \cup {NoBlob}]
    BY <1>1, <1>3, <1>7 DEF BlobTypes
  <2>3. entry' \in [Keys -> Blobs \cup {NoBlob}]
    BY <1>1, <1>3 DEF BlobTypes
  <2>4. \A d \in Trans : pc'[d] # "reply" => valuep'[d] = NoBlob
    BY <1>1, <1>3 DEF BlobTypes, ServiceInv
  <2> QED
    BY <1>10, <2>1, <2>2, <2>3, <2>4 DEF BlobTypes
<1>12. ASSUME NEW b \in Blobs PROVE BlobSafe(b)'
  <2> DEFINE x == <<k0, n>>
             kept == VersionHolders(b) \ {x}
             shared == IF ~put /\ b = new THEN 1 ELSE 0
             added == IF b = new THEN 1 ELSE 0
             gone == IF Mine(c) /\ b = old THEN 1 ELSE 0
  <2>0. BlobSafe(b) /\ FiniteHolders(b) /\ blob[b].refcnt \in Int /\ b # NoBlob
    BY <1>1, NoBlobAssumption DEF BlobSafe, AnyMemory
  <2>1. EntryHolders(b)' = EntryHolders(b)
    BY <1>3 DEF EntryHolders
  <2>2. /\ IsFiniteSet(ReplyHolders(b)')
        /\ Cardinality(ReplyHolders(b)') = Cardinality(ReplyHolders(b)) + shared
        /\ Cardinality(ReplyHolders(b)) \in Nat
    <3>1. c \notin ReplyHolders(b)
      BY <1>4, <2>0 DEF ReplyHolders
    <3>2. CASE ~put /\ b = new
      <4>1. ReplyHolders(b)' = ReplyHolders(b) \cup {c}
        BY <1>1, <1>3, <3>2 DEF ReplyHolders, BlobTypes
      <4> QED
        BY <2>0, <3>1, <3>2, <4>1, OneMore, FS_CardinalityType DEF FiniteHolders
    <3>3. CASE ~(~put /\ b = new)
      <4>1. ReplyHolders(b)' = ReplyHolders(b)
        BY <1>1, <1>3, <2>0, <3>1, <3>3 DEF ReplyHolders, BlobTypes
      <4>2. Cardinality(ReplyHolders(b)) \in Nat /\ shared = 0
        BY <2>0, <3>3, FS_CardinalityType DEF FiniteHolders
      <4> QED
        BY <2>0, <4>1, <4>2 DEF FiniteHolders
    <3> QED
      BY <3>2, <3>3
  <2>3. x \in VersionHolders(b) <=> Mine(c) /\ b = old
    <3>1. CASE Mine(c)
      BY <1>2, <1>6, <1>8, <3>1, VersionHolder
    <3>2. CASE ~Mine(c)
      <4>1. n \notin Places(k0)
        BY <1>2, <3>2
      <4> QED
        BY <3>2, <4>1, VersionHolder
    <3> QED
      BY <3>1, <3>2
  <2>4. /\ IsFiniteSet(kept) /\ Cardinality(kept) = Cardinality(VersionHolders(b)) - gone
        /\ Cardinality(VersionHolders(b)) \in Nat /\ x \notin kept
    <3>1. CASE Mine(c) /\ b = old
      <4>1. x \in VersionHolders(b) /\ gone = 1
        BY <2>3, <3>1
      <4> HIDE DEF x, gone
      <4> QED
        BY <2>0, <4>1, OneLess DEF FiniteHolders
    <3>2. CASE ~(Mine(c) /\ b = old)
      <4>1. x \notin VersionHolders(b) /\ gone = 0
        BY <2>3, <3>2
      <4>2. kept = VersionHolders(b)
        BY <4>1
      <4>3. Cardinality(VersionHolders(b)) \in Nat
        BY <2>0, FS_CardinalityType DEF FiniteHolders
      <4> HIDE DEF x, gone, kept
      <4> QED
        BY <2>0, <4>1, <4>2, <4>3 DEF FiniteHolders
    <3> QED
      BY <3>1, <3>2
  <2>5. VersionHolders(b)' = IF b = new THEN kept \cup {x} ELSE kept
    <3>1. ASSUME NEW k \in Keys, NEW i, (i \in Places(k))', versions'[k][i].blob = b
          PROVE \/ k = k0 /\ i = n /\ b = new
                \/ <<k, i>> \in kept
      <4>1. CASE k # k0
        BY <1>2, <3>1, <4>1, VersionHolder DEF Places
      <4>2. CASE k = k0 /\ i = n
        BY <1>2, <3>1, <4>2
      <4>3. CASE k = k0 /\ i # n
        <5>1. (i \in Places(k0))'
          BY <3>1, <4>3
        <5>2. i \in 1..(n - 1)
          BY <1>2, <4>3, <5>1
        <5>3. i \in Places(k0) /\ versions[k0][i].blob = b
          BY <1>2, <3>1, <4>3, <5>2
        <5> QED
          BY <1>2, <4>3, <5>3, VersionHolder
      <4> QED
        BY <4>1, <4>2, <4>3
    <3>2. ASSUME NEW y \in kept PROVE y \in VersionHolders(b)'
      <4>1. PICK k \in Keys, i \in Int : y = <<k, i>> /\ i \in Places(k) /\ versions[k][i].blob = b
        BY DEF VersionHolders, VersionsWith, Places
      <4>2. (i \in Places(k))' /\ versions'[k][i].blob = b
        <5>1. CASE k # k0
          BY <1>2, <4>1, <5>1 DEF Places
        <5>2. CASE k = k0
          <6>1. i # n /\ i \in Places(k0)
            BY <4>1, <5>2
          <6>2. i \in 1..(n - 1) /\ i \in 1..n
            BY <1>2, <1>8, <6>1
          <6>3. (i \in Places(k0))' /\ versions'[k0][i].blob = b
            BY <1>2, <4>1, <5>2, <6>2
          <6> QED
            BY <5>2, <6>3
        <5> QED
          BY <5>1, <5>2
      <4> QED
        BY <4>1, <4>2 DEF VersionHolders, VersionsWith, Places
    <3>3. b = new => x \in VersionHolders(b)'
      <4>1. (n \in Places(k0))'
        BY <1>2
      <4>2. versions'[k0][n].blob = new
        BY <1>2
      <4> QED
        BY <1>2, <4>1, <4>2 DEF VersionHolders, VersionsWith, Places
    <3>4. ASSUME NEW y \in VersionHolders(b)' PROVE y \in kept \/ (b = new /\ y = x)
      <4>1. PICK k \in Keys, i \in Int : y = <<k, i>> /\ (i \in Places(k))' /\ versions'[k][i].blob = b
        BY DEF VersionHolders, VersionsWith, Places
      <4> QED
        BY <3>1, <4>1
    <3> HIDE DEF x, kept
    <3> QED
      BY <3>2, <3>3, <3>4
  <2>6. /\ IsFiniteSet(VersionHolders(b)')
        /\ Cardinality(VersionHolders(b)') = Cardinality(VersionHolders(b)) - gone + added
    <3>1. gone \in {0, 1}
      OBVIOUS
    <3>2. CASE b = new
      <4> HIDE DEF x, kept, gone
      <4>1. IsFiniteSet(kept \cup {x}) /\ Cardinality(kept \cup {x}) = Cardinality(kept) + 1
        BY <2>4, OneMore
      <4> QED
        BY <2>4, <2>5, <3>1, <3>2, <4>1
    <3>3. CASE b # new
      <4>1. added = 0
        BY <3>3
      <4> HIDE DEF x, kept, gone, added
      <4> QED
        BY <2>4, <2>5, <3>1, <3>3, <4>1
    <3> QED
      BY <3>2, <3>3
  <2>7. FiniteHolders(b)'
    BY <2>0, <2>1, <2>2, <2>6 DEF FiniteHolders
  <2>8. Pointers(b)' = Pointers(b) + shared + added - gone /\ Pointers(b) \in Nat
    <3>1. /\ Pointers(b) = Cardinality(EntryHolders(b)) + Cardinality(ReplyHolders(b))
                           + Cardinality(VersionHolders(b))
          /\ Pointers(b)' = Cardinality(EntryHolders(b)) + Cardinality(ReplyHolders(b)')
                            + Cardinality(VersionHolders(b)')
          /\ Cardinality(EntryHolders(b)) \in Nat /\ Pointers(b) \in Nat
      BY <2>0, <2>1, <2>7, PointersOf, PointersOfNext
    <3>2. shared \in {0, 1} /\ added \in {0, 1} /\ gone \in {0, 1}
      OBVIOUS
    <3> HIDE DEF shared, added, gone
    <3> QED
      BY <2>2, <2>4, <2>6, <3>1, <3>2
  <2>9. CASE b # new /\ ~(Mine(c) /\ b = old)
    <3>1. ReplyHolders(b)' = ReplyHolders(b)
      BY <1>1, <1>3, <1>4, <2>0, <2>9 DEF ReplyHolders, BlobTypes
    <3>2. VersionHolders(b)' = VersionHolders(b)
      BY <2>3, <2>5, <2>9
    <3>3. PointedAt(b)' <=> PointedAt(b)
      BY <2>1, <3>1, <3>2 DEF PointedAt
    <3>4. blob'[b].refcnt = blob[b].refcnt /\ blob'[b].allocated = blob[b].allocated
      <4>1. blob'[b] = Referenced(c)[b] /\ Referenced(c)[b].allocated = blob[b].allocated
        BY <1>9, <1>10, <2>9, Zenon
      <4>2. Referenced(c)[b].refcnt = blob[b].refcnt
        BY <1>9, <2>0, <2>9
      <4> QED
        BY <4>1, <4>2, Zenon
    <3>5. Pointers(b)' = Pointers(b)
      BY <2>8, <2>9
    <3>6. ~InStore(b)' /\ ~InStore(b)
      BY <1>5, <2>9
    <3>7. Counted(b)'
      BY <1>3, <2>0, <3>4, <3>5, <3>6 DEF BlobSafe, Counted
    <3>8. PointedAt(b) => blob'[b].allocated
      BY <2>0, <3>4, Zenon DEF BlobSafe
    <3> QED
      BY <1>3, <1>5, <2>0, <2>7, <3>3, <3>4, <3>6, <3>7, <3>8, Zenon DEF BlobSafe
  <2>10. CASE b = new \/ (Mine(c) /\ b = old)
    <3> DEFINE gain == shared + shared - gone
    <3>1. gain \in Int
      OBVIOUS
    <3>2. blob'[b].refcnt = blob[b].refcnt + gain
      <4>1. Referenced(c)[b].refcnt = blob[b].refcnt + shared + shared
        BY <1>9, <2>0
      <4>2. CASE Mine(c) /\ b = old
        BY <1>10, <2>0, <4>1, <4>2
      <4>3. CASE ~(Mine(c) /\ b = old)
        BY <1>10, <2>0, <4>1, <4>3
      <4> QED
        BY <4>2, <4>3
    <3>3. Pointers(b)' + (IF InStore(b)' THEN 1 ELSE 0) <= Pointers(b) + (IF InStore(b) THEN 1 ELSE 0) + gain
      <4>1. ~InStore(b)' /\ (InStore(b) <=> put /\ b = new)
        BY <1>5
      <4> QED
        BY <2>8, <4>1
    <3>4. Made(b)'
      <4>1. CASE b = new
        BY <1>5, <1>7, <4>1
      <4>2. CASE Mine(c) /\ b = old
        <5>1. x \in VersionHolders(b)
          BY <2>3, <4>2
        <5>2. PointedAt(b)
          BY <5>1 DEF PointedAt
        <5> QED
          BY <1>5, <2>0, <5>2 DEF BlobSafe
      <4> QED
        BY <2>10, <4>1, <4>2
    <3>5. blob'[b].allocated \/ blob'[b].refcnt = 0
      <4>1. CASE Mine(c) /\ b = old
        BY <1>10, <4>1
      <4>2. CASE ~(Mine(c) /\ b = old)
        <5>1. blob[b].allocated
          BY <1>7, <2>0, <2>10, <4>2 DEF BlobSafe
        <5>2. blob'[b] = Referenced(c)[b] /\ Referenced(c)[b].allocated = blob[b].allocated
          BY <1>9, <1>10, <4>2, Zenon
        <5> QED
          BY <5>1, <5>2, Zenon
      <4> QED
        BY <4>1, <4>2
    <3> HIDE DEF gain
    <3> QED
      BY <1>1, <1>3, <2>0, <2>7, <3>1, <3>2, <3>3, <3>4, <3>5, BlobRecounted
  <2> QED
    BY <2>9, <2>10
<1> QED
  BY <1>11, <1>12

(* The value has been sent: the reference of the reply is given back.       *)
LEMMA BlobsOfReply ==
  ASSUME BlobInv, NEW c \in Trans, Reply(c)
  PROVE  BlobTypes' /\ \A b \in Blobs : BlobSafe(b)'
<1> PICK v : v = valuep[c]
  OBVIOUS
<1>1. /\ ServiceInv /\ BlobTypes /\ garbage \in Nat /\ blob \in AnyMemory
      /\ v \in Blobs \cup {NoBlob} /\ \A b \in Blobs : BlobSafe(b)
  BY DEF BlobInv, RequestInv, BlobTypes
<1>2. /\ UNCHANGED <<entry, versions, req, call, garbage>>
      /\ pc' = [pc EXCEPT ![c] = "request"] /\ valuep' = [valuep EXCEPT ![c] = NoBlob]
      /\ blob' = IF v = NoBlob THEN blob ELSE BlobUnref(blob, v)
      /\ pc[c] = "reply"
  BY DEF Reply, At, Goto, fixed, requestVars
<1>3. /\ blob' \in AnyMemory
      /\ \A b \in Blobs : b # v => blob'[b] = blob[b]
      /\ v \in Blobs => /\ blob'[v].refcnt = blob[v].refcnt - 1
                        /\ blob'[v].allocated \/ blob'[v].refcnt = 0
  <2>1. CASE v = NoBlob
    BY <1>1, <1>2, <2>1, NoBlobAssumption
  <2>2. CASE v # NoBlob
    BY <1>1, <1>2, <2>2, BlobOperations
  <2> QED
    BY <2>1, <2>2
<1>4. BlobTypes'
  <2>1. \A d \in Trans : pc'[d] # "reply" => valuep'[d] = NoBlob
    BY <1>1, <1>2 DEF BlobTypes, ServiceInv
  <2>2. valuep' \in [Trans -> Blobs \cup {NoBlob}]
    BY <1>1, <1>2 DEF BlobTypes
  <2> QED
    BY <1>1, <1>2, <1>3, <2>1, <2>2 DEF BlobTypes, Places
<1>5. ASSUME NEW b \in Blobs PROVE BlobSafe(b)'
  <2>0. BlobSafe(b) /\ FiniteHolders(b) /\ blob[b].refcnt \in Int /\ b # NoBlob
    BY <1>1, NoBlobAssumption DEF BlobSafe, AnyMemory
  <2>1. /\ EntryHolders(b)' = EntryHolders(b) /\ VersionHolders(b)' = VersionHolders(b)
        /\ Made(b)' <=> Made(b)
    BY <1>2 DEF EntryHolders, VersionHolders, VersionsWith, Made
  <2>2. ReplyHolders(b)' = ReplyHolders(b) \ {c} /\ (c \in ReplyHolders(b) <=> b = v)
    BY <1>1, <1>2, <2>0 DEF ReplyHolders, BlobTypes
  <2>3. InStore(b)' <=> InStore(b)
    <3>1. \A d \in Trans : pc'[d] = "walk" <=> pc[d] = "walk"
      BY <1>1, <1>2 DEF ServiceInv
    <3> QED
      BY <1>2, <3>1 DEF InStore, ValueBlob
  <2>4. CASE b # v
    <3>1. blob'[b] = blob[b] /\ ReplyHolders(b)' = ReplyHolders(b)
      BY <1>3, <2>2, <2>4
    <3> QED
      BY <1>1, <1>2, <2>0, <2>1, <2>3, <3>1, BlobUntouched
  <2>5. CASE b = v
    <3>1. /\ IsFiniteSet(ReplyHolders(b)') /\ Cardinality(ReplyHolders(b)') = Cardinality(ReplyHolders(b)) - 1
          /\ Cardinality(ReplyHolders(b)) \in Nat
      BY <2>0, <2>2, <2>5, OneLess DEF FiniteHolders
    <3>2. FiniteHolders(b)'
      BY <2>0, <2>1, <3>1 DEF FiniteHolders
    <3>3. Pointers(b)' = Pointers(b) - 1 /\ Pointers(b) \in Nat
      BY <2>0, <2>1, <3>1, <3>2, PointersOf, PointersOfNext
    <3>4. Pointers(b)' + (IF InStore(b)' THEN 1 ELSE 0) <= Pointers(b) + (IF InStore(b) THEN 1 ELSE 0) + (-1)
      BY <2>3, <3>3
    <3>5. Made(b)'
      <4>1. PointedAt(b)
        BY <2>2, <2>5 DEF PointedAt
      <4> QED
        BY <2>0, <2>1, <4>1 DEF BlobSafe
    <3>6. blob'[b].refcnt = blob[b].refcnt + (-1) /\ (blob'[b].allocated \/ blob'[b].refcnt = 0)
      BY <1>3, <2>0, <2>5
    <3> QED
      BY <1>1, <1>2, <2>0, <3>2, <3>4, <3>5, <3>6, BlobRecounted
  <2> QED
    BY <2>4, <2>5
<1> QED
  BY <1>4, <1>5

(* Every other step leaves blobs and their holders as they are.             *)
LEMMA BlobInvNext == BlobInv /\ [Next]_vars => BlobInv'
<1> SUFFICES ASSUME BlobInv, [Next]_vars PROVE BlobTypes' /\ \A b \in Blobs : BlobSafe(b)'
  BY RequestInvNext DEF BlobInv
<1>0. ServiceInv /\ RequestInv /\ BlobTypes /\ garbage \in Nat /\ \A b \in Blobs : BlobSafe(b)
  BY DEF BlobInv, RequestInv
<1>1. ASSUME UNCHANGED <<garbage, req, valuep, entry, versions, blob>>,
             \A d \in Trans : pc'[d] = "walk" => pc[d] = "walk" /\ call' = call,
             \A d \in Trans : pc'[d] # "reply" => valuep[d] = NoBlob
      PROVE  BlobTypes' /\ \A b \in Blobs : BlobSafe(b)'
  <2>1. BlobTypes'
    BY <1>0, <1>1 DEF BlobTypes, Places
  <2>2. ASSUME NEW b \in Blobs PROVE BlobSafe(b)'
    <3>1. /\ EntryHolders(b)' = EntryHolders(b) /\ ReplyHolders(b)' = ReplyHolders(b)
          /\ VersionHolders(b)' = VersionHolders(b)
          /\ InStore(b)' => InStore(b)
          /\ Made(b) => Made(b)'
      BY <1>1 DEF EntryHolders, ReplyHolders, VersionHolders, VersionsWith, InStore, ValueBlob, Made
    <3>2. blob[b].refcnt \in Int
      BY <1>0 DEF BlobTypes, AnyMemory
    <3> QED
      BY <1>0, <1>1, <3>1, <3>2, BlobUntouched
  <2> QED
    BY <2>1, <2>2
<1>2. CASE UNCHANGED vars
  BY <1>0, <1>1, <1>2 DEF vars, fixed, requestVars, storeVars, BlobTypes
<1>3. ASSUME NEW c \in Trans, PutRequest(c) \/ GetRequest(c)
      PROVE  BlobTypes' /\ \A b \in Blobs : BlobSafe(b)'
  BY <1>3, BlobsOfRequest DEF PutRequest, GetRequest
<1>4. ASSUME NEW c \in Trans, VisitCommitted(c)
      PROVE  BlobTypes' /\ \A b \in Blobs : BlobSafe(b)'
  <2>1. CASE versions' # versions
    BY <1>4, <2>1, BlobsOfDropped
  <2>2. CASE versions' = versions
    <3>1. UNCHANGED <<garbage, req, valuep, entry, pc, call>>
      BY <1>4 DEF VisitCommitted, fixed, requestVars
    <3>2. blob' = blob
      <4>1. At(c, "walk") /\ cursor <= Len(List)
        BY <1>4 DEF VisitCommitted
      <4>2. /\ List \in Seq(AnyVersion) /\ cursor \in Nat \ {0} /\ call.key \in Keys
        BY <1>0, <4>1, WalkedList
      <4>3. CASE cursor > 1 /\ status[List[cursor - 1].creator] = "committed" /\ List[cursor - 1].blob # NoBlob
        <5>1. versions'[call.key] = SubSeq(List, cursor, Len(List))
          BY <1>0, <1>4, <4>2, <4>3 DEF VisitCommitted, List, ServiceInv
        <5>2. cursor \in 1..Len(List)
          BY <4>1, <4>2
        <5>3. Len(SubSeq(List, cursor, Len(List))) = Len(List) - cursor + 1
          BY <4>2, <5>2, ListFrom
        <5>4. Len(List) = Len(List) - cursor + 1
          BY <2>2, <5>1, <5>3 DEF List
        <5> QED
          BY <4>2, <4>3, <5>4
      <4>4. CASE ~(cursor > 1 /\ status[List[cursor - 1].creator] = "committed" /\ List[cursor - 1].blob # NoBlob)
        BY <1>4, <4>4 DEF VisitCommitted
      <4> QED
        BY <4>3, <4>4
    <3> QED
      BY <1>0, <1>1, <2>2, <3>1, <3>2 DEF BlobTypes
  <2> QED
    BY <2>1, <2>2
<1>5. ASSUME NEW c \in Trans, AddVersion(c)
      PROVE  BlobTypes' /\ \A b \in Blobs : BlobSafe(b)'
  <2>1. CASE Mine(c) /\ Last.blob = NoBlob
    BY <1>0, <1>1, <1>5, <2>1 DEF AddVersion, fixed, BlobTypes
  <2>2. CASE ~(Mine(c) /\ Last.blob = NoBlob)
    BY <1>5, <2>2, BlobsOfAdded
  <2> QED
    BY <2>1, <2>2
<1>6. ASSUME NEW c \in Trans, Conflict(c)
      PROVE  BlobTypes' /\ \A b \in Blobs : BlobSafe(b)'
  <2>1. /\ UNCHANGED <<garbage, req, entry, versions, blob>> /\ At(c, "walk")
        /\ pc' = [pc EXCEPT ![c] = "reply"] /\ valuep' = [valuep EXCEPT ![c] = NoBlob]
    BY <1>6 DEF Conflict, Walked, LeaveStore, Goto, fixed
  <2>2. valuep' = valuep
    BY <1>0, <2>1 DEF BlobTypes, At
  <2>3. \A d \in Trans : pc'[d] # "walk" /\ (pc'[d] # "reply" => valuep[d] = NoBlob)
    <3>1. \A d \in Trans : pc[d] = "walk" => d = c
      BY <1>0, <2>1 DEF ServiceInv, At
    <3> QED
      BY <1>0, <2>1, <3>1 DEF ServiceInv, BlobTypes
  <2> QED
    BY <1>1, <2>1, <2>2, <2>3
<1>7. ASSUME NEW c \in Trans, Reply(c)
      PROVE  BlobTypes' /\ \A b \in Blobs : BlobSafe(b)'
  BY <1>7, BlobsOfReply
<1>8. ASSUME NEW c \in Trans, CopyUnset(c) \/ VisitPending(c) \/ Commit(c) \/ AnswerCommit(c) \/ EndOfInput(c)
      PROVE  BlobTypes' /\ \A b \in Blobs : BlobSafe(b)'
  <2>1. UNCHANGED <<garbage, req, valuep, entry, versions, blob, call>>
    BY <1>8 DEF CopyUnset, VisitPending, Commit, AnswerCommit, EndOfInput, fixed, requestVars, storeVars
  <2>2. \A d \in Trans : (pc'[d] = "walk" => pc[d] = "walk") /\ (pc'[d] # "reply" => pc[d] # "reply")
    BY <1>0, <1>8 DEF CopyUnset, VisitPending, Commit, AnswerCommit, EndOfInput, At, Goto, ServiceInv
  <2> QED
    BY <1>0, <1>1, <2>1, <2>2 DEF BlobTypes
<1> QED
  BY <1>2, <1>3, <1>4, <1>5, <1>6, <1>7, <1>8 DEF Next

(* The reference count of a blob covers every pointer to it, whatever malloc *)
(* left there: a blob that is freed is one nobody points to, and a thread   *)
(* that sends a value sends live memory.                                    *)
THEOREM PointersAreCounted == Spec => []BlobsCounted
<1>1. BlobInv => BlobsCounted
  <2> SUFFICES ASSUME BlobInv, NEW b \in Pointed
               PROVE blob[b].allocated /\ Pointers(b) <= blob[b].refcnt - garbage
    BY DEF BlobsCounted
  <2>1. b \in Blobs
    BY DEF Pointed, BlobInv, BlobTypes, Places
  <2>2. PointedAt(b)
    <3>1. CASE \E k \in Keys : b = entry[k]
      BY <3>1 DEF PointedAt, EntryHolders
    <3>2. CASE \E c \in Trans : b = valuep[c]
      BY <3>2 DEF PointedAt, ReplyHolders
    <3>3. CASE \E k \in Keys : \E i \in Places(k) : b = versions[k][i].blob
      BY <3>3, VersionHolder DEF PointedAt
    <3> QED
      BY <3>1, <3>2, <3>3 DEF Pointed, Places
  <2>3. BlobSafe(b) /\ garbage \in Nat /\ blob[b].refcnt \in Int
    BY <2>1 DEF BlobInv, RequestInv, BlobTypes, AnyMemory
  <2>4. Pointers(b) \in Nat
    BY <2>3, PointersOf DEF BlobSafe
  <2> QED
    BY <2>2, <2>3, <2>4 DEF BlobSafe, Counted
<1> QED
  BY <1>1, BlobInvInit, BlobInvNext, PTL DEF Spec
=============================================================================
