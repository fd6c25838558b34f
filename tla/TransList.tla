------------------------------ MODULE TransList ------------------------------
(***************************************************************************)
(* The global list of transactions of hw5 (transaction.c) and the part of  *)
(* trans_create that numbers a transaction and links it at the tail.       *)
(* trans_create takes no lock, so each access of the shared list is an     *)
(* action of its own; the fields of the fresh node are private until the   *)
(* node is linked.  A thread that has created its transaction may walk the *)
(* list without a lock, as trans_show_all does after every request.        *)
(***************************************************************************)
EXTENDS Naturals, FiniteSets

CONSTANTS Trans,   \* the transactions, each created by a service thread of its own
          List,    \* the sentinel trans_list
          Null     \* the content of a pointer field nobody has written yet

ASSUME ListAssumption == /\ IsFiniteSet(Trans)
                         /\ List \notin Trans
                         /\ Null \notin Trans \cup {List}

Node == Trans \cup {List}

VARIABLES cpc,     \* where each thread stands in trans_create
          id,      \* the field id of every node
          next,    \* the field next of every node
          prev,    \* the field prev of every node
          tail,    \* the value of trans_list.prev read for the store of line 86
          cursor   \* the local variable next of trans_show_all; List when not walking

listVars == <<cpc, id, next, prev, tail, cursor>>

CreatePC == {"start", "numbered", "prepared", "located", "linked", "created"}

(* trans_init; the sentinel is a zeroed global, so its id is 0. *)
ListInit ==
  /\ cpc = [t \in Trans |-> "start"]
  /\ id = [n \in Node |-> 0]
  /\ next = [n \in Node |-> IF n = List THEN List ELSE Null]
  /\ prev = [n \in Node |-> IF n = List THEN List ELSE Null]
  /\ tail = [t \in Trans |-> Null]
  /\ cursor = [t \in Trans |-> List]

----------------------------------------------------------------------------
(* Variant of ReadFirstId: the id is taken before it is incremented. *)
ReadFirstIdPostIncrement(t) ==
  /\ cpc[t] = "start"
  /\ id' = [id EXCEPT ![t] = id[next[List]]]
  /\ cpc' = [cpc EXCEPT ![t] = "numbered"]
  /\ UNCHANGED <<next, prev, tail, cursor>>

(* trans_create: read the id of the first node of the list and add one. *)
ReadFirstId(t) ==
  /\ cpc[t] = "start"
  /\ id' = [id EXCEPT ![t] = id[next[List]] + 1]
  /\ cpc' = [cpc EXCEPT ![t] = "numbered"]
  /\ UNCHANGED <<next, prev, tail, cursor>>

(* Variants of PrepareNode: next is left unwritten; next and prev are swapped. *)
PrepareNodeNoNext(t) ==
  /\ cpc[t] = "numbered"
  /\ prev' = [prev EXCEPT ![t] = prev[List]]
  /\ cpc' = [cpc EXCEPT ![t] = "prepared"]
  /\ UNCHANGED <<id, next, tail, cursor>>

PrepareNodeSwapped(t) ==
  /\ cpc[t] = "numbered"
  /\ prev' = [prev EXCEPT ![t] = List]
  /\ next' = [next EXCEPT ![t] = prev[List]]
  /\ cpc' = [cpc EXCEPT ![t] = "prepared"]
  /\ UNCHANGED <<id, tail, cursor>>

(* Point the new node at the last node and at the sentinel. *)
PrepareNode(t) ==
  /\ cpc[t] = "numbered"
  /\ prev' = [prev EXCEPT ![t] = prev[List]]
  /\ next' = [next EXCEPT ![t] = List]
  /\ cpc' = [cpc EXCEPT ![t] = "prepared"]
  /\ UNCHANGED <<id, tail, cursor>>

(* Read trans_list.prev a second time, ... *)
ReadTail(t) ==
  /\ cpc[t] = "prepared"
  /\ tail' = [tail EXCEPT ![t] = prev[List]]
  /\ cpc' = [cpc EXCEPT ![t] = "located"]
  /\ UNCHANGED <<id, next, prev, cursor>>

(* ... store the new node in the next field of the node found there, ... *)
LinkNode(t) ==
  /\ cpc[t] = "located"
  /\ next' = [next EXCEPT ![tail[t]] = t]
  /\ cpc' = [cpc EXCEPT ![t] = "linked"]
  /\ UNCHANGED <<id, prev, tail, cursor>>

(* ... and make the new node the last one. *)
SetTail(t) ==
  /\ cpc[t] = "linked"
  /\ prev' = [prev EXCEPT ![List] = t]
  /\ cpc' = [cpc EXCEPT ![t] = "created"]
  /\ UNCHANGED <<id, next, tail, cursor>>

(* trans_show_all, called by a service thread without any lock. *)
ShowStart(t) ==
  /\ cpc[t] = "created" /\ cursor[t] = List
  /\ cursor' = [cursor EXCEPT ![t] = next[List]]
  /\ UNCHANGED <<cpc, id, next, prev, tail>>

ShowStep(t) ==
  /\ cursor[t] # List
  /\ cursor' = [cursor EXCEPT ![t] = next[cursor[t]]]
  /\ UNCHANGED <<cpc, id, next, prev, tail>>

Link(t) == PrepareNode(t) \/ ReadTail(t) \/ LinkNode(t) \/ SetTail(t)

ListNext == \E t \in Trans : ReadFirstId(t) \/ Link(t) \/ ShowStart(t) \/ ShowStep(t)

(* A thread is scheduled again and again; how often it prints is its own affair. *)
ListFairness == \A t \in Trans : WF_listVars(ReadFirstId(t) \/ Link(t) \/ ShowStep(t))

ListSpec == ListInit /\ [][ListNext]_listVars /\ ListFairness

----------------------------------------------------------------------------
(* Type correctness: pointers point at nodes, and what a thread dereferences has been written. *)
ListTypeOK ==
  /\ cpc \in [Trans -> CreatePC]
  /\ id \in [Node -> Nat]
  /\ next \in [Node -> Node \cup {Null}]
  /\ prev \in [Node -> Node \cup {Null}]
  /\ tail \in [Trans -> Node \cup {Null}]
  /\ cursor \in [Trans -> Node]
  /\ next[List] # Null /\ prev[List] # Null

(* However the unlocked insertions of trans_create interleave, the next     *)
(* pointers of transactions never close a cycle that avoids the sentinel:   *)
(* in every set of transactions, some next pointer leaves the set.          *)
NoCycle == \A S \in SUBSET Trans : S # {} => \E t \in S : next[t] \notin S

(* A node that any pointer of the list reaches was completely initialised    *)
(* before it became reachable: its next pointer is not garbage.              *)
ReachableIsInitialised ==
  \A n \in Node : next[n] \in Trans => next[next[n]] # Null /\ id[next[n]] > 0

(* No transaction id exceeds the number of transactions (and none is 0, the  *)
(* id of the sentinel): the int/unsigned counter cannot wrap first.          *)
IdBounded ==
  \A t \in Trans : cpc[t] # "start" => id[t] \in 1..Cardinality(Trans)

(* A walk of trans_show_all ends although insertions go on while it runs. *)
WalkEnds == \A t \in Trans : cursor[t] # List ~> cursor[t] = List
=============================================================================
