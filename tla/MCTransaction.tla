---------------------------- MODULE MCTransaction ----------------------------
(* Transaction for TLC: the transactions are interchangeable model values. *)
EXTENDS Transaction, TLC

CONSTANTS t1, t2, t3

Symmetry == Permutations(Trans)

(* Two states the list reaches once its three transactions are created:     *)
(* t1, t2 and t3 one after the other (ids 1, 2, 2), ...                     *)
Serial ==
  /\ id = (t1 :> 1 @@ t2 :> 2 @@ t3 :> 2 @@ List :> 0)
  /\ next = (List :> t1 @@ t1 :> t2 @@ t2 :> t3 @@ t3 :> List)
  /\ prev = (List :> t3 @@ t3 :> t2 @@ t2 :> t1 @@ t1 :> List)
  /\ tail = (t1 :> List @@ t2 :> t1 @@ t3 :> t2)

(* ... and t1 overtaken by t2 and t3 before it sets trans_list.prev, which   *)
(* drops t1 from the list and gives the ids 1, 2, 3.                        *)
Overtaken ==
  /\ id = (t1 :> 1 @@ t2 :> 2 @@ t3 :> 3 @@ List :> 0)
  /\ next = (List :> t2 @@ t2 :> t3 @@ t3 :> List @@ t1 :> List)
  /\ prev = (List :> t1 @@ t1 :> List @@ t2 :> List @@ t3 :> t2)
  /\ tail = (t1 :> List @@ t2 :> List @@ t3 :> t2)

(* Transaction from the point where its three transactions are created. *)
CreatedInit ==
  /\ Serial \/ Overtaken
  /\ cpc = [t \in Trans |-> "created"]
  /\ cursor = [t \in Trans |-> List]
  /\ pc = [t \in Trans |-> "serve"]
  /\ status = [t \in Trans |-> "pending"]
  /\ refcnt = [t \in Trans |-> 1]
  /\ depends = [t \in Trans |-> <<>>]
  /\ waitcnt = [t \in Trans |-> 0]
  /\ sem = [t \in Trans |-> 0]
  /\ mapLock = NoThread
  /\ walk = [t \in Trans |-> {}]
  /\ dtp = [t \in Trans |-> t]
  /\ rest = [t \in Trans |-> <<>>]
  /\ held = [t \in Trans |-> 0]
  /\ ops = [t \in Trans |-> 0]

CreatedSpec == CreatedInit /\ [][Next]_vars /\ Fairness

(* CreatedInit is reachable: these two are false in some state of Spec. *)
NeverSerial == ~(Serial /\ Created = Trans)
NeverOvertaken == ~(Overtaken /\ Created = Trans)
=============================================================================
