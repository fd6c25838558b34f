------------------------------ MODULE CommitRule ------------------------------
(***************************************************************************)
(* What the transaction manager of hw5 promises its users, in one atomic   *)
(* step per decision: the comment of struct dependency in transaction.h.   *)
(* "The dependent transaction cannot commit until the transaction on which *)
(* it depends has committed.  Moreover, if the other transaction aborts,   *)
(* then the dependent transaction must also abort."                        *)
(* A new dependency may make the transaction forget older ones: the code   *)
(* keeps that much of the promise only (trans_add_dependency).             *)
(***************************************************************************)
CONSTANT Trans

VARIABLES status,   \* "unborn", "pending", "committed" or "aborted"
          deps      \* the transactions each transaction depends on

RuleInit == /\ status = [t \in Trans |-> "unborn"]
            /\ deps = [t \in Trans |-> {}]

Begin(t) == /\ status[t] = "unborn"
            /\ status' = [status EXCEPT ![t] = "pending"]
            /\ UNCHANGED deps

(* t has used what the pending transaction d did. *)
Depend(t, d) == /\ t # d /\ status[t] = "pending" /\ status[d] = "pending"
                /\ \E D \in SUBSET deps[t] : deps' = [deps EXCEPT ![t] = D \cup {d}]
                /\ UNCHANGED status

Commit(t) == /\ status[t] = "pending"
             /\ \A d \in deps[t] : status[d] = "committed"
             /\ status' = [status EXCEPT ![t] = "committed"]
             /\ UNCHANGED deps

(* A conflict in the store, or an aborted dependee. *)
Abort(t) == /\ status[t] = "pending"
            /\ status' = [status EXCEPT ![t] = "aborted"]
            /\ UNCHANGED deps

RuleNext == \E t \in Trans : \/ Begin(t) \/ Commit(t) \/ Abort(t)
                             \/ \E d \in Trans : Depend(t, d)

RuleSpec == RuleInit /\ [][RuleNext]_<<status, deps>>
=============================================================================
