---------------------------- MODULE ClientRegistry ----------------------------
(***************************************************************************)
(* The client registry of hw5 (client_registry.c) in the server that uses  *)
(* it: the main thread accepts connections (main.c), each service thread   *)
(* registers its connection once and serves it (server.c), and SIGHUP runs *)
(* terminate in the main thread.  Nothing calls creg_unregister, so        *)
(* semaphore fds is only ever posted and is left out.  The field count is  *)
(* accessed outside the mutex, one action per access.                      *)
(***************************************************************************)
EXTENDS Naturals, FiniteSets

CONSTANTS Clients,  \* how many connections there are in a run
          MAX_FDS   \* slots of the registry

ASSUME RegistryAssumption == Clients \in Nat /\ MAX_FDS \in Nat \ {0}

Threads == 1..Clients   \* the service threads, in the order of their connections
NoFd    == 0            \* what Calloc leaves in a slot

VARIABLES pc,       \* where each service thread stands
          fd_buf,   \* the fields of struct client_registry
          count,
          mutex,    \* the thread inside the critical section, or NoFd
          slots,
          empty,
          index,    \* the slot each thread has been given
          loaded,   \* the value of count loaded by ++count
          main,     \* what the main thread is doing
          i,        \* the loop variable of creg_shutdown_all
          shut,     \* the threads whose connection has been shut down
          alone     \* history: whose creg_register has overlapped no other

regVars  == <<fd_buf, count, mutex, slots, empty, index, loaded>>
mainVars == <<main, i, shut>>
vars == <<pc, regVars, mainVars, alone>>

PC == {"unborn", "slots", "lock", "write", "load", "store", "test", "take", "serve", "ended"}
Registering == PC \ {"unborn", "serve", "ended"}
Main == {"accept", "scan", "shut", "slots", "empty", "count", "wait", "fini", "exit"}
Index == 0..Clients   \* the values of count; not all are indexes of fd_buf

(* creg_init, with no connection accepted yet. *)
Init ==
  /\ pc = [t \in Threads |-> "unborn"]
  /\ fd_buf = [k \in Index |-> NoFd]
  /\ count = 0
  /\ mutex = NoFd
  /\ slots = MAX_FDS
  /\ empty = 1
  /\ index = [t \in Threads |-> 0]
  /\ loaded = [t \in Threads |-> 0]
  /\ main = "accept"
  /\ i = 0
  /\ shut = {}
  /\ alone = Threads

Goto(t, here, there) == pc[t] = here /\ pc' = [pc EXCEPT ![t] = there]

----------------------------------------------------------------------------
(* The main loop: a connection is accepted and its service thread started,   *)
(* which calls creg_register first of all.                                  *)
Accept(t) ==
  /\ main = "accept"
  /\ Goto(t, "unborn", "slots")
  /\ \A u \in 1..(t - 1) : pc[u] # "unborn"
  /\ LET others == {u \in Threads : pc[u] \in Registering}
     IN  alone' = IF others = {} THEN alone ELSE alone \ (others \cup {t})
  /\ UNCHANGED <<regVars, mainVars>>

(* Variant of WaitSlot: the thread does not wait for a free slot. *)
WaitSlotNot(t) ==
  /\ Goto(t, "slots", "lock")
  /\ slots' = IF slots > 0 THEN slots - 1 ELSE 0
  /\ UNCHANGED <<fd_buf, count, mutex, empty, index, loaded, mainVars, alone>>

(* creg_register: P(slots) *)
WaitSlot(t) ==
  /\ Goto(t, "slots", "lock")
  /\ slots > 0
  /\ slots' = slots - 1
  /\ UNCHANGED <<fd_buf, count, mutex, empty, index, loaded, mainVars, alone>>

(* Variant of ReadIndex: the index of the last descriptor, not the next. *)
ReadIndexLast(t) ==
  /\ Goto(t, "lock", "write")
  /\ mutex = NoFd
  /\ mutex' = t
  /\ index' = [index EXCEPT ![t] = IF count = 0 THEN 0 ELSE count - 1]
  /\ UNCHANGED <<fd_buf, count, slots, empty, loaded, mainVars, alone>>

(* P(mutex), and count is read for the index of the slot. *)
ReadIndex(t) ==
  /\ Goto(t, "lock", "write")
  /\ mutex = NoFd
  /\ mutex' = t
  /\ index' = [index EXCEPT ![t] = count]
  /\ UNCHANGED <<fd_buf, count, slots, empty, loaded, mainVars, alone>>

(* Variant of WriteFd: V(mutex) is missing. *)
WriteFdNoUnlock(t) ==
  /\ Goto(t, "write", "load")
  /\ fd_buf' = [fd_buf EXCEPT ![index[t]] = t]
  /\ UNCHANGED <<count, mutex, slots, empty, index, loaded, mainVars, alone>>

(* The descriptor is stored; V(mutex) *)
WriteFd(t) ==
  /\ Goto(t, "write", "load")
  /\ fd_buf' = [fd_buf EXCEPT ![index[t]] = t]
  /\ mutex' = NoFd
  /\ UNCHANGED <<count, slots, empty, index, loaded, mainVars, alone>>

(* ++count, outside the critical section: a load ... *)
LoadCount(t) ==
  /\ Goto(t, "load", "store")
  /\ loaded' = [loaded EXCEPT ![t] = count]
  /\ UNCHANGED <<fd_buf, count, mutex, slots, empty, index, mainVars, alone>>

(* ... and a store (the dead register is cleared to keep the state small).   *)
StoreCount(t) ==
  /\ Goto(t, "store", "test")
  /\ count' = loaded[t] + 1
  /\ loaded' = [loaded EXCEPT ![t] = 0]
  /\ UNCHANGED <<fd_buf, mutex, slots, empty, index, mainVars, alone>>

(* Variant of TestCount: every registration takes the semaphore empty. *)
TestCountAny(t) ==
  /\ Goto(t, "test", IF count # 0 THEN "take" ELSE "serve")
  /\ UNCHANGED <<regVars, mainVars, alone>>

(* Who then reads 1 takes the semaphore empty ... *)
TestCount(t) ==
  /\ Goto(t, "test", IF count = 1 THEN "take" ELSE "serve")
  /\ UNCHANGED <<regVars, mainVars, alone>>

(* ... which blocks if it has been taken. *)
TakeEmpty(t) ==
  /\ Goto(t, "take", "serve")
  /\ empty > 0
  /\ empty' = empty - 1
  /\ UNCHANGED <<fd_buf, count, mutex, slots, index, loaded, mainVars, alone>>

(* The client commits or closes, or finds the connection shut down. *)
End(t) ==
  /\ Goto(t, "serve", "ended")
  /\ UNCHANGED <<regVars, mainVars, alone>>

Register(t) == \/ WaitSlot(t) \/ ReadIndex(t) \/ WriteFd(t) \/ LoadCount(t)
               \/ StoreCount(t) \/ TestCount(t) \/ TakeEmpty(t)

----------------------------------------------------------------------------
(* SIGHUP: the handler calls terminate, and no connection is accepted again. *)
Hangup ==
  /\ main = "accept"
  /\ main' = "scan" /\ i' = 0
  /\ UNCHANGED <<pc, regVars, shut, alone>>

(* Variant of ScanTest: the last slot is left out. *)
ScanTestShort ==
  /\ main = "scan"
  /\ main' = IF i + 1 < count THEN "shut" ELSE "slots"
  /\ UNCHANGED <<pc, regVars, i, shut, alone>>

(* creg_shutdown_all: the loop over the slots below count ... *)
ScanTest ==
  /\ main = "scan"
  /\ main' = IF i < count THEN "shut" ELSE "slots"
  /\ UNCHANGED <<pc, regVars, i, shut, alone>>

(* ... shuts down what is in the slot (of an unwritten one, nothing). *)
ScanShut ==
  /\ main = "shut"
  /\ shut' = shut \cup ({fd_buf[i]} \ {NoFd})
  /\ i' = i + 1 /\ main' = "scan"
  /\ UNCHANGED <<pc, regVars, alone>>

(* The semaphores and count are set to their initial values, one by one. *)
ResetSlots ==
  /\ main = "slots" /\ main' = "empty"
  /\ slots' = MAX_FDS
  /\ UNCHANGED <<pc, fd_buf, count, mutex, empty, index, loaded, i, shut, alone>>

(* Variant of ResetEmpty: the semaphore is left as it is. *)
ResetEmptyNot ==
  /\ main = "empty" /\ main' = "count"
  /\ UNCHANGED <<pc, regVars, i, shut, alone>>

ResetEmpty ==
  /\ main = "empty" /\ main' = "count"
  /\ empty' = 1
  /\ UNCHANGED <<pc, fd_buf, count, mutex, slots, index, loaded, i, shut, alone>>

ResetCount ==
  /\ main = "count" /\ main' = "wait"
  /\ count' = 0
  /\ UNCHANGED <<pc, fd_buf, mutex, slots, empty, index, loaded, i, shut, alone>>

(* creg_wait_for_empty: P(empty) *)
WaitForEmpty ==
  /\ main = "wait" /\ main' = "fini"
  /\ empty > 0
  /\ empty' = empty - 1
  /\ UNCHANGED <<pc, fd_buf, count, mutex, slots, index, loaded, i, shut, alone>>

(* terminate frees the registry, the transactions and the store, and exits.  *)
(* What a service thread does with freed memory meanwhile is not modelled.   *)
Finalize ==
  /\ main = "fini" /\ main' = "exit"
  /\ UNCHANGED <<pc, regVars, i, shut, alone>>

Terminate == \/ ScanTest \/ ScanShut \/ ResetSlots \/ ResetEmpty \/ ResetCount
             \/ WaitForEmpty \/ Finalize

Next == \/ \E t \in Threads : Accept(t)
        \/ main \notin {"fini", "exit"} /\ \E t \in Threads : Register(t) \/ End(t)
        \/ Hangup \/ Terminate

(* Threads are scheduled, and a connection that is shut down is noticed; that *)
(* clients come, leave by themselves, or SIGHUP comes, is not assumed.       *)
Fairness ==
  /\ WF_vars(Terminate)
  /\ \A t \in Threads : WF_vars(main \notin {"fini", "exit"} /\ Register(t))

Spec == Init /\ [][Next]_vars /\ Fairness

----------------------------------------------------------------------------
(* Type correctness of the registry and of the two kinds of threads. *)
TypeOK ==
  /\ pc \in [Threads -> PC]
  /\ fd_buf \in [Index -> Threads \cup {NoFd}]
  /\ count \in Index
  /\ mutex \in Threads \cup {NoFd}
  /\ slots \in 0..MAX_FDS
  /\ empty \in {0, 1}
  /\ index \in [Threads -> Index]
  /\ loaded \in [Threads -> Index]
  /\ main \in Main
  /\ i \in Index
  /\ shut \subseteq Threads
  /\ alone \subseteq Threads

(* creg_shutdown_all has not yet begun to re-initialise the registry. *)
Serving == main \in {"accept", "scan", "shut"}

(* Every index written is a slot of the array: count lags behind the slots   *)
(* taken, although it is incremented outside the mutex.                      *)
SlotInBounds == Serving => \A t \in Threads : pc[t] = "write" => index[t] < MAX_FDS

(* The threads whose ++count is complete. *)
Counted == {t \in Threads : pc[t] \in {"test", "take", "serve", "ended"}}

(* A registration blocks in P(empty) only if another thread's ++count has    *)
(* been overwritten.                                                        *)
BlockedOnlyByLostUpdate ==
  Serving => \A t \in Threads :
    pc[t] = "take" /\ empty = 0 => count < Cardinality(Counted)

(* The slot of a client that registered while no other did is not given      *)
(* away again, whatever races happen later.                                  *)
AloneKeepsSlot ==
  Serving => \A t \in alone \cap Counted :
    index[t] < count /\ fd_buf[index[t]] = t

(* creg_shutdown_all reaches the connection of such a client.                *)
AloneIsShutDown ==
  \A t \in Threads :
    (main = "scan" /\ i = 0 /\ t \in alone \cap Counted) ~> t \in shut

(* creg_register returns, unless it waits for a slot of a full registry, a   *)
(* ++count has been overwritten or the server is shutting down.             *)
RegistrationEnds ==
  \A t \in Threads :
    pc[t] = "slots" ~> \/ pc[t] = "serve" \/ ~Serving
                       \/ pc[t] = "slots" /\ slots = 0
                       \/ count < Cardinality(Counted)

(* terminate ends the server, unless SIGHUP meets a registration in progress *)
(* (which may take the semaphore empty after it has been re-initialised).    *)
TerminateEnds ==
  (main = "scan" /\ \A t \in Threads : pc[t] \notin Registering) ~> main = "exit"

----------------------------------------------------------------------------
(* creg_wait_for_empty: "block in the call until the number of registered    *)
(* clients has reached zero": no client is being served any more.           *)
EmptyMeansNoClients == main = "fini" => \A t \in Threads : pc[t] # "serve"
=============================================================================
