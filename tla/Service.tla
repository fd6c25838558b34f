------------------------------- MODULE Service -------------------------------
(***************************************************************************)
(* A session of hw5 from its first packet to the end of its thread: the    *)
(* service loop (server.c), the packets it receives (protocol.c), the      *)
(* blobs, keys and versions it makes (data.c), and the store that keeps    *)
(* them (external: its operations are modelled from what store.h and the   *)
(* functions it calls back show).  The transaction manager is taken by     *)
(* what it promises, CommitRule; Transaction shows that it keeps that.     *)
(* Transactions never abort here: trans_abort leaves a pending one as it   *)
(* is.  A payload stands for the bytes strcpy finds behind its pointer, so *)
(* that a payload that arrives in part, or ends without a NUL, is another  *)
(* payload.                                                                *)
(***************************************************************************)
EXTENDS Integers, Sequences, FiniteSets

CONSTANTS Trans,         \* the connections, each with its transaction
          Keys,          \* contents of keys
          Ids,           \* the numberings trans_create may give
          Garbages,      \* what malloc may leave where refcnt will be
          NoBlob,        \* a NULL blob pointer
          NoThread,      \* nobody holds the mutex of the store's map
          NoCall,        \* no request is being served
          MaxRequests    \* bound: PUT and GET requests in all; a client that
                         \* sends no payload counts for two, garbage as it is

ASSUME ServiceAssumption ==
  /\ Ids \subseteq [Trans -> Nat] /\ Garbages \subseteq Nat
  /\ MaxRequests \in Nat
  /\ NoThread \notin Trans

(* The key blob and the value blob of each request. *)
Blobs == Trans \X (1..MaxRequests) \X {"key", "value"}

ASSUME NoBlobAssumption == NoBlob \notin Blobs

VARIABLES status, deps,  \* of CommitRule
          id,            \* the transaction's id
          pc,            \* what the service thread is doing
          req,           \* requests received
          local,         \* the pointers key, value and *datap of the service loop
          valuep,        \* *valuep: the blob store_get has returned
          mapLock,       \* the thread in the store, or NoThread
          call,          \* its call: PUT or not, and which key
          cursor,        \* the version add_version visits next
          entry,         \* the key blob of the map entry of each key
          versions,      \* the version list of each key
          blob,          \* refcnt of each blob, and whether it is allocated
          garbage,       \* what refcnt holds before blob_create
          end,           \* "running", or what has ended the server
          reads, used,   \* history: blobs got by GET, keys operated on, ...
          bare           \* ... a data packet has come without payload

storeVars   == <<mapLock, call, cursor, entry, versions, blob>>
ruleVars    == <<status, deps>>
requestVars == <<req, local>>
historyVars == <<reads, used, bare>>
fixed       == <<id, garbage>>
vars == <<ruleVars, fixed, pc, requestVars, valuep, storeVars, end, historyVars>>

Rule == INSTANCE CommitRule

(* A pointer is the number of the payload it points to; *datap is unset at  *)
(* first, and key and value are malloc'd before the loop.                   *)
Unset == 0
Locals == [key |-> -1, value |-> -2, datap |-> Unset]

Init ==
  /\ id \in Ids /\ garbage \in Garbages
  /\ status = [c \in Trans |-> "pending"] /\ deps = [c \in Trans |-> {}]
  /\ pc = [c \in Trans |-> "request"]
  /\ req = [c \in Trans |-> 0]
  /\ local = [c \in Trans |-> Locals]
  /\ valuep = [c \in Trans |-> NoBlob]
  /\ mapLock = NoThread /\ cursor = 0 /\ call = NoCall
  /\ entry = [k \in Keys |-> NoBlob]
  /\ versions = [k \in Keys |-> <<>>]
  /\ blob = [b \in Blobs |-> [refcnt |-> garbage, allocated |-> FALSE]]
  /\ end = "running"
  /\ reads = [c \in Trans |-> {}] /\ used = [c \in Trans |-> {}]
  /\ bare = [c \in Trans |-> FALSE]

At(c, where)   == end = "running" /\ pc[c] = where
Goto(c, where) == pc' = [pc EXCEPT ![c] = where]

ValueBlob(c) == <<c, req[c], "value">>

----------------------------------------------------------------------------
(* Variant of BlobRef: the count does not grow after the first reference. *)
BlobRefOnce(M, b) == [M EXCEPT ![b].refcnt = garbage + 1]

(* data.c.  M is the memory of the blobs before the call. *)
BlobRef(M, b) == [M EXCEPT ![b].refcnt = @ + 1]

(* refcnt is not initialised: the one reference is added to what is there. *)
BlobCreate(M, b) == BlobRef([M EXCEPT ![b].allocated = TRUE], b)

BlobUnref(M, b) ==
  [M EXCEPT ![b] = [refcnt |-> @.refcnt - 1, allocated |-> @.refcnt - 1 # 0]]

(* A key inherits the reference to its blob and gives it back. *)
KeyDispose(M, b) == BlobUnref(M, b)

(* A version inherits a reference to its blob, or has none. *)
VersionCreate(c, b) == [creator |-> c, blob |-> b]

VersionDispose(M, v) == BlobUnref(M, v.blob)

----------------------------------------------------------------------------
(* Variant of Received: *datap is set only once. *)
ReceivedOnce(l, payload) == IF payload THEN [l EXCEPT !.datap = 1] ELSE l

(* proto_recv_packet sets *datap only when a payload comes with the packet. *)
Received(l, payload) == IF payload THEN [l EXCEPT !.datap = @ + 1] ELSE l

(* The data packet of the key, the data packet of the value. *)
ReceivedKey(l, payload) ==
  LET r == Received(l, payload) IN [r EXCEPT !.key = r.datap]

ReceivedValue(l, payload) ==
  LET r == Received(l, payload) IN [r EXCEPT !.value = r.datap]

(* There is room for another request, perhaps one that lacks a payload. *)
Room(c, lacks) ==
  Cardinality({r \in Trans \X (1..MaxRequests) : r[2] <= req[r[1]]})
  + 2 * Cardinality({d \in Trans : bare[d] \/ (lacks /\ d = c)}) + garbage < MaxRequests

(* A request has come, with these data packets, payloads and locals: its     *)
(* blobs and its key are made, the store locks its map and finds the entry   *)
(* of the key, or adds one that keeps the key.                               *)
EnterStore(c, isPut, payloads, l) ==
  /\ At(c, "request") /\ mapLock = NoThread
  /\ Room(c, FALSE \in payloads)
  /\ mapLock' = c /\ cursor' = 1
  /\ req' = [req EXCEPT ![c] = @ + 1]
  /\ local' = [local EXCEPT ![c] = l]
  /\ bare' = [bare EXCEPT ![c] = @ \/ FALSE \in payloads]
  /\ \E k \in Keys :
       LET keyBlob == <<c, req'[c], "key">>
           made == IF isPut THEN BlobCreate(BlobCreate(blob, keyBlob), <<c, req'[c], "value">>)
                            ELSE BlobCreate(blob, keyBlob)
       IN /\ call' = [put |-> isPut, key |-> k]
          /\ used' = [used EXCEPT ![c] = @ \cup {k}]
          /\ IF entry[k] = NoBlob
             THEN entry' = [entry EXCEPT ![k] = keyBlob] /\ blob' = made
             ELSE UNCHANGED entry /\ blob' = KeyDispose(made, keyBlob)
  /\ Goto(c, "walk")
  /\ UNCHANGED <<ruleVars, fixed, valuep, versions, end, reads>>

PutRequest(c) ==
  \E p, q \in BOOLEAN :
    EnterStore(c, TRUE, {p, q}, ReceivedValue(ReceivedKey(local[c], p), q))

GetRequest(c) ==
  \E p \in BOOLEAN : EnterStore(c, FALSE, {p}, ReceivedKey(local[c], p))

(* Without a payload *datap may still be unset when blob_create copies what  *)
(* it points to: the server may end.                                        *)
CopyUnset(c) ==
  /\ At(c, "request") /\ local[c].datap = Unset /\ Room(c, TRUE)
  /\ end' = "no payload"
  /\ bare' = [bare EXCEPT ![c] = TRUE]
  /\ UNCHANGED <<ruleVars, fixed, pc, requestVars, valuep, storeVars, reads, used>>

----------------------------------------------------------------------------
List == versions[call.key]

(* Of two committed versions in a row the earlier one is disposed of, and   *)
(* the list starts with the later one.                                      *)
VisitCommitted(c) ==
  /\ At(c, "walk") /\ cursor <= Len(List)
  /\ status[List[cursor].creator] = "committed"
  /\ IF cursor > 1 /\ status[List[cursor - 1].creator] = "committed"
     THEN LET previous == List[cursor - 1] IN
          IF previous.blob = NoBlob
          THEN end' = "no blob" /\ UNCHANGED <<versions, blob, cursor>>
          ELSE /\ blob' = VersionDispose(blob, previous)
               /\ versions' = [versions EXCEPT ![call.key] = SubSeq(@, cursor, Len(@))]
               /\ cursor' = 2
               /\ UNCHANGED end
     ELSE cursor' = cursor + 1 /\ UNCHANGED <<versions, blob, end>>
  /\ UNCHANGED <<ruleVars, fixed, pc, requestVars, valuep, mapLock, call, entry, historyVars>>

(* Variant of Dependees: no dependency is recorded. *)
NoDependees(c, d) == deps[c]

(* trans_add_dependency puts the new dependee in the place of the others.   *)
Dependees(c, d) == {d}

(* A pending version by an older transaction is one to depend on. *)
VisitPending(c) ==
  /\ At(c, "walk") /\ cursor <= Len(List)
  /\ LET d == List[cursor].creator
     IN /\ status[d] = "pending"
        /\ deps' = [deps EXCEPT ![c] = IF id[d] < id[c] THEN Dependees(c, d) ELSE @]
  /\ cursor' = cursor + 1
  /\ UNCHANGED <<status, fixed, pc, requestVars, valuep, mapLock, call, entry, versions, blob, end, historyVars>>

Walked(c) == At(c, "walk") /\ cursor > Len(List)

Last == List[Len(List)]

Overtaken(c) == List # <<>> /\ id[c] < id[Last.creator]

LeaveStore(c) == /\ mapLock' = NoThread /\ cursor' = 0
                 /\ call' = NoCall
                 /\ Goto(c, "reply")

(* The last version is by a younger transaction: no version is made, a GET  *)
(* gets NULL, and nobody keeps the value of a PUT.                          *)
Conflict(c) ==
  /\ Walked(c) /\ Overtaken(c)
  /\ LeaveStore(c)
  /\ valuep' = [valuep EXCEPT ![c] = NoBlob]
  /\ UNCHANGED <<ruleVars, fixed, req, local, entry, versions, blob, end, historyVars>>

(* The blob of the new version: the value of the PUT, or that of the last   *)
(* version, with a reference for the new one and one for the caller of GET. *)
NewBlob(c) == IF call.put THEN ValueBlob(c)
              ELSE IF List = <<>> THEN NoBlob ELSE Last.blob

Referenced(c) == IF call.put \/ NewBlob(c) = NoBlob THEN blob
                 ELSE BlobRef(BlobRef(blob, NewBlob(c)), NewBlob(c))

Mine(c) == List # <<>> /\ Last.creator = c

(* The new version replaces one the same transaction has made, which is     *)
(* disposed of, blob or not, or is appended.                                *)
AddVersion(c) ==
  /\ Walked(c) /\ ~Overtaken(c)
  /\ IF Mine(c) /\ Last.blob = NoBlob
     THEN end' = "no blob" /\ UNCHANGED <<pc, valuep, mapLock, call, cursor, versions, blob, reads>>
     ELSE /\ LET kept == IF Mine(c) THEN SubSeq(List, 1, Len(List) - 1) ELSE List
             IN versions' = [versions EXCEPT ![call.key] = Append(kept, VersionCreate(c, NewBlob(c)))]
          /\ blob' = IF Mine(c) THEN VersionDispose(Referenced(c), Last) ELSE Referenced(c)
          /\ valuep' = [valuep EXCEPT ![c] = IF call.put THEN NoBlob ELSE NewBlob(c)]
          /\ reads' = [reads EXCEPT ![c] = @ \cup (IF call.put THEN {} ELSE {NewBlob(c)} \ {NoBlob})]
          /\ LeaveStore(c)
          /\ UNCHANGED end
  /\ UNCHANGED <<ruleVars, fixed, req, local, entry, used, bare>>

----------------------------------------------------------------------------
(* Any client may be gone by now: writing to its connection may raise       *)
(* SIGPIPE, which nothing catches.                                          *)
Send == end' \in {"running", "pipe"}

(* The reply, and for a GET the value, whose reference is dropped outside   *)
(* the mutex of the map.                                                    *)
Reply(c) ==
  /\ At(c, "reply")
  /\ Send
  /\ blob' = IF valuep[c] = NoBlob THEN blob ELSE BlobUnref(blob, valuep[c])
  /\ valuep' = [valuep EXCEPT ![c] = NoBlob]
  /\ Goto(c, "request")
  /\ UNCHANGED <<ruleVars, fixed, requestVars, mapLock, call, cursor, entry, versions, historyVars>>

(* free(key), free(value): both may be the same pointer. *)
Free(l) == end' = IF l.key = l.value THEN "double free" ELSE "running"

(* A COMMIT packet: while trans_commit waits the connection is as if idle.  *)
Commit(c) ==
  /\ At(c, "request") /\ Rule!Commit(c)
  /\ Goto(c, "answer")
  /\ UNCHANGED <<fixed, requestVars, valuep, storeVars, end, historyVars>>

(* The reply, and the end of the thread. *)
AnswerCommit(c) ==
  /\ At(c, "answer")
  /\ \/ Free(local[c])
     \/ end' = "pipe"
  /\ Goto(c, "done") /\ local' = [local EXCEPT ![c] = Locals]
  /\ UNCHANGED <<ruleVars, fixed, req, valuep, storeVars, historyVars>>

(* Nothing more to receive, perhaps behind the key of a PUT: errno is EIO at *)
(* the latest when the loop tries to receive the next request.  The          *)
(* transaction stays pending.                                                *)
EndOfInput(c) ==
  /\ At(c, "request")
  /\ \/ Free(local[c]) /\ UNCHANGED bare
     \/ \E payload \in BOOLEAN : /\ payload \/ Room(c, TRUE)
                                 /\ Free(ReceivedKey(local[c], payload))
                                 /\ bare' = [bare EXCEPT ![c] = @ \/ ~payload]
  /\ Goto(c, "done") /\ local' = [local EXCEPT ![c] = Locals]
  /\ UNCHANGED <<ruleVars, fixed, req, valuep, storeVars, reads, used>>

----------------------------------------------------------------------------
Next == \E c \in Trans :
  \/ PutRequest(c) \/ GetRequest(c) \/ CopyUnset(c)
  \/ VisitCommitted(c) \/ VisitPending(c) \/ Conflict(c) \/ AddVersion(c)
  \/ Reply(c) \/ Commit(c) \/ AnswerCommit(c) \/ EndOfInput(c)

Spec == Init /\ [][Next]_vars

----------------------------------------------------------------------------
(* A blob got by GET whose writer has not committed. *)
Dirty(c) == {b \in reads[c] : b[1] # c /\ status[b[1]] # "committed"}

(* Transactions that share an id, or have operated on more than one key, may *)
(* forget whom they depend on.                                               *)
Forgetful == \/ \E c, d \in Trans : c # d /\ id[c] = id[d]
             \/ \E c \in Trans : Cardinality(used[c]) > 1

(* store.h, "serializable": a committed transaction has read only what       *)
(* committed transactions wrote.  A dependency list keeps its newest node    *)
(* only (transaction.c:137), and still this holds as long as ids differ and  *)
(* everyone keeps to one key: the last dependee stands for all before it.    *)
DirtyOnlyWhenForgetful ==
  \A c \in Trans : status[c] = "committed" /\ Dirty(c) # {} => Forgetful

(* The places that hold a pointer to a blob: map entries, versions, and the *)
(* *valuep of a thread that has still to send the value.                    *)
VersionsWith(k, b) == {i \in 1..Len(versions[k]) : versions[k][i].blob = b}

Pointers(b) ==
  Cardinality({k \in Keys : entry[k] = b}) + Cardinality({c \in Trans : valuep[c] = b})
  + Cardinality(UNION {{k} \X VersionsWith(k, b) : k \in Keys})

Pointed == ({entry[k] : k \in Keys} \cup {valuep[c] : c \in Trans}
            \cup UNION {{versions[k][i].blob : i \in 1..Len(versions[k])} : k \in Keys}) \ {NoBlob}

(* data.h: a blob is not freed "as long as the reference count is nonzero",  *)
(* and the count covers every pointer to it, whatever malloc left there: a   *)
(* thread that sends a value after the map was unlocked, while others        *)
(* dispose of the version it came from, sends live memory.                   *)
BlobsCounted ==
  \A b \in Pointed : blob[b].allocated /\ Pointers(b) <= blob[b].refcnt - garbage

(* What ends the server: a reply to a client that has left, a data packet   *)
(* without payload, or a version without a blob, which only a GET of a      *)
(* missing key makes.  Nothing else, in whatever order clients go on.       *)
EndsOnlyBy ==
  /\ end \in {"no payload", "double free"} => \E c \in Trans : bare[c]
  /\ end = "no blob" => \E k \in Keys : \E i \in 1..Len(versions[k]) : versions[k][i].blob = NoBlob
=============================================================================
